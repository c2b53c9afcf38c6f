---------------------------- MODULE ReaperProofs ----------------------------
(***************************************************************************)
(* Theorems about module Reaper, for any number of shell threads, any      *)
(* priorities and any size of the mailbox: the memory of a shell thread is *)
(* freed only when the kernel is done with the thread, and the cleanup     *)
(* thread does not sleep on its semaphore beside a thread it could reap    *)
(* unless a post is still to come.                                         *)
(***************************************************************************)
EXTENDS Reaper, ThreadsProofs

-----------------------------------------------------------------------------
(* Where the threads are in their programs *)

\* Nothing in the kernel is about to happen to a thread with life l.
Loose(l) ==
    l.sleep = "NONE" /\ l.wake \in {"NONE", "DONE"} /\ ~l.timer /\ l.on = {}

Ready(l) == Loose(l) /\ l.state = {}

\* Asleep on queue q, or woken from it.
WaitsOn(l, q) ==
    \/ Ready(l)
    \/ /\ l.state = {"SLEEPING"} /\ l.sleep = "WAIT" /\ l.wake = "NONE"
       /\ ~l.timer /\ l.on = {q}

Delays(l) ==
    \/ Ready(l)
    \/ /\ l.state = {"SLEEPING"} /\ l.sleep = "DELAY" /\ l.wake = "NONE"
       /\ l.timer /\ l.on = {}

NotCreated(l, p, g) ==
    g = "none" /\ p = "user" /\ Loose(l) /\ l.state = {"SUSPENDED"}

\* The life l and the continuation p of a shell thread at statement g.  From
\* put() on it never sleeps again: that is where the cleanup thread finds it.
WorkerFits(l, p, g) ==
    \/ NotCreated(l, p, g)
    \/ g \in {"run", "late"} /\ p = "user" /\ Ready(l)
    \/ g = "late" /\ p = "delay" /\ Delays(l)
    \/ g = "post" /\ p = "put" /\ WaitsOn(l, putq)
    \/ g \in {"post", "return"} /\ p = "user" /\ Loose(l) /\ l.state \in {{}, {"EXITED"}}

\* The same of the cleanup thread.
ReaperFits(l, p, g) ==
    \/ NotCreated(l, p, g)
    \/ g \in {"wait", "get", "kill", "delete"} /\ p = "user" /\ Ready(l)
    \/ g = "get" /\ p = "wait" /\ WaitsOn(l, cleanup_sem)
    \/ g = "kill" /\ p = "get" /\ WaitsOn(l, getq)

Fits(t, l, p, g) == IF t = reaper THEN ReaperFits(l, p, g) ELSE WorkerFits(l, p, g)

ProgramsOK ==
    /\ stage \in [Thread -> Stage]
    /\ \A t \in Thread : Fits(t, Life(k, t), pc[t], stage[t])
    /\ \A t \in Thread : stage[t] = "none" => k.suspend_count[t] = 1
    /\ Life(k, Idle).on = {}

-----------------------------------------------------------------------------
(* The mailbox, the semaphore and the memory *)

\* A shell thread that has put itself into the mailbox.
Delivered(t) == t \in Worker /\ stage[t] \in {"post", "return"} /\ pc[t] = "user"

Slot(n) == IF Size <= n THEN n - Size ELSE n

BoxFits ==
    /\ base \in 0..(Size - 1)
    /\ count \in 0..Size
    /\ itemqueue \in [0..(Size - 1) -> Worker \cup {None}]
    /\ \A i \in 0..(Size - 1) : itemqueue[i] # None => Delivered(itemqueue[i])
    /\ \A i \in 0..(count - 1) : itemqueue[Slot(base + i)] # None
    /\ item \in [Thread -> Worker \cup {None}]
    /\ \A t \in Thread : pc[t] = "put" => item[t] = t

\* The thread the cleanup thread has got, and the threads it is done with.
GotFits ==
    /\ stage[reaper] \in {"kill", "delete"} /\ pc[reaper] = "user" => Delivered(ritem)
    /\ stage[reaper] = "delete" => k.state[ritem] = {"EXITED"}
    /\ freed \subseteq Worker
    /\ \A t \in freed : k.state[t] = {"EXITED"} /\ self # t

\* The cleanup thread has not got past the semaphore.
Early == stage[reaper] \in {"none", "wait"} \/ pc[reaper] = "wait"

\* Until then nobody has been killed, and no post has been missed.
SemFits ==
    /\ sem_count \in Nat
    /\ Early =>
         \A t \in Worker :
            /\ "EXITED" \in k.state[t] => stage[t] = "return"
            /\ stage[t] = "return" => sem_count > 0 /\ "SLEEPING" \notin k.state[reaper]

ReaperInv == KInv /\ ProgramsOK /\ BoxFits /\ GotFits /\ SemFits

-----------------------------------------------------------------------------
(* The semaphore's part of the composition works on the same kernel: the     *)
(* operators that its instance brings along are those of module Kernel.      *)

\* Lists.
LEMMA SemRemoveFirst ==
    ASSUME NEW s, NEW e
    PROVE  Sem!RemoveFirst(s, e) = RemoveFirst(s, e)
BY DEF Sem!RemoveFirst, RemoveFirst, Sem!RemoveAt, RemoveAt,
       Sem!SelectInSeq, SelectInSeq, Sem!Min, Min

\* The scheduler.
LEMMA SemScheduler ==
    ASSUME NEW x, NEW t
    PROVE  /\ Sem!Runnable(x, t) = Runnable(x, t)
           /\ Sem!LeaveQueue(x, t) = LeaveQueue(x, t)
           /\ Sem!AddThread(x, t) = AddThread(x, t)
           /\ Sem!RemThread(x, t) = RemThread(x, t)
<1>1. \A y, u : Sem!Runnable(y, u) = Runnable(y, u)
  BY DEF Sem!Runnable, Runnable, Sem!RUNNING, RUNNING
<1>2. \A y, u : Sem!LeaveQueue(y, u) = LeaveQueue(y, u)
  BY SemRemoveFirst DEF Sem!LeaveQueue, LeaveQueue
<1>3. \A y, u : Sem!SetNeedReschedule(y, u) = SetNeedReschedule(y, u)
  BY <1>1 DEF Sem!SetNeedReschedule, SetNeedReschedule
<1>4. Sem!AddThread(x, t) = AddThread(x, t)
  <2> DEFINE Added(y) == [y EXCEPT !.run_queue[x.priority[t]] = Append(@, t),
                                   !.queue_map    = @ \cup {x.priority[t]},
                                   !.timeslice[t] = TimesliceTicks]
  <2>1. Sem!AddThread(x, t) = Sem!SetNeedReschedule(Added(Sem!LeaveQueue(x, t)), t)
    BY DEF Sem!AddThread
  <2>2. AddThread(x, t) = SetNeedReschedule(Added(LeaveQueue(x, t)), t)
    BY DEF AddThread
  <2> HIDE DEF Added
  <2> QED BY <1>2, <1>3, <2>1, <2>2
<1>5. Sem!RemThread(x, t) = RemThread(x, t)
  <2> DEFINE p == x.priority[t]
             Removed(q) == [x EXCEPT !.run_queue[p] = q,
                                     !.queue_map    = IF q = <<>> THEN @ \ {p} ELSE @]
  <2>1. Sem!RemThread(x, t) = Removed(Sem!RemoveFirst(x.run_queue[p], t))
    BY DEF Sem!RemThread
  <2>2. RemThread(x, t) = Removed(RemoveFirst(x.run_queue[p], t))
    BY DEF RemThread
  <2> HIDE DEF Removed
  <2> QED BY <2>1, <2>2, SemRemoveFirst
<1> QED BY <1>1, <1>2, <1>4, <1>5

\* Sleeping and waking.
LEMMA SemThread ==
    ASSUME NEW x, NEW t, NEW r, NEW q
    PROVE  /\ Sem!Sleep(x) = Sleep(x)
           /\ Sem!Wake(x, t) = Wake(x, t)
           /\ Sem!Exit(x) = Exit(x)
           /\ Sem!SetSleepReason(x, r) = SetSleepReason(x, r)
           /\ Sem!SetWakeReason(x, t, r) = SetWakeReason(x, t, r)
           /\ Sem!Enqueue(x, q, t) = Enqueue(x, q, t)
           /\ Sem!Unlock(x) = Unlock(x)
           /\ Sem!Reschedule(x) = Reschedule(x)
<1>1. Sem!Sleep(x) = Sleep(x)
  BY SemScheduler DEF Sem!Sleep, Sleep
<1>2. Sem!Wake(x, t) = Wake(x, t)
  BY SemScheduler DEF Sem!Wake, Wake, Sem!SLEEPSET, SLEEPSET
<1>3. Sem!Exit(x) = Exit(x)
  BY SemScheduler DEF Sem!Exit, Exit, Sem!ClearTimer, ClearTimer
<1>4. /\ Sem!SetSleepReason(x, r) = SetSleepReason(x, r)
      /\ Sem!SetWakeReason(x, t, r) = SetWakeReason(x, t, r)
  BY DEF Sem!SetSleepReason, SetSleepReason, Sem!SetWakeReason, SetWakeReason
<1>5. /\ Sem!Enqueue(x, q, t) = Enqueue(x, q, t)
      /\ Sem!Unlock(x) = Unlock(x) /\ Sem!Reschedule(x) = Reschedule(x)
  BY DEF Sem!Enqueue, Enqueue, Sem!Unlock, Unlock, Sem!Reschedule, Reschedule
<1> QED BY <1>1, <1>2, <1>3, <1>4, <1>5

\* wait() takes from the count or blocks.
LEMMA SemWaitIs ==
    ASSUME Sem!SemWait
    PROVE  /\ InThread /\ UNCHANGED ticks
           /\ \/ /\ sem_count = 0 /\ sem_count' = sem_count
                 /\ k' = BlockOn(k, cleanup_sem, "WAIT")
                 /\ pc' = [pc EXCEPT ![self] = "wait"]
              \/ /\ sem_count > 0 /\ sem_count' = sem_count - 1
                 /\ k' = Unlock(k) /\ UNCHANGED pc
<1>1. Sem!Block(k, "WAIT") = BlockOn(k, cleanup_sem, "WAIT")
  BY SemThread DEF Sem!Block, BlockOn, Sem!self, self
<1> QED BY <1>1, SemThread DEF Sem!SemWait, Sem!InThread, InThread, Sem!self, self

\* Back in its loop, after a wake-up that is neither a failure nor its end.
LEMMA SemWokenIs ==
    ASSUME Sem!SemWaitWoken, k.wake_reason[self] \notin {"EXIT", "DESTRUCT", "BREAK"}
    PROVE  /\ k.sched_lock = "inner" /\ pc[self] = "wait" /\ UNCHANGED ticks
           /\ \/ /\ sem_count = 0 /\ sem_count' = sem_count
                 /\ k' = BlockOn(k, cleanup_sem, "WAIT") /\ UNCHANGED pc
              \/ /\ sem_count > 0 /\ sem_count' = sem_count - 1
                 /\ k' = Unlock(k) /\ pc' = [pc EXCEPT ![self] = "user"]
<1>1. Sem!Block(k, "WAIT") = BlockOn(k, cleanup_sem, "WAIT")
  BY SemThread DEF Sem!Block, BlockOn, Sem!self, self
<1> QED BY <1>1, SemThread DEF Sem!SemWaitWoken, Sem!self, self

\* post() counts and wakes the head of the queue, as a mailbox does.
LEMMA SemPostIs ==
    ASSUME Sem!SemPost
    PROVE  /\ sem_count' = sem_count + 1 /\ UNCHANGED <<pc, ticks>>
           /\ k' = Unlock(wakeup_waiter(k, cleanup_sem))
<1>1. \A t : Sem!Wake(Sem!SetWakeReason(Sem!LeaveQueue(k, t), t, "DONE"), t)
             = Wake(SetWakeReason(LeaveQueue(k, t), t, "DONE"), t)
  BY SemThread, SemScheduler
<1> QED BY <1>1, SemThread DEF Sem!SemPost, Sem!WakeHead, wakeup_waiter

-----------------------------------------------------------------------------
(* A thread that has not been created yet is suspended once                  *)

\* No suspend count but that of t has changed.
CountsKept(n, x, t) ==
    \A u \in AllThread \ {t} : n.suspend_count[u] = x.suspend_count[u]

\* The counts are kept by operations in a row.
LEMMA CountsTransitive ==
    ASSUME NEW x, NEW n, NEW m, NEW t, CountsKept(n, x, t), CountsKept(m, n, t)
    PROVE  CountsKept(m, x, t)
BY DEF CountsKept

\* Sleeping and waking change no count.
LEMMA SleepCounts ==
    ASSUME NEW x \in KernelState, NEW t, NEW u, NEW r, NEW q
    PROVE  /\ CountsKept(Sleep(x), x, t)
           /\ CountsKept(Wake(x, u), x, t)
           /\ CountsKept(LeaveQueue(x, u), x, t)
           /\ CountsKept(Enqueue(x, q, u), x, t)
           /\ CountsKept(SetSleepReason(x, r), x, t)
           /\ CountsKept(SetWakeReason(x, u, r), x, t)
           /\ CountsKept(ClearTimer(x, u), x, t)
<1>1. CountsKept(Sleep(x), x, t)
  BY DEF CountsKept, Sleep, RemThread, KernelState
<1>2. CountsKept(Wake(x, u), x, t)
  BY DEF CountsKept, Wake, AddThread, LeaveQueue, SetNeedReschedule, KernelState
<1>3. CountsKept(LeaveQueue(x, u), x, t) /\ CountsKept(Enqueue(x, q, u), x, t)
  BY DEF CountsKept, LeaveQueue, Enqueue, KernelState
<1>4. CountsKept(SetSleepReason(x, r), x, t) /\ CountsKept(SetWakeReason(x, u, r), x, t)
  BY DEF CountsKept, SetSleepReason, SetWakeReason, KernelState
<1>5. CountsKept(ClearTimer(x, u), x, t)
  BY DEF CountsKept, ClearTimer, KernelState
<1> QED BY <1>1, <1>2, <1>3, <1>4, <1>5

\* Neither does the scheduler.
LEMMA SchedulerCounts ==
    ASSUME NEW x \in KernelState, NEW t
    PROVE  /\ CountsKept(UnlockInner(x), x, t)
           /\ CountsKept(Timeslice(x), x, t)
           /\ CountsKept(StartCpu(x), x, t)
           /\ CountsKept(Unlock(x), x, t)
           /\ CountsKept(Reschedule(x), x, t)
<1>1. CountsKept(UnlockInner(x), x, t)
  BY DEF CountsKept, UnlockInner, SwitchTo, KernelState
<1>2. CountsKept(Timeslice(x), x, t)
  BY DEF CountsKept, Timeslice, TimesliceCpu, KernelState
<1>3. CountsKept(StartCpu(x), x, t)
  BY DEF CountsKept, StartCpu, KernelState
<1>4. CountsKept(Unlock(x), x, t) /\ CountsKept(Reschedule(x), x, t)
  BY DEF CountsKept, Unlock, Reschedule, KernelState
<1> QED BY <1>1, <1>2, <1>3, <1>4

\* A loop of get(), put() or wait() that blocks, and the wake-up of a waiter.
LEMMA BlockCounts ==
    ASSUME NEW x, KernelInv(x), QueuesDistinct(x), x.current # Idle, NEW t,
           NEW q \in WaitQueue
    PROVE  /\ CountsKept(Enqueue(Sleep(SetSleepReason(x, "WAIT")), q, x.current), x, t)
           /\ CountsKept(wakeup_waiter(x, q), x, t)
<1> DEFINE k1 == SetSleepReason(x, "WAIT")
           k2 == Sleep(k1)
           u  == x.current
<1>1. x \in KernelState /\ "WAIT" \in SleepReason /\ "DONE" \in WakeReason
  BY DEF KernelInv, SleepReason, WakeReason
<1>2. CountsKept(k1, x, t) /\ KernelInv(k1) /\ k1.current = u
  BY <1>1, SleepCounts, SetSleepReasonInv DEF Keeps
<1> HIDE DEF k1
<1>3. CountsKept(k2, k1, t) /\ KernelInv(k2)
  BY <1>2, SleepCounts, SleepInv DEF KernelInv
<1> HIDE DEF k2
<1>4. CountsKept(Enqueue(k2, q, u), k2, t)
  BY <1>3, SleepCounts DEF KernelInv
<1>5. CountsKept(Enqueue(k2, q, u), x, t)
  <2> HIDE DEF u
  <2> QED BY <1>2, <1>3, <1>4, CountsTransitive
<1>6. CountsKept(wakeup_waiter(x, q), x, t)
  <2> DEFINE h == Head(x.wait_queue[q])
             j1 == LeaveQueue(x, h)
             j2 == SetWakeReason(j1, h, "DONE")
  <2>1. CASE x.wait_queue[q] = <<>>
    BY <2>1 DEF wakeup_waiter, CountsKept
  <2>2. CASE x.wait_queue[q] # <<>>
    <3>1. h \in AllThread /\ wakeup_waiter(x, q) = Wake(j2, h)
      BY <1>1, <2>2, QueueLife DEF wakeup_waiter
    <3> HIDE DEF h
    <3>2. j1 \in KernelState /\ CountsKept(j1, x, t)
      BY <1>1, <3>1, LeaveQueueFacts, SleepCounts
    <3> HIDE DEF j1
    <3>3. j2 \in KernelState /\ CountsKept(j2, j1, t)
      <4>1. j2 \in KernelState
        BY <1>1, <3>1, <3>2 DEF SetWakeReason, KernelState, SleepReason
      <4> QED BY <3>2, <4>1, SleepCounts
    <3> HIDE DEF j2
    <3>4. CountsKept(Wake(j2, h), j2, t)
      BY <3>3, SleepCounts
    <3> QED BY <3>1, <3>2, <3>3, <3>4, CountsTransitive
  <2> QED BY <2>1, <2>2
<1> QED BY <1>5, <1>6 DEF k1, k2, u

\* The alarm of a thread's timer.
LEMMA AlarmCounts ==
    ASSUME NEW x, KernelInv(x), NEW t, NEW u \in AllThread
    PROVE  CountsKept(ThreadTimerAlarm(x, u), x, t)
<1> DEFINE k1 == ClearTimer(x, u)
           k2(r) == SetWakeReason(k1, u, r)
<1>1. k1 \in KernelState /\ CountsKept(k1, x, t)
  <2>1. x \in KernelState
    BY DEF KernelInv
  <2> QED BY <2>1, SleepCounts DEF ClearTimer, KernelState
<1>2. \/ ThreadTimerAlarm(x, u) = k1
      \/ \E r \in WakeReason : ThreadTimerAlarm(x, u) = Wake(k2(r), u)
  BY DEF ThreadTimerAlarm, WakeReason
<1> HIDE DEF k1
<1>3. ASSUME NEW r \in WakeReason PROVE CountsKept(Wake(k2(r), u), x, t)
  <2>1. k2(r) \in KernelState /\ CountsKept(k2(r), k1, t)
    <3>1. k2(r) \in KernelState
      BY <1>1 DEF SetWakeReason, KernelState, SleepReason
    <3> QED BY <1>1, <3>1, SleepCounts
  <2> HIDE DEF k2
  <2>2. CountsKept(Wake(k2(r), u), k2(r), t)
    BY <2>1, SleepCounts
  <2> QED BY <1>1, <2>1, <2>2, CountsTransitive
<1> HIDE DEF k2
<1> QED BY <1>1, <1>2, <1>3

\* delay() and exit().
LEMMA DelayCounts ==
    ASSUME NEW x, KernelInv(x), x.current # Idle, NEW t
    PROVE  /\ CountsKept(SetTimer(Sleep(x), "DELAY", FALSE), x, t)
           /\ CountsKept(Exit(x), x, t)
<1>1. x \in KernelState /\ x.current \in AllThread
  BY DEF KernelInv, KernelState
<1>2. CountsKept(SetTimer(Sleep(x), "DELAY", FALSE), x, t)
  <2> DEFINE k1 == Sleep(x)
             n  == SetTimer(k1, "DELAY", FALSE)
  <2>1. KernelInv(k1) /\ CountsKept(k1, x, t)
    BY <1>1, SleepInv, SleepCounts
  <2> HIDE DEF k1
  <2>2. k1 \in KernelState
    BY <2>1 DEF KernelInv
  <2>3. CountsKept(n, k1, t)
    BY <2>2 DEF SetTimer, SetSleepReason, CountsKept, KernelState
  <2> QED BY <2>1, <2>3, CountsTransitive DEF k1
<1>3. CountsKept(Exit(x), x, t)
  BY <1>1 DEF Exit, ClearTimer, RemThread, CountsKept, KernelState
<1> QED BY <1>2, <1>3

\* resume() and kill() of t.
LEMMA ResumeCounts ==
    ASSUME NEW x, KernelInv(x), NEW t \in AllThread, t # Idle
    PROVE  CountsKept(Resume(x, t), x, t) /\ CountsKept(Kill(x, t), x, t)
<1>1. x \in KernelState
  BY DEF KernelInv
<1>2. CountsKept(Unsuspend(x, t), x, t)
  BY <1>1 DEF Unsuspend, AddThread, LeaveQueue, SetNeedReschedule, CountsKept, KernelState
<1>3. CountsKept(x, x, t)
  BY DEF CountsKept
<1>4. CountsKept(Resume(x, t), x, t)
  <2>1. CountsKept([x EXCEPT !.suspend_count[t] = @ - 1], x, t)
    BY <1>1 DEF CountsKept, KernelState
  <2> QED BY <1>2, <1>3, <2>1 DEF Resume
<1>5. CountsKept(Kill(x, t), x, t)
  <2> DEFINE k0 == ForceResume(x, t)
             k1 == ClearTimer(k0, t)
             k2 == StopThread(k1, t)
             kd == [k2 EXCEPT !.state[t] = {"EXITED"}]
             ke == SetWakeReason(k1, t, "EXIT")
  <2>1. KernelInv(k0) /\ CountsKept(k0, x, t)
    BY <1>2, <1>3, ForceResumeInv DEF ForceResume
  <2>2. Kill(x, t) \in {Wake(k1, t), kd, Wake(ke, t)}
    BY DEF Kill, StopThread
  <2> HIDE DEF k0
  <2>3. KernelInv(k1) /\ CountsKept(k1, k0, t)
    BY <2>1, ClearTimerInv, SleepCounts DEF KernelInv
  <2> HIDE DEF k1
  <2>4. k1 \in KernelState /\ CountsKept(k1, x, t)
    BY <2>1, <2>3, CountsTransitive DEF KernelInv
  <2>5. CountsKept(kd, k1, t)
    BY <2>4 DEF StopThread, RemThread, CountsKept, KernelState
  <2>6. ke \in KernelState /\ CountsKept(ke, k1, t)
    <3>1. ke \in KernelState
      BY <2>4 DEF SetWakeReason, KernelState, SleepReason, WakeReason
    <3> QED BY <2>4, <3>1, SleepCounts
  <2> HIDE DEF ke, kd
  <2>7. CountsKept(Wake(k1, t), k1, t) /\ CountsKept(Wake(ke, t), ke, t)
    BY <2>4, <2>6, SleepCounts
  <2>8. CountsKept(Kill(x, t), k1, t)
    BY <2>2, <2>5, <2>6, <2>7, CountsTransitive
  <2> QED BY <2>4, <2>8, CountsTransitive
<1> QED BY <1>4, <1>5

-----------------------------------------------------------------------------
(* Steps *)

\* What the steps below use of the invariant and of the assumptions.
LEMMA ReaperFacts ==
    ASSUME ReaperInv
    PROVE  /\ KernelInv(k) /\ QueuesDistinct(k) /\ k \in KernelState
           /\ self \in AllThread /\ self = k.current
           /\ k.sched_lock \in {"thread", "inner"} => Life(k, self).state = {}
           /\ reaper \in Thread /\ reaper \notin Worker
           /\ \A t \in Thread : /\ t \in AllThread /\ t # Idle
                                /\ t # reaper => t \in Worker
                                /\ Fits(t, Life(k, t), pc[t], stage[t])
                                /\ stage[t] = "none" => k.suspend_count[t] = 1
           /\ \A t \in Worker : t \in Thread
           /\ \A t \in AllThread : t \in Thread \/ t = Idle
           /\ Idle \in AllThread
           /\ getq \in WaitQueue /\ putq \in WaitQueue /\ cleanup_sem \in WaitQueue
           /\ getq # putq /\ getq # cleanup_sem /\ putq # cleanup_sem
           /\ Size \in Nat /\ Size > 0
<1>1. /\ KernelInv(k) /\ QueuesDistinct(k) /\ k \in KernelState
      /\ self \in AllThread /\ self = k.current
      /\ k.sched_lock \in {"thread", "inner"} => Life(k, self).state = {}
      /\ \A t \in Thread : t \in AllThread /\ t # Idle
  BY KInvFacts DEF ReaperInv
<1> QED BY <1>1, ReaperAssumption, MboxAssumption
        DEF ReaperInv, ProgramsOK, Worker, AllThread

\* No thread leaves the mailbox's and the cleanup thread's sight, and none
\* comes back to life.
Onward ==
    \A w \in Thread : /\ Delivered(w) => Delivered(w)'
                      /\ k.state[w] = {"EXITED"} => k'.state[w] = {"EXITED"}

\* The program of thread s goes on to continuation c and statement g.
GoesTo(s, c, g) == pc' = [pc EXCEPT ![s] = c] /\ stage' = [stage EXCEPT ![s] = g]

\* A step of the kernel that changes the life of t to m and no suspend count but
\* that of v, beside a step of the program of s, with those two in order.
ProgramMove(t, m, v, s, c, g) ==
    /\ Only(k', k, t, m) /\ CountsKept(k', k, v)
    /\ GoesTo(s, c, g) /\ g \in Stage
    /\ Fits(s, IF s = t THEN m ELSE Life(k, s), c, g)
    /\ t \in Thread /\ t # s => Fits(t, m, pc[t], stage[t])
    /\ t = Idle => m.on = {}
    /\ v \in Thread => stage'[v] # "none"
    /\ g = "none" => stage[s] = "none"
    /\ Life(k, t).state = {"EXITED"} => m.state = {"EXITED"}
    /\ Delivered(s) => c = "user" /\ g \in {"post", "return"}

\* It keeps the programs in order.
LEMMA ProgramStep ==
    ASSUME ReaperInv, NEW t \in AllThread, NEW m, NEW v, NEW s \in Thread, NEW c, NEW g,
           ProgramMove(t, m, v, s, c, g)
    PROVE  ProgramsOK' /\ Onward
<1> USE DEF ProgramMove, GoesTo
<1>1. /\ \A w \in Thread : /\ w \in AllThread /\ w # Idle
                           /\ Fits(w, Life(k, w), pc[w], stage[w])
                           /\ stage[w] = "none" => k.suspend_count[w] = 1
      /\ Idle \in AllThread
  BY ReaperFacts
<1>2. stage \in [Thread -> Stage] /\ Life(k, Idle).on = {}
      /\ pc = [w \in AllThread |-> pc[w]]
  BY DEF ReaperInv, ProgramsOK, KInv
<1>3. stage' \in [Thread -> Stage]
  BY <1>2
<1>4. ASSUME NEW w \in Thread
      PROVE  /\ Life(k', w) = IF w = t THEN m ELSE Life(k, w)
             /\ pc'[w] = IF w = s THEN c ELSE pc[w]
             /\ stage'[w] = IF w = s THEN g ELSE stage[w]
  BY <1>1, <1>2 DEF Only
<1>5. Life(k', Idle).on = {}
  BY <1>1, <1>2 DEF Only
<1>6. ASSUME NEW w \in Thread PROVE Fits(w, Life(k', w), pc'[w], stage'[w])
  <2>1. CASE w = s
    BY <1>4, <2>1
  <2>2. CASE w # s /\ w = t
    BY <1>4, <2>2
  <2>3. CASE w # s /\ w # t
    BY <1>1, <1>4, <2>3
  <2> QED BY <2>1, <2>2, <2>3
<1>7. ASSUME NEW w \in Thread, stage'[w] = "none" PROVE k'.suspend_count[w] = 1
  <2>1. w # v /\ stage[w] = "none"
    BY <1>4, <1>7
  <2> QED BY <1>1, <2>1 DEF CountsKept
<1>8. ProgramsOK'
  BY <1>3, <1>5, <1>6, <1>7 DEF ProgramsOK
<1>9. ASSUME NEW w \in Thread, Delivered(w) PROVE Delivered(w)'
  BY <1>4, <1>9 DEF Delivered, Worker
<1>10. ASSUME NEW w \in Thread, k.state[w] = {"EXITED"} PROVE k'.state[w] = {"EXITED"}
  <2>1. Life(k, w).state = k.state[w] /\ Life(k', w).state = k'.state[w]
    BY DEF Life
  <2> QED BY <1>4, <1>10, <2>1
<1> QED BY <1>8, <1>9, <1>10 DEF Onward

\* A step that ends in unlock() or in reschedule(), makes m of the life of t,
\* changes no suspend count but that of v, and takes thread s to continuation c
\* and statement g of its program.
ProgramTurn(n, t, m, v, s, c, g) ==
    /\ KernelInv(n) /\ n.current = k.current
    /\ Only(n, k, t, m) /\ CountsKept(n, k, v)
    /\ k' = Unlock(n) \/ k' = Reschedule(n)
    /\ UNCHANGED ticks
    /\ pc' = [pc EXCEPT ![s] = c] /\ stage' = [stage EXCEPT ![s] = g]
    /\ Fits(s, IF s = t THEN m ELSE Life(k, s), c, g)
    /\ t \in Thread /\ t # s => Fits(t, m, pc[t], stage[t])
    /\ t = Idle => m.on = {}
    /\ v \in Thread => v = s \/ stage[v] # "none"
    /\ g \in Stage /\ g # "none"
    /\ Life(k, t).state = {"EXITED"} => m.state = {"EXITED"}
    /\ Delivered(s) => c = "user" /\ g \in {"post", "return"}

\* Such a step keeps the programs in order and the processor with its thread.
LEMMA ReaperStep ==
    ASSUME ReaperInv, NEW n, NEW t \in AllThread, NEW m, NEW v,
           NEW s \in Thread, NEW c, NEW g, ProgramTurn(n, t, m, v, s, c, g)
    PROVE  /\ KInv' /\ ProgramsOK' /\ Onward /\ self' = self
           /\ \A w \in AllThread : k'.state[w] = IF w = t THEN m.state ELSE k.state[w]
<1> USE DEF ProgramTurn
<1>1. KernelInv(k') /\ CurrentOK(k')
  BY UnlockFacts, RescheduleFacts
<1>2. QueuesDistinct(n) /\ n \in KernelState
  BY DEF Only, KernelInv
<1>3. Only(k', k, t, m)
  BY <1>2, LockLife, OnlySame
<1>4. s # Idle /\ s \in AllThread
  BY ReaperFacts
<1>5. pc' = [u \in AllThread |-> pc'[u]] /\ pc'[Idle] = "user"
  BY <1>4 DEF ReaperInv, KInv
<1>6. KInv'
  BY <1>1, <1>3, <1>5 DEF ReaperInv, KInv, Only
<1>7. CountsKept(k', n, v)
  BY <1>2, SchedulerCounts
<1>8. CountsKept(k', k, v) /\ g \in Stage /\ (v \in Thread => stage'[v] # "none")
  <2>1. stage'[s] = g
    BY DEF ReaperInv, ProgramsOK
  <2> QED BY <1>7, <2>1, CountsTransitive
<1>9. ProgramsOK' /\ Onward
  <2>1. ProgramMove(t, m, v, s, c, g)
    BY <1>3, <1>8 DEF ProgramMove, GoesTo
  <2> QED BY <2>1, ProgramStep
<1>10. self' = self
  BY <1>2 DEF self, KernelState, Unlock, Reschedule
<1>11. ASSUME NEW w \in AllThread
       PROVE  k'.state[w] = IF w = t THEN m.state ELSE k.state[w]
  <2>1. Life(k, w).state = k.state[w] /\ Life(k', w).state = k'.state[w]
    BY DEF Life
  <2> QED BY <1>3, <2>1 DEF Only
<1> QED BY <1>6, <1>9, <1>10, <1>11

\* Who runs is awake, and its place in its program tells who it is.
LEMMA RunningFacts ==
    ASSUME ReaperInv, k.sched_lock \in {"thread", "inner"}, self # Idle
    PROVE  /\ self \in Thread /\ Ready(Life(k, self))
           /\ pc[self] \in {"user", "delay", "put", "get", "wait"}
           /\ pc[self] = "delay" => self \in Worker /\ stage[self] = "late"
           /\ pc[self] = "put" => self \in Worker /\ stage[self] = "post"
           /\ pc[self] = "get" => self = reaper /\ stage[self] = "kill"
           /\ pc[self] = "wait" => self = reaper /\ stage[self] = "get"
           /\ stage[self] # "none"
<1> DEFINE l == Life(k, self)
           p == pc[self]
           g == stage[self]
           s == self
<1>1. s \in Thread /\ Fits(s, l, p, g) /\ l.state = {} /\ (s # reaper => s \in Worker)
  BY ReaperFacts
<1> HIDE DEF l, p, g, s
<1>2. CASE s = reaper
  BY <1>1, <1>2 DEF Fits, ReaperFits, NotCreated, WaitsOn, Ready, Loose, l, p, g, s
<1>3. CASE s # reaper
  BY <1>1, <1>3 DEF Fits, WorkerFits, NotCreated, WaitsOn, Delays, Ready, Loose, l, p, g, s
<1> QED BY <1>2, <1>3

\* Of the programs' threads, one that is on a queue sleeps there; when it is
\* woken, it is ready at the same place of its program.
LEMMA ReadyFits ==
    ASSUME NEW t, NEW l, NEW m, NEW p, NEW g, Fits(t, l, p, g), l.on # {}, Ready(m)
    PROVE  Fits(t, m, p, g) /\ l.state = {"SLEEPING"} /\ ~l.timer
<1>1. CASE t = reaper
  BY <1>1 DEF Fits, ReaperFits, NotCreated, Ready, Loose, WaitsOn
<1>2. CASE t # reaper
  BY <1>2 DEF Fits, WorkerFits, NotCreated, Ready, Loose, WaitsOn, Delays
<1> QED BY <1>1, <1>2

\* wake() is not a switch of threads.
LEMMA WakeKeepsCurrent ==
    ASSUME NEW x, "current" \in DOMAIN x, NEW t, NEW r
    PROVE  Wake(SetWakeReason(x, t, r), t).current = x.current
<1> DEFINE StillCurrent(n) == "current" \in DOMAIN n /\ n.current = x.current
           k1 == SetWakeReason(x, t, r)
           s  == k1.state[t] \ SLEEPSET
           k2 == [k1 EXCEPT !.state[t] = s]
           k3 == LeaveQueue(k2, t)
<1>1. StillCurrent(k1)
  BY DEF SetWakeReason
<1> HIDE DEF k1, s
<1>2. StillCurrent(k2)
  BY <1>1
<1> HIDE DEF k2
<1>3. StillCurrent(k3)
  BY <1>2 DEF LeaveQueue
<1> HIDE DEF k3
<1>4. StillCurrent(AddThread(k3, t))
  <2> DEFINE p  == k3.priority[t]
             k4 == LeaveQueue(k3, t)
             k5 == [k4 EXCEPT !.run_queue[p] = Append(@, t),
                              !.queue_map    = @ \cup {p},
                              !.timeslice[t] = TimesliceTicks]
  <2>1. StillCurrent(k4)
    BY <1>3 DEF LeaveQueue
  <2> HIDE DEF k4, p
  <2>2. StillCurrent(k5)
    BY <2>1
  <2>3. AddThread(k3, t) = SetNeedReschedule(k5, t)
    BY DEF AddThread, k4, p
  <2> HIDE DEF k5
  <2> QED BY <2>2, <2>3 DEF SetNeedReschedule
<1>5. Wake(k1, t) \in {k1, k3, AddThread(k3, t)}
  BY DEF Wake, k2, k3, s
<1> QED BY <1>1, <1>3, <1>4, <1>5 DEF k1

\* The wake-up of a waiter, if there is one.
LEMMA WakeReady ==
    ASSUME ReaperInv, self # Idle, NEW q \in WaitQueue
    PROVE  LET n == wakeup_waiter(k, q)
           IN  /\ KernelInv(n) /\ n.current = k.current /\ CountsKept(n, k, Idle)
               /\ \E t \in AllThread :
                     /\ Only(n, k, t, Life(n, t))
                     /\ \/ /\ t = Idle /\ Life(n, t) = Life(k, t)
                           /\ \A u \in AllThread : q \notin Life(k, u).on
                        \/ /\ t \in Thread /\ q \in Life(k, t).on
                           /\ Ready(Life(n, t)) /\ Life(k, t).state = {"SLEEPING"}
                           /\ Fits(t, Life(n, t), pc[t], stage[t])
<1> DEFINE n == wakeup_waiter(k, q)
           h == Head(k.wait_queue[q])
           k1 == LeaveQueue(k, h)
           l == Life(k, h)
           m == Dequeued(l, "DONE")
<1>1. KernelInv(k) /\ QueuesDistinct(k) /\ k \in KernelState /\ Idle \in AllThread
      /\ Life(k, Idle).on = {} /\ k.current # Idle
  BY ReaperFacts DEF ReaperInv, ProgramsOK
<1>2. CountsKept(n, k, Idle)
  BY <1>1, BlockCounts
<1>3. CASE k.wait_queue[q] = <<>>
  <2>1. n = k
    BY <1>3 DEF wakeup_waiter
  <2>2. Only(n, k, Idle, Life(n, Idle)) /\ Life(n, Idle) = Life(k, Idle)
    BY <1>1, <2>1 DEF Only
  <2>3. \A u \in AllThread : q \notin Life(k, u).on
    BY <1>1, <1>3, QueueLife
  <2> HIDE DEF n
  <2> QED BY <1>1, <1>2, <2>1, <2>2, <2>3 DEF n
<1>4. CASE k.wait_queue[q] # <<>>
  <2>1. /\ h \in AllThread /\ q \in l.on
        /\ n = Wake(SetWakeReason(k1, h, "DONE"), h)
        /\ "DONE" \in WakeReason
    BY <1>1, <1>4, QueueLife DEF wakeup_waiter, WakeReason
  <2>2. h \in Thread /\ Fits(h, l, pc[h], stage[h])
    BY <1>1, <2>1, ReaperFacts
  <2>3. KernelInv(n) /\ Only(n, k, h, m)
    BY <1>1, <2>1, DequeueLife
  <2>4. n.current = k.current
    <3> HIDE DEF h
    <3>1. "current" \in DOMAIN k
      BY <1>1 DEF KernelState
    <3>2. "current" \in DOMAIN k1 /\ k1.current = k.current
      BY <3>1 DEF LeaveQueue
    <3> HIDE DEF k1, n
    <3> QED BY <2>1, <3>2, WakeKeepsCurrent
  <2> HIDE DEF n, h, l
  <2>5. Life(n, h) = m
    BY <2>3 DEF Only
  <2>6. l.state = {"SLEEPING"} /\ ~l.timer
    <3>1. l.on # {}
      BY <2>1
    <3> DEFINE r == [state |-> {}, sleep |-> "NONE", wake |-> "NONE", timer |-> FALSE, on |-> {}]
    <3>2. Ready(r)
      BY DEF Ready, Loose
    <3> HIDE DEF r
    <3> QED BY <2>2, <3>1, <3>2, ReadyFits
  <2>7. Ready(m)
    BY <2>6 DEF Dequeued, Ready, Loose, SLEEPSET
  <2> HIDE DEF m
  <2>8. Fits(h, m, pc[h], stage[h])
    <3>1. l.on # {}
      BY <2>1
    <3> QED BY <2>2, <2>7, <3>1, ReadyFits
  <2> QED BY <1>2, <2>1, <2>2, <2>3, <2>4, <2>5, <2>6, <2>7, <2>8 DEF n, l
<1> HIDE DEF n
<1> QED BY <1>3, <1>4 DEF n

\* A step of the current thread's program that wakes a waiter of queue q.
LEMMA WakeStep ==
    ASSUME ReaperInv, self \in Thread, Life(k, self).state = {}, NEW q \in WaitQueue,
           k' = Unlock(wakeup_waiter(k, q)), UNCHANGED ticks,
           NEW c, NEW g \in Stage \ {"none"},
           pc' = [pc EXCEPT ![self] = c], stage' = [stage EXCEPT ![self] = g],
           Fits(self, Life(k, self), c, g),
           Delivered(self) => c = "user" /\ g \in {"post", "return"}
    PROVE  /\ KInv' /\ ProgramsOK' /\ Onward /\ self' = self
           /\ \A w \in Thread : /\ k'.state[w] \in {k.state[w], {}}
                                /\ k'.state[w] # k.state[w] => k.state[w] = {"SLEEPING"}
           /\ \A w \in Thread :
                 /\ q \in Life(k, w).on
                 /\ \A u \in Thread \ {w} : q \notin Life(k, u).on
                 => k'.state[w] = {}
<1> DEFINE n == wakeup_waiter(k, q)
           s == self
<1>1. /\ KernelInv(n) /\ n.current = k.current /\ CountsKept(n, k, Idle)
      /\ \E t \in AllThread :
            /\ Only(n, k, t, Life(n, t))
            /\ \/ /\ t = Idle /\ Life(n, t) = Life(k, t)
                  /\ \A u \in AllThread : q \notin Life(k, u).on
               \/ /\ t \in Thread /\ q \in Life(k, t).on
                  /\ Ready(Life(n, t)) /\ Life(k, t).state = {"SLEEPING"}
                  /\ Fits(t, Life(n, t), pc[t], stage[t])
  <2>1. self # Idle
    BY ReaperFacts
  <2> QED BY <2>1, WakeReady
<1> HIDE DEF n
<1>2. PICK t \in AllThread :
            /\ Only(n, k, t, Life(n, t))
            /\ \/ /\ t = Idle /\ Life(n, t) = Life(k, t)
                  /\ \A u \in AllThread : q \notin Life(k, u).on
               \/ /\ t \in Thread /\ q \in Life(k, t).on
                  /\ Ready(Life(n, t)) /\ Life(k, t).state = {"SLEEPING"}
                  /\ Fits(t, Life(n, t), pc[t], stage[t])
  BY <1>1
<1> DEFINE m == Life(n, t)
           l == Life(k, t)
<1>3. /\ \A w \in Thread : w \in AllThread /\ w # Idle
      /\ Life(k, Idle).on = {} /\ stage[self] \in Stage
  BY ReaperFacts DEF ReaperInv, ProgramsOK
<1>4. t # s
  BY <1>2, <1>3
<1>5. k' = Unlock(n) /\ t \in AllThread /\ Only(n, k, t, m) /\ s \in Thread
      /\ pc' = [pc EXCEPT ![s] = c] /\ stage' = [stage EXCEPT ![s] = g]
      /\ Fits(s, IF s = t THEN m ELSE Life(k, s), c, g)
  BY <1>2, <1>4 DEF n
<1>6. /\ t \in Thread /\ t # s => Fits(t, m, pc[t], stage[t])
      /\ t = Idle => m.on = {}
      /\ l.state = {"EXITED"} => m.state = {"EXITED"}
      /\ Idle \notin Thread
      /\ g \in Stage /\ g # "none"
      /\ Delivered(s) => c = "user" /\ g \in {"post", "return"}
  BY <1>2, <1>3
<1>7. /\ l.state = m.state \/ (m.state = {} /\ l.state = {"SLEEPING"})
      /\ (\A u \in AllThread : q \notin Life(k, u).on) \/ (q \in l.on /\ m.state = {} /\ t \in Thread)
  BY <1>2 DEF Ready
<1> HIDE DEF m, l, s
<1>8. /\ KInv' /\ ProgramsOK' /\ Onward /\ self' = self
      /\ \A w \in AllThread : k'.state[w] = IF w = t THEN m.state ELSE k.state[w]
  <2>1. ProgramTurn(n, t, m, Idle, s, c, g)
    BY <1>1, <1>5, <1>6 DEF ProgramTurn, l
  <2> QED BY <1>5, <2>1, ReaperStep
<1>9. l.state = k.state[t]
  BY DEF Life, l
<1>10. ASSUME NEW w \in Thread
       PROVE  /\ k'.state[w] \in {k.state[w], {}}
              /\ k'.state[w] # k.state[w] => k.state[w] = {"SLEEPING"}
  BY <1>3, <1>7, <1>8, <1>9
<1>11. ASSUME NEW w \in Thread, q \in Life(k, w).on,
              \A u \in Thread \ {w} : q \notin Life(k, u).on
       PROVE  k'.state[w] = {}
  BY <1>3, <1>7, <1>8, <1>11 DEF l
<1> QED BY <1>8, <1>10, <1>11

\* A step of the current thread's program that puts it to sleep on queue q.
LEMMA BlockStep ==
    ASSUME ReaperInv, self \in Thread, Ready(Life(k, self)), NEW q \in WaitQueue,
           k' = BlockOn(k, q, "WAIT"), UNCHANGED ticks,
           NEW c, NEW g \in Stage \ {"none"},
           pc' = [pc EXCEPT ![self] = c], stage' = [stage EXCEPT ![self] = g],
           \A m : WaitsOn(m, q) => Fits(self, m, c, g),
           ~Delivered(self)
    PROVE  /\ KInv' /\ ProgramsOK' /\ Onward /\ self' = self
           /\ \A w \in AllThread :
                 k'.state[w] = IF w = self THEN {"SLEEPING"} ELSE k.state[w]
<1> DEFINE s == self
           l == Life(k, s)
           n == Enqueue(Sleep(SetSleepReason(k, "WAIT")), q, s)
           m == Blocked(l, "WAIT", q)
<1>1. /\ KernelInv(k) /\ QueuesDistinct(k) /\ k \in KernelState
      /\ s \in AllThread /\ s # Idle /\ s = k.current /\ "WAIT" \in SleepReason
      /\ Idle \notin Thread
  BY ReaperFacts DEF SleepReason
<1>2. l.on = {} /\ l.state = {} /\ ~l.timer
  BY DEF Ready, Loose
<1>3. KernelInv(n) /\ Only(n, k, s, m) /\ CountsKept(n, k, Idle)
  BY <1>1, <1>2, BlockLife, BlockCounts
<1>4. n.current = k.current
  <2> DEFINE k1 == SetSleepReason(k, "WAIT")
             k2 == Sleep(k1)
  <2>1. KernelInv(k1) /\ k1.current = k.current
    BY <1>1, SetSleepReasonInv DEF Keeps
  <2> HIDE DEF k1
  <2>2. KernelInv(k2) /\ k2.current = k1.current
    BY <1>1, <2>1, SleepInv DEF Keeps
  <2> HIDE DEF k2
  <2>3. Enqueue(k2, q, s).current = k2.current
    BY <2>2 DEF Enqueue, KernelInv, KernelState
  <2> QED BY <2>1, <2>2, <2>3 DEF k1, k2
<1>5. k' = Reschedule(n)
  BY DEF BlockOn
<1>6. WaitsOn(m, q) /\ m.state = {"SLEEPING"}
  BY <1>2 DEF WaitsOn, Blocked
<1> HIDE DEF n, m, l
<1>7. Fits(s, IF s = s THEN m ELSE Life(k, s), c, g)
  BY <1>6
<1>8. l.state = {"EXITED"} => m.state = {"EXITED"}
  BY <1>2
<1> HIDE DEF s
<1>9. /\ KInv' /\ ProgramsOK' /\ Onward /\ self' = self
      /\ \A w \in AllThread : k'.state[w] = IF w = s THEN m.state ELSE k.state[w]
  <2>1. /\ pc' = [pc EXCEPT ![s] = c] /\ stage' = [stage EXCEPT ![s] = g]
        /\ s \in Thread /\ ~Delivered(s)
    BY DEF s
  <2>2. ProgramTurn(n, s, m, Idle, s, c, g)
    BY <1>1, <1>3, <1>4, <1>5, <1>7, <1>8, <2>1 DEF ProgramTurn, l
  <2> QED BY <1>1, <2>1, <2>2, ReaperStep
<1> QED BY <1>6, <1>9 DEF s

\* A step of the current thread's program that the kernel has no part in.
LEMMA PlainStep ==
    ASSUME ReaperInv, self \in Thread, k' = Unlock(k), UNCHANGED ticks,
           NEW c, NEW g \in Stage \ {"none"},
           pc' = [pc EXCEPT ![self] = c], stage' = [stage EXCEPT ![self] = g],
           Fits(self, Life(k, self), c, g),
           Delivered(self) => c = "user" /\ g \in {"post", "return"}
    PROVE  /\ KInv' /\ ProgramsOK' /\ Onward /\ self' = self
           /\ \A w \in AllThread : k'.state[w] = k.state[w]
<1> DEFINE s == self
           m == Life(k, s)
<1>1. /\ KernelInv(k) /\ QueuesDistinct(k) /\ s \in AllThread /\ s # Idle /\ s = k.current
      /\ Idle \notin Thread
  BY ReaperFacts
<1>2. Only(k, k, s, m) /\ CountsKept(k, k, Idle)
  BY <1>1 DEF Only, CountsKept
<1>3. m.state = k.state[s]
  BY DEF Life
<1> HIDE DEF s
<1>4. /\ KInv' /\ ProgramsOK' /\ Onward /\ self' = self
      /\ \A w \in AllThread : k'.state[w] = IF w = s THEN m.state ELSE k.state[w]
  <2>1. /\ pc' = [pc EXCEPT ![s] = c] /\ stage' = [stage EXCEPT ![s] = g]
        /\ s \in Thread /\ (Delivered(s) => c = "user" /\ g \in {"post", "return"})
        /\ Fits(s, IF s = s THEN m ELSE Life(k, s), c, g)
    BY DEF s
  <2>2. ProgramTurn(k, s, m, Idle, s, c, g)
    BY <1>1, <1>2, <2>1 DEF ProgramTurn
  <2> HIDE DEF m
  <2> QED BY <1>1, <2>1, <2>2, ReaperStep
<1> QED BY <1>3, <1>4

-----------------------------------------------------------------------------
(* The parts of the invariant that a step does not touch *)

\* The mailbox is left alone.
LEMMA BoxKept ==
    ASSUME ReaperInv, Onward, UNCHANGED <<box, item>>,
           \A t \in Thread : pc'[t] = "put" => pc[t] = "put"
    PROVE  BoxFits'
<1>1. /\ base' = base /\ count' = count /\ itemqueue' = itemqueue /\ item' = item
  BY DEF box
<1>2. ASSUME NEW i \in 0..(Size - 1), itemqueue[i] # None PROVE Delivered(itemqueue[i])'
  <2>1. Delivered(itemqueue[i]) /\ itemqueue[i] \in Worker
    BY <1>2 DEF ReaperInv, BoxFits
  <2>2. itemqueue[i] \in Thread
    BY <2>1, ReaperFacts
  <2> DEFINE w == itemqueue[i]
  <2>3. ASSUME NEW v \in Thread, Delivered(v), v = itemqueue[i] PROVE Delivered(itemqueue[i])'
    BY <1>1, <2>3 DEF Onward, Delivered
  <2> QED BY <2>1, <2>2, <2>3
<1> QED BY <1>1, <1>2 DEF ReaperInv, BoxFits

\* The cleanup thread has got nothing new and is done with nobody.
LEMMA GotKept ==
    ASSUME ReaperInv, Onward, UNCHANGED <<ritem, freed>>,
           self' = self \/ k'.state[self'] = {},
           \/ stage'[reaper] = stage[reaper] /\ pc'[reaper] = pc[reaper]
           \/ stage'[reaper] \notin {"kill", "delete"}
           \/ stage'[reaper] = "kill" /\ pc'[reaper] # "user"
    PROVE  GotFits'
<1>1. freed \subseteq Worker /\ \A t \in freed : k.state[t] = {"EXITED"} /\ self # t
  BY DEF ReaperInv, GotFits
<1>2. ASSUME NEW t \in freed PROVE k'.state[t] = {"EXITED"} /\ self' # t
  <2>1. t \in Thread /\ k'.state[t] = {"EXITED"}
    BY <1>1, <1>2, ReaperFacts DEF Onward
  <2> QED BY <1>1, <1>2, <2>1
<1>3. ASSUME stage'[reaper] \in {"kill", "delete"}, pc'[reaper] = "user"
      PROVE  Delivered(ritem)'
  <2>1. Delivered(ritem) /\ ritem \in Thread
    BY <1>3, ReaperFacts DEF ReaperInv, GotFits, Delivered
  <2>2. ASSUME NEW v \in Thread, Delivered(v), v = ritem PROVE Delivered(ritem)'
    BY <2>2 DEF Onward, Delivered
  <2> QED BY <2>1, <2>2
<1>4. ASSUME stage'[reaper] = "delete" PROVE k'.state[ritem'] = {"EXITED"}
  <2>1. stage[reaper] = "delete"
    BY <1>4
  <2>2. pc[reaper] = "user"
    BY <2>1, ReaperFacts DEF Fits, ReaperFits, NotCreated
  <2>3. ritem \in Thread /\ k.state[ritem] = {"EXITED"}
    BY <2>1, <2>2, ReaperFacts DEF ReaperInv, GotFits, Delivered
  <2> QED BY <2>3 DEF Onward
<1> QED BY <1>1, <1>2, <1>3, <1>4 DEF GotFits

\* Before the cleanup thread is past the semaphore no thread returns or dies
\* without its post.
LEMMA SemKept ==
    ASSUME ReaperInv, sem_count' \in Nat, Early' => Early,
           Early' /\ sem_count > 0 => sem_count' > 0,
           Early' /\ "SLEEPING" \in k'.state[reaper] =>
              "SLEEPING" \in k.state[reaper] \/ sem_count = 0,
           \A w \in Worker :
              /\ Early' /\ "EXITED" \in k'.state[w] =>
                    "EXITED" \in k.state[w] \/ stage'[w] = "return"
              /\ Early' /\ stage[w] = "return" => stage'[w] = "return"
              /\ Early' /\ stage'[w] = "return" =>
                    \/ stage[w] = "return"
                    \/ sem_count' > 0 /\ "SLEEPING" \notin k'.state[reaper]
    PROVE  SemFits'
<1>1. ASSUME Early', NEW w \in Worker
      PROVE  /\ "EXITED" \in k'.state[w] => stage'[w] = "return"
             /\ stage'[w] = "return" => sem_count' > 0 /\ "SLEEPING" \notin k'.state[reaper]
  <2>1. /\ sem_count \in Nat
        /\ "EXITED" \in k.state[w] => stage[w] = "return"
        /\ stage[w] = "return" => sem_count > 0 /\ "SLEEPING" \notin k.state[reaper]
    BY <1>1 DEF ReaperInv, SemFits
  <2> QED BY <1>1, <2>1
<1> QED BY <1>1 DEF SemFits

\* A step of another thread that posts nothing.
LEMMA OthersSem ==
    ASSUME ReaperInv, UNCHANGED sem_count, stage'[reaper] = stage[reaper],
           pc'[reaper] = pc[reaper],
           "SLEEPING" \in k'.state[reaper] => "SLEEPING" \in k.state[reaper],
           \A w \in Worker :
              /\ "EXITED" \in k'.state[w] =>
                    "EXITED" \in k.state[w] \/ stage'[w] = "return"
              /\ stage'[w] = "return" <=> stage[w] = "return"
    PROVE  SemFits'
<1>1. sem_count' \in Nat
  BY DEF ReaperInv, SemFits
<1>2. Early' <=> Early
  BY DEF Early
<1> QED BY <1>1, <1>2, SemKept

\* A message is stored: the thread v has been delivered.
LEMMA StoreBox ==
    ASSUME ReaperInv, Onward, count < Size, NEW v \in Worker, Delivered(v)',
           itemqueue' = [itemqueue EXCEPT ![Slot(base + count)] = v],
           count' = count + 1, base' = base,
           item' \in [Thread -> Worker \cup {None}],
           \A t \in Thread : pc'[t] = "put" => item'[t] = t
    PROVE  BoxFits'
<1>1. /\ base \in 0..(Size - 1) /\ count \in 0..Size
      /\ itemqueue \in [0..(Size - 1) -> Worker \cup {None}]
      /\ \A i \in 0..(Size - 1) : itemqueue[i] # None => Delivered(itemqueue[i])
      /\ \A i \in 0..(count - 1) : itemqueue[Slot(base + i)] # None
      /\ Size \in Nat /\ Size > 0
  BY ReaperFacts DEF ReaperInv, BoxFits
<1>2. \A i \in 0..count : Slot(base + i) \in 0..(Size - 1)
  BY <1>1 DEF Slot
<1>3. v # None
  BY MboxAssumption, ReaperAssumption DEF Worker
<1>4. itemqueue' \in [0..(Size - 1) -> Worker \cup {None}]
  BY <1>1
<1>5. ASSUME NEW i \in 0..(Size - 1), itemqueue'[i] # None
      PROVE  Delivered(itemqueue[i])'
  <2>1. CASE i = Slot(base + count)
    <3>1. itemqueue'[i] = v
      BY <1>1, <2>1
    <3> QED BY <3>1 DEF Delivered
  <2>2. CASE i # Slot(base + count)
    <3>1. itemqueue'[i] = itemqueue[i]
      BY <1>1, <2>2
    <3>2. Delivered(itemqueue[i])
      BY <1>1, <1>5, <3>1
    <3>3. ASSUME NEW u \in Thread, Delivered(u), u = itemqueue'[i]
          PROVE  Delivered(itemqueue[i])'
      BY <3>3 DEF Onward, Delivered
    <3> QED BY <3>1, <3>2, <3>3, ReaperFacts DEF Delivered
  <2> QED BY <2>1, <2>2
<1>6. ASSUME NEW i \in 0..(count' - 1) PROVE itemqueue'[Slot(base' + i)] # None
  <2>1. i \in 0..count
    BY <1>1
  <2>2. Slot(base' + i) = Slot(base + i) /\ Slot(base + i) \in 0..(Size - 1)
    BY <1>2, <2>1
  <2>3. CASE i = count
    BY <1>1, <1>3, <2>2, <2>3
  <2>4. CASE i # count
    <3>1. i \in 0..(count - 1)
      BY <1>1, <2>1, <2>4
    <3> QED BY <1>1, <1>3, <2>2, <3>1
  <2> QED BY <2>3, <2>4
<1>7. count' \in 0..Size
  BY <1>1
<1> QED BY <1>1, <1>4, <1>5, <1>6, <1>7 DEF BoxFits

\* The oldest message is taken: it is a thread that has been delivered.
LEMMA TakeBox ==
    ASSUME ReaperInv, Onward, count > 0, UNCHANGED <<itemqueue, item>>,
           count' = count - 1, base' = IF Size <= base + 1 THEN 0 ELSE base + 1,
           \A t \in Thread : pc'[t] = "put" => pc[t] = "put"
    PROVE  BoxFits' /\ Delivered(itemqueue[base])
<1>1. /\ base \in 0..(Size - 1) /\ count \in 0..Size
      /\ itemqueue \in [0..(Size - 1) -> Worker \cup {None}]
      /\ \A i \in 0..(Size - 1) : itemqueue[i] # None => Delivered(itemqueue[i])
      /\ \A i \in 0..(count - 1) : itemqueue[Slot(base + i)] # None
      /\ item \in [Thread -> Worker \cup {None}]
      /\ \A t \in Thread : pc[t] = "put" => item[t] = t
      /\ Size \in Nat /\ Size > 0
  BY ReaperFacts DEF ReaperInv, BoxFits
<1>2. base' \in 0..(Size - 1) /\ count' \in 0..Size
  BY <1>1
<1>3. ASSUME NEW i \in 0..(Size - 1), itemqueue'[i] # None
      PROVE  Delivered(itemqueue[i])'
  <2>1. Delivered(itemqueue[i]) /\ itemqueue'[i] = itemqueue[i]
    BY <1>1, <1>3
  <2>2. ASSUME NEW u \in Thread, Delivered(u), u = itemqueue'[i]
        PROVE  Delivered(itemqueue[i])'
    BY <2>2 DEF Onward, Delivered
  <2> QED BY <2>1, <2>2, ReaperFacts DEF Delivered
<1>4. ASSUME NEW i \in 0..(count' - 1) PROVE itemqueue'[Slot(base' + i)] # None
  <2>1. i + 1 \in 0..(count - 1) /\ i \in Nat
    BY <1>1
  <2>2. Slot(base' + i) = Slot(base + (i + 1))
    BY <1>1, <2>1 DEF Slot
  <2> QED BY <1>1, <2>1, <2>2
<1>5. Delivered(itemqueue[base])
  <2>1. 0 \in 0..(count - 1) /\ Slot(base + 0) = base
    BY <1>1 DEF Slot
  <2> QED BY <1>1, <2>1
<1> QED BY <1>1, <1>2, <1>3, <1>4, <1>5 DEF BoxFits

\* Where the threads are after a step of one program.
LEMMA Places ==
    ASSUME ReaperInv, NEW s \in Thread, NEW c, NEW g, GoesTo(s, c, g)
    PROVE  \A w \in Thread : /\ pc'[w] = IF w = s THEN c ELSE pc[w]
                             /\ stage'[w] = IF w = s THEN g ELSE stage[w]
<1>1. \A w \in Thread : w \in AllThread
  BY ReaperFacts
<1>2. stage \in [Thread -> Stage] /\ pc = [w \in AllThread |-> pc[w]]
  BY DEF ReaperInv, ProgramsOK, KInv
<1> QED BY <1>1, <1>2 DEF GoesTo

\* A step of a shell thread that does not post leaves the cleanup thread's
\* part of the invariant alone.
LEMMA WorkerRest ==
    ASSUME ReaperInv, Onward, NEW s \in Worker, NEW c, NEW g, GoesTo(s, c, g),
           g = "return" <=> stage[s] = "return",
           UNCHANGED <<ritem, freed, sem_count>>, self' = self,
           "SLEEPING" \in k'.state[reaper] => "SLEEPING" \in k.state[reaper],
           \A w \in Worker : "EXITED" \in k'.state[w] =>
                                "EXITED" \in k.state[w] \/ stage'[w] = "return"
    PROVE  GotFits' /\ SemFits'
<1>1. reaper \in Thread /\ s \in Thread /\ s # reaper /\ \A w \in Worker : w \in Thread
  BY ReaperFacts
<1>2. \A w \in Thread : /\ pc'[w] = IF w = s THEN c ELSE pc[w]
                        /\ stage'[w] = IF w = s THEN g ELSE stage[w]
  BY <1>1, Places
<1>3. stage'[reaper] = stage[reaper] /\ pc'[reaper] = pc[reaper]
  BY <1>1, <1>2
<1>4. \A w \in Worker : stage'[w] = "return" <=> stage[w] = "return"
  BY <1>1, <1>2
<1> QED BY <1>3, <1>4, GotKept, OthersSem

\* A step that moves no program and at most readies threads.
LEMMA RestKept ==
    ASSUME ReaperInv, KInv', ProgramsOK', Onward,
           self' = self \/ k'.state[self'] = {},
           UNCHANGED <<pc, mboxPart, stage, sem_count, freed>>,
           \A w \in Thread : k'.state[w] \in {k.state[w], {}}
    PROVE  ReaperInv'
<1>1. BoxFits'
  BY BoxKept DEF mboxPart
<1>2. GotFits'
  BY GotKept DEF mboxPart
<1>3. SemFits'
  <2>1. reaper \in Thread /\ \A w \in Worker : w \in Thread
    BY ReaperFacts
  <2> QED BY <2>1, OthersSem
<1> QED BY <1>1, <1>2, <1>3 DEF ReaperInv

\* A step of the kernel that changes no thread's life.
LEMMA QuietStep ==
    ASSUME ReaperInv, KInv', Same(k', k), CountsKept(k', k, Idle),
           self' = self \/ k'.state[self'] = {},
           UNCHANGED <<pc, mboxPart, stage, sem_count, freed>>
    PROVE  ReaperInv'
<1> DEFINE m == Life(k, Idle)
           c == pc[reaper]
           g == stage[reaper]
<1>1. /\ reaper \in Thread /\ Idle \in AllThread /\ Idle \notin Thread
      /\ Fits(reaper, Life(k, reaper), c, g) /\ reaper \in AllThread
      /\ \A w \in Thread : w \in AllThread
  BY ReaperFacts
<1>2. stage \in [Thread -> Stage] /\ pc = [w \in AllThread |-> pc[w]] /\ m.on = {}
  BY DEF ReaperInv, ProgramsOK, KInv
<1>3. pc' = [pc EXCEPT ![reaper] = c] /\ stage' = [stage EXCEPT ![reaper] = g] /\ g \in Stage
  BY <1>1, <1>2
<1>4. Only(k', k, Idle, m)
  BY <1>1, SameIsOnly
<1>5. Fits(reaper, IF reaper = Idle THEN m ELSE Life(k, reaper), c, g)
  BY <1>1
<1>6. Delivered(reaper) => c = "user" /\ g \in {"post", "return"}
  BY DEF Delivered
<1> HIDE DEF m, c, g
<1>7. ProgramsOK' /\ Onward
  <2>1. ProgramMove(Idle, m, Idle, reaper, c, g)
    BY <1>1, <1>2, <1>3, <1>4, <1>5, <1>6 DEF ProgramMove, GoesTo, g, m
  <2> QED BY <1>1, <2>1, ProgramStep
<1>8. ASSUME NEW w \in Thread PROVE k'.state[w] = k.state[w]
  <2>1. Life(k', w).state = Life(k, w).state
    BY <1>1 DEF Same
  <2> QED BY <2>1 DEF Life
<1> QED BY <1>7, <1>8, RestKept

\* Making a thread current leaves a runnable thread in place.
LEMMA LoadsRunnable ==
    ASSUME NEW x, KernelInv(x)
    PROVE  /\ UnlockInner(x).state[UnlockInner(x).current] = {}
           /\ StartCpu(x).state[StartCpu(x).current] = {}
<1> DEFINE s == Schedule(x)
           c == x.current
<1>1. x \in KernelState /\ c \in AllThread /\ s \in AllThread /\ x.state[s] = {}
  BY ScheduleFacts DEF KernelInv, KernelState, Runnable, RUNNING
<1>2. StartCpu(x).current = s /\ StartCpu(x).state = x.state
  BY <1>1 DEF StartCpu, KernelState
<1> HIDE DEF s
<1>3. CASE Runnable(x, c) /\ ~x.need_reschedule
  <2>1. UnlockInner(x).current = c /\ UnlockInner(x).state = x.state
    BY <1>1, <1>3 DEF UnlockInner, KernelState
  <2> QED BY <1>1, <1>2, <1>3, <2>1 DEF Runnable, RUNNING
<1>4. CASE ~(Runnable(x, c) /\ ~x.need_reschedule)
  <2> DEFINE after == IF x.sched_lock = "resched" THEN "inner" ELSE "thread"
             n == SwitchTo(x, s, after)
  <2>1. UnlockInner(x) = n
    BY <1>4 DEF UnlockInner, s
  <2> HIDE DEF after
  <2>2. n.current = s /\ n.state = x.state
    BY <1>1 DEF SwitchTo, KernelState
  <2> QED BY <1>1, <1>2, <2>1, <2>2
<1> QED BY <1>3, <1>4

\* The kernel's own steps.
LEMMA KernelKeeps ==
    ASSUME ReaperInv,
           \/ SchedulerStart \/ RescheduleOrReturn \/ ClockDsrTimeslice \/ ClockDsr
           \/ \E t \in Thread : ClockDsrAlarm(t),
           UNCHANGED <<mboxPart, stage, sem_count, freed>>
    PROVE  ReaperInv'
<1>1. /\ KernelInv(k) /\ QueuesDistinct(k) /\ k \in KernelState /\ Idle \in AllThread
      /\ \A t \in Thread : t \in AllThread /\ t # Idle
  BY ReaperFacts
<1>2. KInv'
  BY SchedulerMoves DEF ReaperInv
<1>3. UNCHANGED pc
  BY DEF SchedulerStart, RescheduleOrReturn, ClockDsrTimeslice, ClockDsr, ClockDsrAlarm
<1>4. CASE SchedulerStart
  <2>1. k' = StartCpu(k)
    BY <1>4 DEF SchedulerStart
  <2> QED BY <1>1, <1>2, <1>3, <2>1, StartCpuLife, SchedulerCounts, LoadsRunnable, QuietStep
          DEF self
<1>5. CASE RescheduleOrReturn
  <2>1. k' = UnlockInner(k)
    BY <1>5 DEF RescheduleOrReturn
  <2> QED BY <1>1, <1>2, <1>3, <2>1, UnlockInnerLife, SchedulerCounts, LoadsRunnable, QuietStep
          DEF self
<1>6. CASE ClockDsrTimeslice
  <2> DEFINE n == Timeslice(k)
  <2>1. k' = Unlock(n) /\ KernelInv(n) /\ n.current = k.current /\ Same(n, k)
        /\ CountsKept(n, k, Idle)
    BY <1>1, <1>6, TimesliceInv, TimesliceLife, SchedulerCounts DEF ClockDsrTimeslice, Keeps
  <2> HIDE DEF n
  <2>2. n \in KernelState /\ QueuesDistinct(n)
    BY <2>1 DEF KernelInv, Same
  <2>3. Same(k', n) /\ CountsKept(k', n, Idle) /\ k'.current = n.current
    BY <2>1, <2>2, LockLife, SchedulerCounts DEF Unlock, KernelState
  <2>4. Same(k', k) /\ CountsKept(k', k, Idle) /\ self' = self
    BY <2>1, <2>3, SameTransitive, CountsTransitive DEF self
  <2> QED BY <1>2, <1>3, <2>4, QuietStep
<1>7. CASE ClockDsr
  <2>1. k' = [k EXCEPT !.sched_lock = "tick"]
    BY <1>7 DEF ClockDsr
  <2>2. /\ k'.state = k.state /\ k'.sleep_reason = k.sleep_reason
        /\ k'.wake_reason = k.wake_reason /\ k'.timer = k.timer
        /\ k'.wait_queue = k.wait_queue /\ k'.suspend_count = k.suspend_count
        /\ k'.current = k.current
    BY <1>1, <2>1 DEF KernelState
  <2>3. Same(k', k) /\ CountsKept(k', k, Idle) /\ self' = self
    BY <1>1, <2>2, SameFields DEF CountsKept, self
  <2> QED BY <1>2, <1>3, <2>3, QuietStep
<1>8. ASSUME NEW t \in Thread, ClockDsrAlarm(t) PROVE ReaperInv'
  <2> DEFINE l == Life(k, t)
             m == Alarmed(l)
             p == pc[t]
             g == stage[t]
  <2>1. k' = ThreadTimerAlarm(k, t) /\ k.timer[t]
    BY <1>8 DEF ClockDsrAlarm
  <2>2. KernelInv(k') /\ k'.current = k.current /\ Only(k', k, t, m)
    BY <1>1, <2>1, ThreadTimerAlarmInv, ThreadTimerAlarmLife DEF Keeps
  <2>4. CountsKept(k', k, Idle)
    BY <1>1, <2>1, AlarmCounts
  <2>5. l.timer /\ Fits(t, l, p, g) /\ g \in Stage
    BY <2>1, ReaperFacts DEF Life, ReaperInv, ProgramsOK
  <2>6. pc' = [pc EXCEPT ![t] = p] /\ stage' = [stage EXCEPT ![t] = g]
    BY <1>3 DEF ReaperInv, KInv, ProgramsOK
  <2>7. l.state = k.state[t]
    BY DEF Life
  <2> HIDE DEF l, p, g
  <2>8. p = "delay" /\ g = "late" /\ Delays(l) /\ t # reaper /\ l.state = {"SLEEPING"}
        /\ l.sleep = "DELAY" /\ l.on = {}
    <3>1. t # reaper
      BY <2>5 DEF Fits, ReaperFits, NotCreated, Ready, Loose, WaitsOn
    <3> QED BY <2>5, <3>1 DEF Fits, WorkerFits, NotCreated, Ready, Loose, WaitsOn, Delays
  <2>9. Ready(m)
    BY <2>8, AlarmedFields DEF Ready, Loose, SLEEPSET
  <2> HIDE DEF m
  <2>10. Fits(t, IF t = t THEN m ELSE Life(k, t), p, g)
    BY <2>8, <2>9 DEF Fits, WorkerFits, Delays
  <2>11. ~Delivered(t) /\ Life(k, t).state # {"EXITED"} /\ g # "none"
    BY <2>8 DEF Delivered, p, l
  <2>12. ProgramsOK' /\ Onward
    <3>1. ProgramMove(t, m, Idle, t, p, g)
      BY <1>1, <2>2, <2>4, <2>5, <2>6, <2>10, <2>11 DEF ProgramMove, GoesTo
    <3> QED BY <1>1, <3>1, ProgramStep
  <2>13. ASSUME NEW w \in Thread PROVE k'.state[w] \in {k.state[w], {}}
    <3>1. Life(k', w).state = IF w = t THEN m.state ELSE Life(k, w).state
      BY <1>1, <2>2 DEF Only
    <3>2. m.state = {}
      BY <2>9 DEF Ready
    <3> QED BY <3>1, <3>2 DEF Life
  <2>14. self' = self
    BY <2>2 DEF self
  <2> QED BY <1>2, <1>3, <2>12, <2>13, <2>14, RestKept
<1> QED BY <1>4, <1>5, <1>6, <1>7, <1>8

-----------------------------------------------------------------------------
(* The programs *)

\* A thread that has been created once becomes ready with its resume().
LEMMA CreateKeeps ==
    ASSUME ReaperInv, NEW t \in Thread, stage[t] = "none",
           \/ k.sched_lock = "start" /\ k' = Resume(k, t)
           \/ k' = Unlock(Resume(k, t)),
           NEW g, g = IF t = reaper THEN "wait" ELSE "run",
           stage' = [stage EXCEPT ![t] = g],
           UNCHANGED <<pc, ticks, mboxPart, sem_count, freed>>
    PROVE  ReaperInv'
<1> DEFINE l == Life(k, t)
           m == Unsuspended(l)
           n == Resume(k, t)
<1>1. /\ KernelInv(k) /\ QueuesDistinct(k) /\ k \in KernelState
      /\ t \in AllThread /\ t # Idle /\ k.suspend_count[t] = 1
      /\ Fits(t, l, pc[t], stage[t]) /\ (t # reaper => t \in Worker)
      /\ reaper \in Thread /\ reaper \notin Worker
      /\ \A w \in Worker : w \in Thread
      /\ \A w \in Thread : w \in AllThread
  BY ReaperFacts
<1>2. Only(n, k, t, m) /\ KernelInv(n) /\ n.current = k.current /\ CountsKept(n, k, t)
  <2>1. n = Unsuspend(k, t)
    BY <1>1 DEF Resume
  <2>2. Only(n, k, t, m)
    BY <1>1, <2>1, UnsuspendLife
  <2> QED BY <1>1, <2>2, ResumeInv, ResumeCounts DEF Keeps
<1>3. NotCreated(l, pc[t], stage[t])
  BY <1>1 DEF Fits, WorkerFits, ReaperFits
<1>4. Ready(m) /\ pc[t] = "user" /\ l.state = {"SUSPENDED"}
  <2> HIDE DEF l
  <2>1. l.state = {"SUSPENDED"} /\ l.on = {} /\ Loose(l) /\ pc[t] = "user"
    BY <1>3 DEF NotCreated, Loose
  <2>2. l.state \ {"SUSPENDED"} = {}
    BY <2>1
  <2> QED BY <2>1, <2>2 DEF Unsuspended, Readied, WithState, Unqueued, Ready, Loose
<1> HIDE DEF m, n
<1>5. Fits(t, IF t = t THEN m ELSE l, "user", g) /\ g \in Stage /\ g # "none"
  BY <1>4 DEF Fits, WorkerFits, ReaperFits, Stage
<1>6. pc' = [pc EXCEPT ![t] = "user"] /\ stage'[t] = g
  BY <1>1, <1>4 DEF ReaperInv, KInv, ProgramsOK
<1>7. l.state # {"EXITED"} /\ ~Delivered(t)
  BY <1>4 DEF Delivered
<1>8. m.state = {} /\ l.state = k.state[t]
  BY <1>4 DEF Ready, Life
<1>9. /\ KInv' /\ ProgramsOK' /\ Onward /\ self' = self
      /\ \A w \in Thread : k'.state[w] \in {k.state[w], {}}
  <2>1. CASE k.sched_lock = "start" /\ k' = n
    <3>1. StartResume(t)
      BY <2>1 DEF StartResume, n
    <3>2. KInv'
      BY <3>1, SchedulerMoves DEF ReaperInv
    <3>3. Only(k', k, t, m) /\ CountsKept(k', k, t) /\ self' = self
      BY <1>2, <2>1 DEF self
    <3>4. ProgramsOK' /\ Onward
      <4>1. ProgramMove(t, m, t, t, "user", g)
        BY <1>1, <1>5, <1>6, <1>7, <3>3 DEF ProgramMove, GoesTo
      <4> QED BY <1>1, <4>1, ProgramStep
    <3>5. ASSUME NEW w \in Thread PROVE k'.state[w] \in {k.state[w], {}}
      <4>1. Life(k', w).state = IF w = t THEN m.state ELSE Life(k, w).state
        BY <1>1, <3>3 DEF Only
      <4> QED BY <1>8, <4>1 DEF Life
    <3> QED BY <3>2, <3>3, <3>4, <3>5
  <2>2. CASE k' = Unlock(n)
    <3>1. /\ KInv' /\ ProgramsOK' /\ Onward /\ self' = self
          /\ \A w \in AllThread : k'.state[w] = IF w = t THEN m.state ELSE k.state[w]
      <4>1. ProgramTurn(n, t, m, t, t, "user", g)
        BY <1>1, <1>2, <1>5, <1>6, <1>7, <2>2 DEF ProgramTurn
      <4> QED BY <1>1, <4>1, ReaperStep
    <3> QED BY <1>1, <1>8, <3>1
  <2> QED BY <2>1, <2>2 DEF n
<1>10. \A w \in Thread : stage'[w] = IF w = t THEN g ELSE stage[w]
  <2>1. GoesTo(t, "user", g)
    BY <1>6 DEF GoesTo
  <2> QED BY <2>1, Places
<1>11. BoxFits'
  BY <1>9, BoxKept DEF mboxPart
<1>12. GotFits'
  <2>1. \/ stage'[reaper] = stage[reaper] /\ pc'[reaper] = pc[reaper]
        \/ stage'[reaper] \notin {"kill", "delete"}
    BY <1>1, <1>10
  <2> QED BY <1>9, <2>1, GotKept DEF mboxPart
<1>13. SemFits'
  <2>1. sem_count' \in Nat /\ sem_count' = sem_count
    BY DEF ReaperInv, SemFits
  <2>2. Early' => Early
    BY <1>1, <1>10 DEF Early
  <2>3. \A w \in Worker : /\ "EXITED" \in k'.state[w] => "EXITED" \in k.state[w]
                          /\ stage'[w] = "return" <=> stage[w] = "return"
    BY <1>1, <1>9, <1>10
  <2>4. "SLEEPING" \in k'.state[reaper] => "SLEEPING" \in k.state[reaper]
    BY <1>1, <1>9
  <2> QED BY <2>1, <2>2, <2>3, <2>4, SemKept
<1> QED BY <1>9, <1>11, <1>12, <1>13 DEF ReaperInv

\* A shell thread's delay.
LEMMA WorkKeeps ==
    ASSUME ReaperInv, NEW t \in Worker, Work(t)
    PROVE  ReaperInv'
<1> DEFINE l  == Life(k, t)
           k1 == Sleep(k)
           n  == SetTimer(k1, "DELAY", FALSE)
           m  == Delayed(l)
<1>1. /\ InThread /\ t = self /\ stage[t] = "run" /\ UNCHANGED <<mboxPart, sem_count, freed>>
      /\ stage' = [stage EXCEPT ![t] = "late"] /\ pc' = [pc EXCEPT ![t] = "delay"]
      /\ k' = Unlock(n) /\ UNCHANGED ticks
  BY DEF Work, At, ThreadDelay
<1>2. /\ KernelInv(k) /\ QueuesDistinct(k) /\ t \in Thread /\ t \in AllThread
      /\ t # Idle /\ t = k.current /\ Ready(l) /\ Idle \notin Thread
      /\ reaper \in Thread /\ t # reaper /\ reaper \in AllThread
      /\ \A w \in Worker : w \in AllThread
  BY <1>1, ReaperFacts, RunningFacts DEF InThread
<1>3. KernelInv(k1) /\ k1.current = t /\ Only(k1, k, t, Asleep(l))
  BY <1>2, SleepInv, SleepLife DEF Keeps
<1>4. CountsKept(n, k, Idle)
  BY <1>2, DelayCounts
<1> HIDE DEF k1
<1>5. QueuesDistinct(k1) /\ Life(k1, t) = Asleep(l) /\ "DELAY" \in SleepReason
  BY <1>3 DEF Only, SleepReason
<1>6. KernelInv(n) /\ Only(n, k1, t, m) /\ n.current = k.current
  <2>1. KernelInv(n) /\ n.current = k1.current
    BY <1>3, <1>5, SetTimerInv DEF Keeps
  <2> QED BY <1>2, <1>3, <1>5, <2>1, SetTimerLife DEF Delayed
<1> HIDE DEF n
<1>7. Only(n, k, t, m)
  BY <1>2, <1>3, <1>6, OnlyTransitive
<1> HIDE DEF l
<1>8. Delays(m) /\ m.state = {"SLEEPING"} /\ l.state = {}
  BY <1>2 DEF Delays, Delayed, WithTimer, Asleep, WithState, Ready, Loose
<1> HIDE DEF m
<1>9. Fits(t, IF t = t THEN m ELSE Life(k, t), "delay", "late")
  BY <1>2, <1>8 DEF Fits, WorkerFits
<1>10. ~Delivered(t) /\ Life(k, t).state # {"EXITED"}
  BY <1>1, <1>8 DEF Delivered, l
<1>11. "late" \in Stage /\ "late" # "none" /\ (k' = Unlock(n) \/ k' = Reschedule(n))
  BY <1>1 DEF Stage
<1>12. /\ KInv' /\ ProgramsOK' /\ Onward /\ self' = self
       /\ \A w \in AllThread : k'.state[w] = IF w = t THEN m.state ELSE k.state[w]
  <2>1. ProgramTurn(n, t, m, Idle, t, "delay", "late")
    BY <1>1, <1>2, <1>4, <1>6, <1>7, <1>9, <1>10, <1>11 DEF ProgramTurn
  <2> QED BY <1>2, <2>1, ReaperStep
<1>13. GoesTo(t, "delay", "late")
  BY <1>1 DEF GoesTo
<1>14. BoxFits'
  <2>1. \A w \in Thread : pc'[w] = "put" => pc[w] = "put"
    BY <1>2, <1>13, Places
  <2> QED BY <1>1, <1>12, <2>1, BoxKept DEF mboxPart
<1>15. GotFits' /\ SemFits'
  <2>1. /\ "SLEEPING" \in k'.state[reaper] => "SLEEPING" \in k.state[reaper]
        /\ \A w \in Worker : "EXITED" \in k'.state[w] => "EXITED" \in k.state[w]
    BY <1>2, <1>8, <1>12
  <2>2. UNCHANGED <<ritem, freed, sem_count>> /\ self' = self /\ Onward
        /\ ("late" = "return" <=> stage[t] = "return")
    BY <1>1, <1>12 DEF mboxPart
  <2> QED BY <1>13, <2>1, <2>2, WorkerRest
<1> QED BY <1>12, <1>14, <1>15 DEF ReaperInv

\* A thread goes to sleep in put(), for the first time or again.
LEMMA PutBlocks ==
    ASSUME ReaperInv, self \in Worker, Ready(Life(k, self)), ~Delivered(self),
           stage[self] # "return", k' = BlockOn(k, putq, "WAIT"), UNCHANGED ticks,
           pc' = [pc EXCEPT ![self] = "put"], stage' = [stage EXCEPT ![self] = "post"],
           item' \in [Thread -> Worker \cup {None}],
           \A t \in Thread : item'[t] = IF t = self THEN self ELSE item[t],
           UNCHANGED <<box, ritem, sem_count, freed>>
    PROVE  ReaperInv'
<1>1. /\ self \in Thread /\ putq \in WaitQueue /\ reaper \in Thread /\ self # reaper
      /\ reaper \in AllThread /\ \A w \in Worker : w \in AllThread
  BY ReaperFacts
<1>2. \A m : WaitsOn(m, putq) => Fits(self, m, "put", "post")
  BY <1>1 DEF Fits, WorkerFits
<1>3. "post" \in Stage \ {"none"}
  BY DEF Stage
<1>4. /\ KInv' /\ ProgramsOK' /\ Onward /\ self' = self
      /\ \A w \in AllThread : k'.state[w] = IF w = self THEN {"SLEEPING"} ELSE k.state[w]
  BY <1>1, <1>2, <1>3, BlockStep
<1>5. GoesTo(self, "put", "post")
  BY DEF GoesTo
<1>6. BoxFits'
  <2> DEFINE s == self
  <2>1. \A w \in Thread : pc'[w] = IF w = s THEN "put" ELSE pc[w]
    BY <1>1, <1>5, Places
  <2>2. /\ base \in 0..(Size - 1) /\ count \in 0..Size
        /\ itemqueue \in [0..(Size - 1) -> Worker \cup {None}]
        /\ \A i \in 0..(Size - 1) : itemqueue[i] # None => Delivered(itemqueue[i])
        /\ \A i \in 0..(count - 1) : itemqueue[Slot(base + i)] # None
        /\ \A t \in Thread : pc[t] = "put" => item[t] = t
    BY DEF ReaperInv, BoxFits
  <2>3. base' = base /\ count' = count /\ itemqueue' = itemqueue
    BY DEF box
  <2>4. ASSUME NEW i \in 0..(Size - 1), itemqueue'[i] # None
        PROVE  Delivered(itemqueue[i])'
    <3>1. Delivered(itemqueue[i]) /\ itemqueue'[i] = itemqueue[i]
      BY <2>2, <2>3, <2>4
    <3>2. ASSUME NEW u \in Thread, Delivered(u), u = itemqueue'[i]
          PROVE  Delivered(itemqueue[i])'
      BY <1>4, <3>2 DEF Onward, Delivered
    <3> QED BY <3>1, <3>2, ReaperFacts DEF Delivered
  <2>5. \A t \in Thread : pc'[t] = "put" => item'[t] = t
    BY <2>1, <2>2
  <2> HIDE DEF s
  <2> QED BY <2>2, <2>3, <2>4, <2>5 DEF BoxFits
<1>7. GotFits' /\ SemFits'
  BY <1>1, <1>4, <1>5, WorkerRest
<1> QED BY <1>4, <1>6, <1>7 DEF ReaperInv

\* A thread stores itself in the mailbox.
LEMMA PutStores ==
    ASSUME ReaperInv, self \in Worker, Ready(Life(k, self)), ~Delivered(self),
           stage[self] # "return", count < Size, Store(k, self), UNCHANGED ticks,
           pc' = [pc EXCEPT ![self] = "user"], stage' = [stage EXCEPT ![self] = "post"],
           item' \in [Thread -> Worker \cup {None}],
           \A t \in Thread : t # self => item'[t] = item[t],
           UNCHANGED <<sem_count, freed>>
    PROVE  ReaperInv'
<1>1. /\ self \in Thread /\ getq \in WaitQueue /\ reaper \in Thread /\ self # reaper
      /\ reaper \in AllThread /\ \A w \in Worker : w \in Thread
  BY ReaperFacts
<1>2. /\ k' = Unlock(wakeup_waiter(k, getq)) /\ count' = count + 1
      /\ base' = base /\ ritem' = ritem
      /\ itemqueue' = [itemqueue EXCEPT ![Slot(base + count)] = self]
  BY DEF Store, Slot
<1>3. Fits(self, Life(k, self), "user", "post") /\ Life(k, self).state = {}
  BY <1>1 DEF Fits, WorkerFits, Ready
<1>4. "post" \in Stage \ {"none"}
  BY DEF Stage
<1>5. /\ KInv' /\ ProgramsOK' /\ Onward /\ self' = self
      /\ \A w \in Thread : /\ k'.state[w] \in {k.state[w], {}}
                           /\ k'.state[w] # k.state[w] => k.state[w] = {"SLEEPING"}
  BY <1>1, <1>2, <1>3, <1>4, WakeStep
<1>6. GoesTo(self, "user", "post")
  BY DEF GoesTo
<1>7. BoxFits'
  <2> DEFINE s == self
  <2>1. \A w \in Thread : /\ pc'[w] = IF w = s THEN "user" ELSE pc[w]
                          /\ stage'[w] = IF w = s THEN "post" ELSE stage[w]
    BY <1>1, <1>6, Places
  <2>2. s \in Worker /\ s \in Thread
        /\ itemqueue' = [itemqueue EXCEPT ![Slot(base + count)] = s]
    BY <1>1, <1>2
  <2>3. \A t \in Thread : pc'[t] = "put" => item'[t] = t
    BY <2>1 DEF ReaperInv, BoxFits
  <2> HIDE DEF s
  <2>4. ASSUME NEW v, v = s PROVE Delivered(v)'
    BY <2>1, <2>2, <2>4 DEF Delivered
  <2>5. PICK v \in Worker : v = s
    BY <2>2
  <2> QED BY <1>2, <1>5, <2>2, <2>3, <2>4, <2>5, StoreBox
<1>8. GotFits' /\ SemFits'
  BY <1>1, <1>2, <1>5, <1>6, WorkerRest
<1> QED BY <1>5, <1>7, <1>8 DEF ReaperInv

\* The put() of shell_thread_cleanup(), and its return from a wait.
LEMMA PutKeeps ==
    ASSUME ReaperInv,
           \/ \E t \in Worker : CleanupPut(t)
           \/ PutWoken /\ UNCHANGED <<stage, sem_count, freed>>
    PROVE  ReaperInv'
<1>1. /\ item \in [Thread -> Worker \cup {None}] /\ stage \in [Thread -> Stage]
      /\ pc = [w \in AllThread |-> pc[w]]
      /\ \A w \in Thread : pc[w] = "put" => item[w] = w
      /\ \A w \in Worker : w \in Thread
  BY ReaperFacts DEF ReaperInv, BoxFits, ProgramsOK, KInv
<1>2. ASSUME NEW t \in Worker, CleanupPut(t) PROVE ReaperInv'
  <2>1. /\ InThread /\ t = self /\ stage[t] \in {"run", "late"}
        /\ UNCHANGED <<sem_count, freed>> /\ stage' = [stage EXCEPT ![self] = "post"]
        /\ UNCHANGED ticks /\ MboxPut(t)
    BY <1>2 DEF CleanupPut, At, MboxPut
  <2>2. self \in Worker /\ Ready(Life(k, self)) /\ ~Delivered(self) /\ pc[self] = "user"
        /\ stage[self] # "return"
    BY <2>1, RunningFacts DEF InThread, Delivered
  <2>3. CASE /\ k' = BlockOn(k, putq, "WAIT")
             /\ pc' = [pc EXCEPT ![self] = "put"]
             /\ item' = [item EXCEPT ![self] = t]
             /\ UNCHANGED <<box, ritem>>
    <3>1. /\ item' \in [Thread -> Worker \cup {None}]
          /\ \A w \in Thread : item'[w] = IF w = self THEN self ELSE item[w]
      BY <1>1, <2>1, <2>3
    <3> QED BY <2>1, <2>2, <2>3, <3>1, PutBlocks
  <2>4. CASE count < Size /\ Store(k, t) /\ UNCHANGED <<pc, item>>
    <3>1. pc' = [pc EXCEPT ![self] = "user"] /\ Store(k, self)
      BY <1>1, <2>1, <2>2, <2>4
    <3> QED BY <1>1, <2>1, <2>2, <2>4, <3>1, PutStores
  <2> QED BY <2>1, <2>3, <2>4 DEF MboxPut
<1>3. ASSUME PutWoken, UNCHANGED <<stage, sem_count, freed>> PROVE ReaperInv'
  <2>1. k.sched_lock = "inner" /\ pc[self] \in Putting /\ UNCHANGED ticks /\ self # Idle
    BY <1>3 DEF PutWoken, Waiting, ReaperInv, KInv, Putting
  <2>2. /\ self \in Worker /\ Ready(Life(k, self)) /\ pc[self] = "put" /\ stage[self] = "post"
        /\ ~Delivered(self) /\ self \in Thread /\ item[self] = self
    BY <1>1, <2>1, RunningFacts DEF Putting, Delivered
  <2>3. ~Timed /\ stage' = [stage EXCEPT ![self] = "post"]
    BY <1>1, <1>3, <2>2 DEF Timed
  <2>4. CASE k' = BlockOn(k, putq, "WAIT") /\ UNCHANGED <<pc, item, box, ritem>>
    <3>1. pc' = [pc EXCEPT ![self] = "put"]
      BY <1>1, <2>2, <2>4
    <3>2. item' \in [Thread -> Worker \cup {None}]
          /\ \A w \in Thread : item'[w] = IF w = self THEN self ELSE item[w]
      BY <1>1, <2>2, <2>4
    <3> QED BY <1>3, <2>1, <2>2, <2>3, <2>4, <3>1, <3>2, PutBlocks
  <2>5. CASE count < Size /\ Store(EndWait, item[self]) /\ Leave /\ DropItem
    <3>1. Store(k, self) /\ pc' = [pc EXCEPT ![self] = "user"]
      BY <2>2, <2>3, <2>5 DEF EndWait, Leave
    <3>2. /\ item' \in [Thread -> Worker \cup {None}]
          /\ \A w \in Thread : w # self => item'[w] = item[w]
      BY <1>1, <2>5 DEF DropItem
    <3> QED BY <1>3, <2>1, <2>2, <2>3, <2>5, <3>1, <3>2, PutStores
  <2> QED BY <1>3, <2>3, <2>4, <2>5 DEF PutWoken
<1> QED BY <1>2, <1>3

\* The post, which ends the cleanup thread's wait if there was one.
LEMMA PostKeeps ==
    ASSUME ReaperInv, NEW t \in Worker, CleanupPost(t)
    PROVE  ReaperInv'
<1> DEFINE s == self
<1>1. /\ InThread /\ t = self /\ stage[t] = "post" /\ stage' = [stage EXCEPT ![t] = "return"]
      /\ UNCHANGED <<mboxPart, freed>> /\ sem_count' = sem_count + 1
      /\ UNCHANGED <<pc, ticks>> /\ k' = Unlock(wakeup_waiter(k, cleanup_sem))
  BY SemPostIs DEF CleanupPost, At
<1>2. /\ t \in Thread /\ reaper \in Thread /\ t # reaper /\ cleanup_sem \in WaitQueue
      /\ \A w \in Worker : w \in Thread /\ w # reaper
      /\ \A w \in Thread : w # reaper => w \in Worker
      /\ putq # cleanup_sem /\ getq # cleanup_sem
      /\ \A w \in Thread : Fits(w, Life(k, w), pc[w], stage[w])
  BY ReaperFacts
<1>3. Ready(Life(k, t)) /\ pc[t] = "user" /\ pc = [w \in AllThread |-> pc[w]]
  BY <1>1, RunningFacts DEF InThread, ReaperInv, KInv
<1>4. /\ pc' = [pc EXCEPT ![t] = "user"] /\ Life(k, t).state = {}
      /\ Fits(t, Life(k, t), "user", "return") /\ "return" \in Stage \ {"none"}
  BY <1>1, <1>2, <1>3 DEF Fits, WorkerFits, Ready, Stage
<1>5. /\ KInv' /\ ProgramsOK' /\ Onward /\ self' = self
      /\ \A w \in Thread : /\ k'.state[w] \in {k.state[w], {}}
                           /\ k'.state[w] # k.state[w] => k.state[w] = {"SLEEPING"}
      /\ \A w \in Thread :
            /\ cleanup_sem \in Life(k, w).on
            /\ \A u \in Thread \ {w} : cleanup_sem \notin Life(k, u).on
            => k'.state[w] = {}
  BY <1>1, <1>2, <1>4, WakeStep
<1>6. \A w \in Thread : /\ pc'[w] = pc[w]
                        /\ stage'[w] = IF w = t THEN "return" ELSE stage[w]
  <2>1. GoesTo(t, "user", "return")
    BY <1>1, <1>4 DEF GoesTo
  <2> QED BY <1>1, <1>2, <2>1, Places
<1>7. BoxFits'
  BY <1>1, <1>5, <1>6, BoxKept DEF mboxPart
<1>8. GotFits'
  BY <1>1, <1>2, <1>5, <1>6, GotKept DEF mboxPart
<1>9. Early => "SLEEPING" \notin k'.state[reaper]
  <2> SUFFICES ASSUME Early PROVE "SLEEPING" \notin k'.state[reaper]
    OBVIOUS
  <2> DEFINE l == Life(k, reaper)
             p == pc[reaper]
             g == stage[reaper]
  <2>1. l.state = k.state[reaper]
    BY DEF Life
  <2>2. ReaperFits(l, p, g) /\ (g \in {"none", "wait"} \/ p = "wait")
    BY <1>2 DEF Fits, Early
  <2> HIDE DEF l, p, g
  <2>3. "SLEEPING" \in l.state => l.on = {cleanup_sem}
    BY <2>2 DEF ReaperFits, NotCreated, WaitsOn, Ready, Loose
  <2>4. ASSUME NEW u \in Thread \ {reaper} PROVE cleanup_sem \notin Life(k, u).on
    <3> DEFINE lu == Life(k, u)
               pu == pc[u]
               gu == stage[u]
    <3>1. WorkerFits(lu, pu, gu)
      BY <1>2 DEF Fits
    <3> HIDE DEF lu, pu, gu
    <3>2. cleanup_sem \notin lu.on
      BY <1>2, <3>1 DEF WorkerFits, NotCreated, WaitsOn, Delays, Ready, Loose
    <3> QED BY <3>2 DEF lu
  <2> QED BY <1>2, <1>5, <2>1, <2>3, <2>4 DEF l
<1>10. SemFits'
  <2>1. sem_count \in Nat
    BY DEF ReaperInv, SemFits
  <2>2. Early' <=> Early
    BY <1>2, <1>6 DEF Early
  <2>3. ASSUME NEW w \in Worker
        PROVE  /\ "EXITED" \in k'.state[w] => "EXITED" \in k.state[w]
               /\ stage[w] = "return" => stage'[w] = "return"
    BY <1>2, <1>5, <1>6
  <2>4. sem_count' \in Nat /\ sem_count' > 0
    BY <1>1, <2>1
  <2> QED BY <1>9, <2>2, <2>3, <2>4, SemKept
<1> QED BY <1>5, <1>7, <1>8, <1>10 DEF ReaperInv

\* A shell thread's function returns and its thread exits.
LEMMA ReturnKeeps ==
    ASSUME ReaperInv, NEW t \in Worker, FunctionReturns(t)
    PROVE  ReaperInv'
<1> DEFINE l == Life(k, t)
           n == Exit(k)
           m == Exited(l)
<1>1. /\ InThread /\ t = self /\ stage[t] = "return" /\ stage' = [stage EXCEPT ![t] = "return"]
      /\ k' = Reschedule(n) /\ UNCHANGED <<pc, ticks, mboxPart, sem_count, freed>>
  BY DEF FunctionReturns, At
<1>2. /\ KernelInv(k) /\ QueuesDistinct(k) /\ k \in KernelState
      /\ t \in Thread /\ t \in AllThread /\ t # Idle /\ t = k.current
      /\ reaper \in Thread /\ t # reaper /\ reaper \in AllThread /\ Idle \notin Thread
      /\ \A w \in Worker : w \in Thread /\ w \in AllThread
      /\ Ready(l) /\ pc[t] = "user" /\ l.state = {}
  BY <1>1, ReaperFacts, RunningFacts DEF InThread, Ready
<1>3. KernelInv(n) /\ Only(n, k, t, m) /\ CountsKept(n, k, Idle) /\ n.current = k.current
  BY <1>2, LifeRunnable, ExitInv, ExitLife, DelayCounts DEF Keeps
<1>4. Fits(t, IF t = t THEN m ELSE Life(k, t), "user", "return") /\ m.state = {"EXITED"}
  <2> HIDE DEF l
  <2> QED BY <1>2 DEF Fits, WorkerFits, Ready, Loose, Exited, WithState, TimerOff
<1> HIDE DEF m, n
<1>5. /\ pc' = [pc EXCEPT ![t] = "user"] /\ "return" \in Stage /\ "return" # "none"
      /\ (k' = Unlock(n) \/ k' = Reschedule(n))
  BY <1>1, <1>2 DEF ReaperInv, KInv, Stage
<1>6. /\ KInv' /\ ProgramsOK' /\ Onward /\ self' = self
      /\ \A w \in AllThread : k'.state[w] = IF w = t THEN m.state ELSE k.state[w]
  <2>1. ProgramTurn(n, t, m, Idle, t, "user", "return")
    BY <1>1, <1>2, <1>3, <1>4, <1>5 DEF ProgramTurn
  <2> QED BY <1>2, <2>1, ReaperStep
<1>7. BoxFits'
  BY <1>1, <1>6, BoxKept DEF mboxPart
<1>8. GoesTo(t, "user", "return")
  BY <1>1, <1>5 DEF GoesTo
<1>9. GotFits' /\ SemFits'
  <2>1. \A w \in Thread : stage'[w] = IF w = t THEN "return" ELSE stage[w]
    BY <1>2, <1>8, Places
  <2> QED BY <1>1, <1>2, <1>6, <1>8, <2>1, WorkerRest DEF mboxPart
<1> QED BY <1>6, <1>7, <1>9 DEF ReaperInv

\* A step of the cleanup thread that gets and frees nothing.
LEMMA ReaperRest ==
    ASSUME ReaperInv, Onward, self' = self, NEW c, NEW g, GoesTo(reaper, c, g),
           c # "put", UNCHANGED <<box, item, ritem, freed>>,
           g \notin {"kill", "delete"} \/ (g = "kill" /\ c # "user")
    PROVE  BoxFits' /\ GotFits'
<1>1. reaper \in Thread
  BY ReaperFacts
<1>2. \A w \in Thread : /\ pc'[w] = IF w = reaper THEN c ELSE pc[w]
                        /\ stage'[w] = IF w = reaper THEN g ELSE stage[w]
  BY <1>1, Places
<1>3. \A w \in Thread : pc'[w] = "put" => pc[w] = "put"
  BY <1>2
<1>4. stage'[reaper] = g /\ pc'[reaper] = c
  BY <1>1, <1>2
<1> QED BY <1>3, <1>4, BoxKept, GotKept

\* Past the semaphore, its count no longer matters.
LEMMA LateSem ==
    ASSUME ReaperInv, NEW c, NEW g, GoesTo(reaper, c, g), c # "wait",
           g \notin {"none", "wait"}, sem_count' \in Nat
    PROVE  SemFits'
<1>1. stage'[reaper] = g /\ pc'[reaper] = c
  BY ReaperFacts, Places
<1>2. ~Early'
  BY <1>1 DEF Early
<1> QED BY <1>2 DEF SemFits

\* The cleanup thread goes to sleep on the semaphore, or again.
LEMMA SemBlocks ==
    ASSUME ReaperInv, self = reaper, Ready(Life(k, self)), Early, sem_count = 0,
           k' = BlockOn(k, cleanup_sem, "WAIT"), GoesTo(self, "wait", "get"),
           UNCHANGED <<ticks, sem_count, mboxPart, freed>>
    PROVE  ReaperInv'
<1>1. /\ self \in Thread /\ cleanup_sem \in WaitQueue /\ reaper \notin Worker
      /\ \A w \in Worker : w \in Thread /\ w \in AllThread
  BY ReaperFacts
<1>2. \A m : WaitsOn(m, cleanup_sem) => Fits(self, m, "wait", "get")
  BY DEF Fits, ReaperFits
<1>3. "get" \in Stage \ {"none"} /\ ~Delivered(self)
  BY <1>1 DEF Stage, Delivered
<1>4. /\ KInv' /\ ProgramsOK' /\ Onward /\ self' = self
      /\ \A w \in AllThread : k'.state[w] = IF w = self THEN {"SLEEPING"} ELSE k.state[w]
  BY <1>1, <1>2, <1>3, BlockStep DEF GoesTo
<1>5. BoxFits' /\ GotFits'
  BY <1>4, ReaperRest DEF mboxPart
<1>6. \A w \in Worker : stage'[w] = stage[w] /\ k'.state[w] = k.state[w]
  BY <1>1, <1>4, Places
<1>7. SemFits'
  <2>1. sem_count' \in Nat
    BY DEF ReaperInv, SemFits
  <2> QED BY <1>6, <2>1, SemKept
<1> QED BY <1>4, <1>5, <1>7 DEF ReaperInv

\* The cleanup thread takes from the semaphore and goes on to the mailbox.
LEMMA SemTakes ==
    ASSUME ReaperInv, self = reaper, Ready(Life(k, self)), sem_count > 0,
           sem_count' = sem_count - 1, k' = Unlock(k), GoesTo(self, "user", "get"),
           UNCHANGED <<ticks, mboxPart, freed>>
    PROVE  ReaperInv'
<1>1. self \in Thread /\ reaper \notin Worker
  BY ReaperFacts
<1>2. /\ Fits(self, Life(k, self), "user", "get") /\ "get" \in Stage \ {"none"}
      /\ ~Delivered(self)
  BY <1>1 DEF Fits, ReaperFits, Stage, Delivered
<1>3. KInv' /\ ProgramsOK' /\ Onward /\ self' = self
  BY <1>1, <1>2, PlainStep DEF GoesTo
<1>4. BoxFits' /\ GotFits'
  BY <1>3, ReaperRest DEF mboxPart
<1>5. sem_count' \in Nat
  BY DEF ReaperInv, SemFits
<1>6. SemFits'
  BY <1>5, LateSem
<1> QED BY <1>3, <1>4, <1>6 DEF ReaperInv

\* The wait() of cleanup_thread(), and its return from it.
LEMMA WaitKeeps ==
    ASSUME ReaperInv,
           ReaperWait \/ (Sem!SemWaitWoken /\ UNCHANGED <<stage, mboxPart, freed>>)
    PROVE  ReaperInv'
<1>1. pc = [w \in AllThread |-> pc[w]] /\ stage \in [Thread -> Stage]
  BY DEF ReaperInv, KInv, ProgramsOK
<1>2. CASE ReaperWait
  <2>1. /\ InThread /\ self = reaper /\ stage[self] = "wait" /\ Sem!SemWait
        /\ stage' = [stage EXCEPT ![self] = "get"] /\ UNCHANGED <<mboxPart, freed>>
    BY <1>2 DEF ReaperWait, At
  <2>2. Ready(Life(k, self)) /\ pc[self] = "user" /\ self \in AllThread /\ Early
    BY <2>1, RunningFacts, ReaperFacts DEF InThread, Early
  <2>3. /\ UNCHANGED ticks
        /\ \/ /\ sem_count = 0 /\ sem_count' = sem_count
              /\ k' = BlockOn(k, cleanup_sem, "WAIT")
              /\ pc' = [pc EXCEPT ![self] = "wait"]
           \/ /\ sem_count > 0 /\ sem_count' = sem_count - 1
              /\ k' = Unlock(k) /\ UNCHANGED pc
    BY <2>1, SemWaitIs
  <2>4. CASE /\ sem_count = 0 /\ sem_count' = sem_count
             /\ k' = BlockOn(k, cleanup_sem, "WAIT")
             /\ pc' = [pc EXCEPT ![self] = "wait"]
    <3>1. GoesTo(self, "wait", "get")
      BY <2>1, <2>4 DEF GoesTo
    <3> QED BY <2>1, <2>2, <2>3, <2>4, <3>1, SemBlocks
  <2>5. CASE /\ sem_count > 0 /\ sem_count' = sem_count - 1
             /\ k' = Unlock(k) /\ UNCHANGED pc
    <3>1. GoesTo(self, "user", "get")
      BY <1>1, <2>1, <2>2, <2>5 DEF GoesTo
    <3> QED BY <2>1, <2>2, <2>3, <2>5, <3>1, SemTakes
  <2> QED BY <2>3, <2>4, <2>5
<1>3. CASE Sem!SemWaitWoken /\ UNCHANGED <<stage, mboxPart, freed>>
  <2>1. k.sched_lock = "inner" /\ pc[self] = "wait"
    BY <1>3 DEF Sem!SemWaitWoken, Sem!self, self
  <2>2. /\ self = reaper /\ self \in Thread /\ stage[self] = "get"
        /\ Ready(Life(k, self)) /\ Early
    <3>1. self # Idle
      BY <2>1, KInvFacts DEF ReaperInv
    <3> QED BY <2>1, <3>1, RunningFacts DEF Early
  <2>3. k.wake_reason[self] \notin {"EXIT", "DESTRUCT", "BREAK"}
    BY <2>2 DEF Ready, Loose, Life
  <2>4. /\ UNCHANGED ticks
        /\ \/ /\ sem_count = 0 /\ sem_count' = sem_count
              /\ k' = BlockOn(k, cleanup_sem, "WAIT") /\ UNCHANGED pc
           \/ /\ sem_count > 0 /\ sem_count' = sem_count - 1
              /\ k' = Unlock(k) /\ pc' = [pc EXCEPT ![self] = "user"]
    BY <1>3, <2>3, SemWokenIs
  <2>5. stage' = [stage EXCEPT ![self] = "get"]
    BY <1>1, <1>3, <2>2
  <2>6. CASE /\ sem_count = 0 /\ sem_count' = sem_count
             /\ k' = BlockOn(k, cleanup_sem, "WAIT") /\ UNCHANGED pc
    <3>1. GoesTo(self, "wait", "get")
      BY <1>1, <2>1, <2>5, <2>6 DEF GoesTo
    <3> QED BY <1>3, <2>2, <2>4, <2>6, <3>1, SemBlocks
  <2>7. CASE /\ sem_count > 0 /\ sem_count' = sem_count - 1
             /\ k' = Unlock(k) /\ pc' = [pc EXCEPT ![self] = "user"]
    <3>1. GoesTo(self, "user", "get")
      BY <2>5, <2>7 DEF GoesTo
    <3> QED BY <1>3, <2>2, <2>4, <2>7, <3>1, SemTakes
  <2> QED BY <2>4, <2>6, <2>7
<1> QED BY <1>2, <1>3

\* The cleanup thread goes to sleep on the empty mailbox, or again.
LEMMA GetBlocks ==
    ASSUME ReaperInv, self = reaper, Ready(Life(k, self)),
           k' = BlockOn(k, getq, "WAIT"), GoesTo(self, "get", "kill"),
           UNCHANGED <<ticks, item, box, ritem, sem_count, freed>>
    PROVE  ReaperInv'
<1>1. self \in Thread /\ getq \in WaitQueue /\ reaper \notin Worker
  BY ReaperFacts
<1>2. \A m : WaitsOn(m, getq) => Fits(self, m, "get", "kill")
  BY DEF Fits, ReaperFits
<1>3. "kill" \in Stage \ {"none"} /\ ~Delivered(self)
  BY <1>1 DEF Stage, Delivered
<1>4. KInv' /\ ProgramsOK' /\ Onward /\ self' = self
  BY <1>1, <1>2, <1>3, BlockStep DEF GoesTo
<1>5. BoxFits' /\ GotFits'
  BY <1>4, ReaperRest
<1>6. sem_count' \in Nat
  BY DEF ReaperInv, SemFits
<1>7. SemFits'
  BY <1>6, LateSem
<1> QED BY <1>4, <1>5, <1>7 DEF ReaperInv

\* The cleanup thread gets a thread that has been delivered.
LEMMA GetTakes ==
    ASSUME ReaperInv, self = reaper, Ready(Life(k, self)), count > 0, Take(k),
           GoesTo(self, "user", "kill"), UNCHANGED <<ticks, item, sem_count, freed>>
    PROVE  ReaperInv'
<1>1. /\ self \in Thread /\ putq \in WaitQueue /\ reaper \notin Worker
      /\ \A w \in Worker : w \in Thread
  BY ReaperFacts
<1>2. /\ k' = Unlock(wakeup_waiter(k, putq)) /\ count' = count - 1
      /\ base' = (IF Size <= base + 1 THEN 0 ELSE base + 1)
      /\ ritem' = itemqueue[base] /\ UNCHANGED itemqueue
  BY DEF Take
<1>3. /\ Fits(self, Life(k, self), "user", "kill") /\ "kill" \in Stage \ {"none"}
      /\ ~Delivered(self) /\ Life(k, self).state = {}
  BY <1>1 DEF Fits, ReaperFits, Stage, Delivered, Ready
<1>4. KInv' /\ ProgramsOK' /\ Onward /\ self' = self
  BY <1>1, <1>2, <1>3, WakeStep DEF GoesTo
<1>5. \A w \in Thread : /\ pc'[w] = IF w = self THEN "user" ELSE pc[w]
                        /\ stage'[w] = IF w = self THEN "kill" ELSE stage[w]
  BY <1>1, Places
<1>6. BoxFits' /\ Delivered(itemqueue[base])
  <2>1. \A w \in Thread : pc'[w] = "put" => pc[w] = "put"
    BY <1>5
  <2> QED BY <1>2, <1>4, <2>1, TakeBox
<1>7. GotFits'
  <2>1. stage'[reaper] = "kill"
    BY <1>1, <1>5
  <2>2. Delivered(ritem)'
    <3>1. itemqueue[base] \in Thread
      BY <1>1, <1>6 DEF Delivered
    <3>2. ASSUME NEW v \in Thread, Delivered(v), v = ritem' PROVE Delivered(ritem)'
      BY <1>4, <3>2 DEF Onward, Delivered
    <3> QED BY <1>2, <1>6, <3>1, <3>2
  <2>3. freed \subseteq Worker /\ \A t \in freed : k.state[t] = {"EXITED"} /\ self # t
    BY DEF ReaperInv, GotFits
  <2>4. ASSUME NEW t \in freed' PROVE k'.state[t] = {"EXITED"} /\ self' # t
    BY <1>1, <1>4, <2>3, <2>4 DEF Onward
  <2> QED BY <2>1, <2>2, <2>3, <2>4 DEF GotFits
<1>8. sem_count' \in Nat
  BY DEF ReaperInv, SemFits
<1>9. SemFits'
  BY <1>8, LateSem
<1> QED BY <1>4, <1>6, <1>7, <1>9 DEF ReaperInv

\* The get() of cleanup_thread(), and its return from a wait.
LEMMA GetKeeps ==
    ASSUME ReaperInv,
           ReaperGet \/ (GetWoken /\ UNCHANGED <<stage, sem_count, freed>>)
    PROVE  ReaperInv'
<1>1. pc = [w \in AllThread |-> pc[w]] /\ stage \in [Thread -> Stage]
  BY DEF ReaperInv, KInv, ProgramsOK
<1>2. CASE ReaperGet
  <2>1. /\ InThread /\ self = reaper /\ stage' = [stage EXCEPT ![self] = "kill"]
        /\ MboxGet /\ UNCHANGED <<ticks, item, sem_count, freed>>
    BY <1>2 DEF ReaperGet, At, MboxGet
  <2>2. Ready(Life(k, self)) /\ pc[self] = "user" /\ self \in AllThread
    BY <2>1, RunningFacts, ReaperFacts DEF InThread
  <2>3. CASE /\ k' = BlockOn(k, getq, "WAIT") /\ pc' = [pc EXCEPT ![self] = "get"]
             /\ UNCHANGED <<box, ritem>>
    <3>1. GoesTo(self, "get", "kill")
      BY <2>1, <2>3 DEF GoesTo
    <3> QED BY <2>1, <2>2, <2>3, <3>1, GetBlocks
  <2>4. CASE count > 0 /\ Take(k) /\ UNCHANGED pc
    <3>1. GoesTo(self, "user", "kill")
      BY <1>1, <2>1, <2>2, <2>4 DEF GoesTo
    <3> QED BY <2>1, <2>2, <2>4, <3>1, GetTakes
  <2> QED BY <2>1, <2>3, <2>4 DEF MboxGet
<1>3. CASE GetWoken /\ UNCHANGED <<stage, sem_count, freed>>
  <2>1. /\ k.sched_lock = "inner" /\ pc[self] \in Getting /\ UNCHANGED <<ticks, item>>
        /\ self # Idle
    BY <1>3, KInvFacts DEF GetWoken, Waiting, ReaperInv, Getting
  <2>2. /\ self = reaper /\ self \in Thread /\ stage[self] = "kill" /\ pc[self] = "get"
        /\ Ready(Life(k, self))
    BY <2>1, RunningFacts DEF Getting
  <2>3. ~Timed /\ stage' = [stage EXCEPT ![self] = "kill"]
    BY <1>1, <1>3, <2>2 DEF Timed
  <2>4. CASE k' = BlockOn(k, getq, "WAIT") /\ UNCHANGED <<pc, box, ritem>>
    <3>1. GoesTo(self, "get", "kill")
      BY <1>1, <2>2, <2>3, <2>4 DEF GoesTo
    <3> QED BY <1>3, <2>1, <2>2, <2>4, <3>1, GetBlocks
  <2>5. CASE count > 0 /\ Take(EndWait) /\ Leave
    <3>1. GoesTo(self, "user", "kill") /\ Take(k)
      BY <2>3, <2>5 DEF GoesTo, Leave, EndWait
    <3> QED BY <1>3, <2>1, <2>2, <2>5, <3>1, GetTakes
  <2> QED BY <1>3, <2>3, <2>4, <2>5 DEF GetWoken
<1> QED BY <1>2, <1>3

\* A delivered thread is awake and on no queue, or dead.
LEMMA DeliveredLife ==
    ASSUME ReaperInv, NEW t, Delivered(t)
    PROVE  /\ t \in Thread /\ t \in AllThread /\ t # Idle /\ t # reaper
           /\ Loose(Life(k, t)) /\ Life(k, t).state \in {{}, {"EXITED"}}
<1> DEFINE l == Life(k, t)
           p == pc[t]
           g == stage[t]
<1>1. /\ t \in Thread /\ t \in AllThread /\ t # Idle /\ t # reaper
      /\ WorkerFits(l, p, g) /\ p = "user" /\ g \in {"post", "return"}
  BY ReaperFacts DEF Delivered, Fits
<1> HIDE DEF l, p, g
<1>2. Loose(l) /\ l.state \in {{}, {"EXITED"}}
  BY <1>1 DEF WorkerFits, NotCreated
<1> QED BY <1>1, <1>2 DEF l

\* The kill() of the thread the cleanup thread has got.
LEMMA KillKeeps ==
    ASSUME ReaperInv, ReaperKill
    PROVE  ReaperInv'
<1> DEFINE r == ritem
           l == Life(k, r)
           n == Kill(k, r)
           m == Killed(l)
<1>1. /\ InThread /\ self = reaper /\ stage[reaper] = "kill"
      /\ stage' = [stage EXCEPT ![reaper] = "delete"] /\ k' = Unlock(n)
      /\ UNCHANGED <<pc, ticks, mboxPart, sem_count, freed>>
  BY DEF ReaperKill, At
<1>2. /\ KernelInv(k) /\ QueuesDistinct(k) /\ k \in KernelState
      /\ reaper \in Thread /\ reaper \in AllThread /\ reaper \notin Worker
      /\ reaper # Idle /\ \A w \in Worker : w \in Thread
  BY ReaperFacts
<1>3. Ready(Life(k, reaper)) /\ pc[reaper] = "user"
  BY <1>1, <1>2, RunningFacts DEF InThread
<1>4. Delivered(r)
  BY <1>1, <1>3 DEF ReaperInv, GotFits
<1>5. /\ r \in Thread /\ r \in AllThread /\ r # Idle /\ r # reaper
      /\ Loose(l) /\ l.state \in {{}, {"EXITED"}}
      /\ stage[r] \in {"post", "return"} /\ pc[r] = "user"
  BY <1>4, DeliveredLife DEF Delivered
<1>6. l \in LifeType
  BY <1>2, <1>5, LifeTyped
<1>7. /\ KernelInv(n) /\ Only(n, k, r, m) /\ CountsKept(n, k, r) /\ n.current = k.current
  BY <1>2, <1>5, KillInv, KillLife, ResumeCounts DEF Keeps
<1> HIDE DEF l
<1>8. Loose(m) /\ m.state = {"EXITED"}
  <2>1. l.sleep = "NONE" /\ l.wake \in {"NONE", "DONE"} /\ l.on = {}
    BY <1>5 DEF Loose
  <2> QED BY <1>6, <2>1, KilledFields DEF Loose
<1> HIDE DEF m, n
<1>9. Fits(r, m, pc[r], stage[r])
  BY <1>5, <1>8 DEF Fits, WorkerFits
<1>10. GoesTo(reaper, "user", "delete") /\ pc' = [pc EXCEPT ![reaper] = "user"]
  BY <1>1, <1>2, <1>3 DEF GoesTo, ReaperInv, KInv
<1>11. Fits(reaper, IF reaper = r THEN m ELSE Life(k, reaper), "user", "delete")
  BY <1>3, <1>5 DEF Fits, ReaperFits
<1>12. "delete" \in Stage /\ "delete" # "none" /\ stage[r] # "none" /\ ~Delivered(reaper)
  BY <1>2, <1>5 DEF Stage, Delivered
<1> HIDE DEF r
<1>13. /\ KInv' /\ ProgramsOK' /\ Onward /\ self' = self
       /\ \A w \in AllThread : k'.state[w] = IF w = r THEN m.state ELSE k.state[w]
  <2>1. ProgramTurn(n, r, m, r, reaper, "user", "delete")
    BY <1>1, <1>2, <1>5, <1>7, <1>8, <1>9, <1>10, <1>11, <1>12 DEF ProgramTurn
  <2> QED BY <1>2, <1>5, <2>1, ReaperStep
<1>14. BoxFits'
  BY <1>1, <1>13, BoxKept DEF mboxPart
<1>15. GotFits'
  <2>1. ritem' = r /\ freed' = freed
    BY <1>1 DEF mboxPart, r
  <2>2. Delivered(ritem)'
    <3>1. ASSUME NEW v \in Thread, Delivered(v), v = ritem' PROVE Delivered(ritem)'
      BY <1>13, <3>1 DEF Onward, Delivered
    <3> QED BY <1>4, <1>5, <2>1, <3>1
  <2>3. k'.state[ritem'] = {"EXITED"}
    BY <1>5, <1>8, <1>13, <2>1
  <2>4. freed \subseteq Worker /\ \A t \in freed : k.state[t] = {"EXITED"} /\ self # t
    BY DEF ReaperInv, GotFits
  <2>5. ASSUME NEW t \in freed PROVE k'.state[t] = {"EXITED"} /\ self' # t
    BY <1>2, <1>13, <2>4, <2>5 DEF Onward
  <2> QED BY <2>1, <2>2, <2>3, <2>4, <2>5 DEF GotFits
<1>16. SemFits'
  <2>1. sem_count' \in Nat
    BY <1>1 DEF ReaperInv, SemFits
  <2> QED BY <1>10, <2>1, LateSem
<1> QED BY <1>13, <1>14, <1>15, <1>16 DEF ReaperInv

\* The delete() of the thread that was killed, and the end of its memory.
LEMMA DeleteKeeps ==
    ASSUME ReaperInv, ReaperDelete
    PROVE  ReaperInv'
<1>1. /\ InThread /\ self = reaper /\ stage[reaper] = "delete"
      /\ stage' = [stage EXCEPT ![reaper] = "get"]
      /\ k' = Unlock(IF k.state[ritem] = {"EXITED"} THEN k ELSE Kill(k, ritem))
      /\ freed' = freed \cup {ritem}
      /\ UNCHANGED <<pc, ticks, mboxPart, sem_count>>
  BY DEF ReaperDelete, At
<1>2. /\ reaper \in Thread /\ reaper \in AllThread /\ reaper \notin Worker
      /\ reaper # Idle /\ \A w \in Worker : w \in Thread /\ w \in AllThread
  BY ReaperFacts
<1>3. Ready(Life(k, reaper)) /\ pc[reaper] = "user"
  BY <1>1, <1>2, RunningFacts DEF InThread
<1>4. ritem \in Worker /\ k.state[ritem] = {"EXITED"} /\ k' = Unlock(k)
  BY <1>1, <1>3 DEF ReaperInv, GotFits, Delivered
<1>5. GoesTo(reaper, "user", "get")
  BY <1>1, <1>2, <1>3 DEF GoesTo, ReaperInv, KInv
<1>6. /\ Fits(self, Life(k, self), "user", "get") /\ "get" \in Stage \ {"none"}
      /\ ~Delivered(self)
  BY <1>1, <1>2, <1>3 DEF Fits, ReaperFits, Stage, Delivered
<1>7. /\ KInv' /\ ProgramsOK' /\ Onward /\ self' = self
      /\ \A w \in AllThread : k'.state[w] = k.state[w]
  BY <1>1, <1>2, <1>4, <1>5, <1>6, PlainStep DEF GoesTo
<1>8. BoxFits'
  BY <1>1, <1>7, BoxKept DEF mboxPart
<1>9. GotFits'
  <2>1. stage'[reaper] = "get"
    BY <1>2, <1>5, Places
  <2>2. freed \subseteq Worker /\ \A t \in freed : k.state[t] = {"EXITED"} /\ self # t
    BY DEF ReaperInv, GotFits
  <2>3. ASSUME NEW t \in freed' PROVE t \in Worker /\ k'.state[t] = {"EXITED"} /\ self' # t
    BY <1>1, <1>2, <1>4, <1>7, <2>2, <2>3
  <2> QED BY <2>1, <2>3 DEF GotFits
<1>10. SemFits'
  <2>1. sem_count' \in Nat
    BY <1>1 DEF ReaperInv, SemFits
  <2> QED BY <1>5, <2>1, LateSem
<1> QED BY <1>7, <1>8, <1>9, <1>10 DEF ReaperInv

\* A shell thread is back from its delay.
LEMMA DelayEnds ==
    ASSUME ReaperInv, SleepReturn, UNCHANGED <<mboxPart, stage, sem_count, freed>>
    PROVE  ReaperInv'
<1> DEFINE t == self
           l == Life(k, t)
           n == ClearTimer(k, t)
           m == TimerOff(l)
<1>1. k.sched_lock = "thread" /\ pc[t] \in {"delay", "csleep"} /\ UNCHANGED ticks
  BY DEF SleepReturn
<1>2. /\ KernelInv(k) /\ QueuesDistinct(k) /\ k \in KernelState
      /\ t \in AllThread /\ t # Idle /\ Idle \notin Thread
      /\ reaper \in Thread /\ reaper \notin Worker
      /\ \A w \in Worker : w \in Thread /\ w \in AllThread
      /\ \A w \in Thread : w \in AllThread
  BY <1>1, ReaperFacts, KInvFacts DEF ReaperInv
<1>3. /\ t \in Worker /\ stage[t] = "late" /\ pc[t] = "delay" /\ Ready(l)
  BY <1>1, <1>2, RunningFacts
<1>4. k.wake_reason[t] \notin {"DESTRUCT", "EXIT"}
  BY <1>3 DEF Ready, Loose, Life
<1>5. k' = Unlock(n) /\ pc' = [pc EXCEPT ![t] = "user"]
  BY <1>3, <1>4 DEF SleepReturn
<1>6. /\ KernelInv(n) /\ Only(n, k, t, m) /\ CountsKept(n, k, Idle) /\ n.current = k.current
  BY <1>2, ClearTimerInv, ClearTimerLife, SleepCounts DEF Keeps
<1>7. stage' = [stage EXCEPT ![t] = "late"]
  BY <1>3 DEF ReaperInv, ProgramsOK
<1>8. l.state = k.state[t]
  BY DEF Life
<1> HIDE DEF l, n
<1>9. Ready(m) /\ m.state = {} /\ l.state = {}
  BY <1>3 DEF Ready, Loose, TimerOff
<1> HIDE DEF m, t
<1>10. Fits(t, IF t = t THEN m ELSE Life(k, t), "user", "late")
  BY <1>2, <1>3, <1>9 DEF Fits, WorkerFits
<1>11. /\ "late" \in Stage /\ "late" # "none" /\ ~Delivered(t)
       /\ Life(k, t).state # {"EXITED"}
  BY <1>3, <1>9 DEF Stage, Delivered, l
<1>12. /\ KInv' /\ ProgramsOK' /\ Onward /\ self' = self
       /\ \A w \in AllThread : k'.state[w] = IF w = t THEN m.state ELSE k.state[w]
  <2>1. ProgramTurn(n, t, m, Idle, t, "user", "late")
    BY <1>1, <1>2, <1>5, <1>6, <1>7, <1>10, <1>11 DEF ProgramTurn
  <2> QED BY <1>2, <1>3, <2>1, ReaperStep
<1>13. GoesTo(t, "user", "late")
  BY <1>5, <1>7 DEF GoesTo
<1>14. BoxFits'
  <2>1. \A w \in Thread : pc'[w] = "put" => pc[w] = "put"
    BY <1>2, <1>3, <1>13, Places
  <2> QED BY <1>12, <2>1, BoxKept DEF mboxPart
<1>15. GotFits' /\ SemFits'
  <2>1. /\ "SLEEPING" \in k'.state[reaper] => "SLEEPING" \in k.state[reaper]
        /\ \A w \in Worker : "EXITED" \in k'.state[w] => "EXITED" \in k.state[w]
    BY <1>2, <1>9, <1>12
  <2>2. UNCHANGED <<ritem, freed, sem_count>> /\ self' = self /\ Onward
        /\ ("late" = "return" <=> stage[t] = "return")
    BY <1>3, <1>12 DEF mboxPart
  <2> QED BY <1>3, <1>13, <2>1, <2>2, WorkerRest
<1> QED BY <1>12, <1>14, <1>15 DEF ReaperInv

-----------------------------------------------------------------------------
(* The invariant is inductive *)

\* Initially every thread is to be created and the mailbox is empty.
LEMMA ReaperInitInv ==
    ASSUME ReaperInit
    PROVE  ReaperInv
<1>1. /\ Init /\ base = 0 /\ count = 0 /\ itemqueue = [i \in 0..(Size - 1) |-> None]
      /\ item = [t \in Thread |-> None] /\ stage = [t \in Thread |-> "none"]
      /\ sem_count = 0 /\ freed = {}
  BY DEF ReaperInit, MboxInit
<1>2. /\ KInv
      /\ \A t \in AllThread :
            /\ pc[t] = "user"
            /\ Life(k, t) = [state |-> IF t = Idle THEN {} ELSE {"SUSPENDED"},
                             sleep |-> "NONE", wake |-> "NONE", timer |-> FALSE, on |-> {}]
  BY <1>1, InitKInv
<1>3. /\ \A t \in Thread : t \in AllThread /\ t # Idle
      /\ Idle \in AllThread /\ reaper \in Thread /\ Size \in Nat \ {0}
      /\ \A t \in Worker : t \in Thread
  BY KernelAssumption, ReaperAssumption, MboxAssumption DEF AllThread, Worker
<1>4. ASSUME NEW t \in Thread
      PROVE  /\ Fits(t, Life(k, t), pc[t], stage[t]) /\ stage[t] = "none"
             /\ k.suspend_count[t] = 1 /\ k.state[t] = {"SUSPENDED"} /\ pc[t] = "user"
  <2> DEFINE l == Life(k, t)
  <2>1. l.state = k.state[t]
    BY DEF Life
  <2>2. /\ l.state = {"SUSPENDED"} /\ l.sleep = "NONE" /\ l.wake = "NONE"
        /\ l.timer = FALSE /\ l.on = {} /\ pc[t] = "user"
    BY <1>2, <1>3
  <2>3. k.suspend_count[t] = 1
    BY <1>1, <1>3 DEF Init, KernelInit
  <2> HIDE DEF l
  <2>4. NotCreated(l, pc[t], stage[t]) /\ stage[t] = "none"
    BY <1>1, <2>2 DEF NotCreated, Loose
  <2> QED BY <2>1, <2>2, <2>3, <2>4 DEF Fits, WorkerFits, ReaperFits, l
<1>5. ProgramsOK
  <2>1. stage \in [Thread -> Stage]
    BY <1>1 DEF Stage
  <2>2. Life(k, Idle).on = {}
    BY <1>2, <1>3
  <2> QED BY <1>4, <2>1, <2>2 DEF ProgramsOK
<1>6. BoxFits
  BY <1>1, <1>3, <1>4 DEF BoxFits
<1>7. GotFits
  BY <1>1, <1>3, <1>4 DEF GotFits
<1>8. SemFits
  BY <1>1, <1>3, <1>4 DEF SemFits
<1> QED BY <1>2, <1>5, <1>6, <1>7, <1>8 DEF ReaperInv

\* Every step keeps it.
LEMMA ReaperNextInv ==
    ASSUME ReaperInv, [ReaperNext]_reaperVars
    PROVE  ReaperInv'
<1>1. CASE create_cleanup_thread
  <2>1. reaper \in Thread
    BY ReaperFacts
  <2> QED BY <1>1, <2>1, CreateKeeps DEF create_cleanup_thread
<1>2. CASE Boot
  BY <1>2, KernelKeeps DEF Boot
<1>3. ASSUME NEW t \in Worker, shell_create_thread(t) PROVE ReaperInv'
  <2>1. t \in Thread /\ t # reaper
    BY ReaperFacts
  <2> QED BY <1>3, <2>1, CreateKeeps DEF shell_create_thread
<1>4. ASSUME NEW t \in Worker, Work(t) \/ CleanupPut(t) \/ CleanupPost(t) \/ FunctionReturns(t)
      PROVE  ReaperInv'
  BY <1>4, WorkKeeps, PutKeeps, PostKeeps, ReturnKeeps
<1>5. CASE ReaperWait \/ ReaperGet \/ ReaperKill \/ ReaperDelete
  BY <1>5, WaitKeeps, GetKeeps, KillKeeps, DeleteKeeps
<1>6. CASE Continue
  BY <1>6, PutKeeps, GetKeeps, WaitKeeps, DelayEnds DEF Continue
<1>7. CASE /\ KernelStep \/ ClockDsr \/ \E t \in Thread : ClockDsrAlarm(t)
           /\ UNCHANGED <<mboxPart, stage, sem_count, freed>>
  BY <1>7, KernelKeeps DEF KernelStep
<1>8. CASE UNCHANGED reaperVars
  BY <1>8 DEF reaperVars, ReaperInv, KInv, ProgramsOK, BoxFits, GotFits, SemFits,
              Delivered, Early, self
<1> QED BY <1>1, <1>2, <1>3, <1>4, <1>5, <1>6, <1>7, <1>8 DEF ReaperNext, Program

-----------------------------------------------------------------------------
(* The theorems *)

\* The inductive invariant holds in every reachable state.
THEOREM ReaperInvTheorem == ReaperSpec => []ReaperInv
<1>1. ReaperInv /\ [ReaperNext]_reaperVars => ReaperInv'
  BY ReaperNextInv
<1>2. ReaperInit => ReaperInv
  BY ReaperInitInv
<1> QED BY <1>1, <1>2, PTL DEF ReaperSpec

\* When cleanup_thread() frees the memory of a shell thread, the thread is
\* dead, is not the current one, is on no run queue and on no wait queue, and
\* has no timer, and so it stays.
THEOREM FreedTheorem == ReaperSpec => []FreedIsGone
<1>1. ReaperInv => FreedIsGone
  <2> SUFFICES ASSUME ReaperInv, NEW t \in freed
               PROVE  /\ k.state[t] = {"EXITED"}
                      /\ self # t
                      /\ \A p \in Priority : t \notin Range(k.run_queue[p])
                      /\ \A q \in WaitQueue : t \notin Range(k.wait_queue[q])
                      /\ ~k.timer[t]
    BY DEF FreedIsGone
  <2>1. t \in Worker /\ k.state[t] = {"EXITED"} /\ self # t
    BY DEF ReaperInv, GotFits
  <2>2. /\ t \in Thread /\ t \in AllThread /\ t # reaper
        /\ WorkerFits(Life(k, t), pc[t], stage[t])
        /\ KernelInv(k) /\ k \in KernelState
    BY <2>1, ReaperFacts DEF Fits
  <2>3. Life(k, t).on = {} /\ ~k.timer[t]
    <3> DEFINE l == Life(k, t)
    <3>1. l.state = {"EXITED"} /\ l.timer = k.timer[t]
      BY <2>1 DEF Life
    <3> HIDE DEF l
    <3>2. Loose(l)
      BY <2>2, <3>1 DEF WorkerFits, NotCreated, Ready, Delays, WaitsOn, l
    <3> QED BY <3>1, <3>2 DEF Loose, l
  <2>4. ASSUME NEW q \in WaitQueue PROVE t \notin Range(k.wait_queue[q])
    BY <2>2, <2>3, QueueLife
  <2>5. ASSUME NEW p \in Priority PROVE t \notin Range(k.run_queue[p])
    BY <2>1, <2>2 DEF KernelInv, RunQueuesOK, Runnable, RUNNING
  <2> QED BY <2>1, <2>3, <2>4, <2>5
<1> QED BY <1>1, ReaperInvTheorem, PTL

\* The cleanup thread waits for its semaphore once, and sleeps there beside a
\* thread it could get only while the post of a living thread is to come.
THEOREM PostTheorem == ReaperSpec => []PostStillComing
<1>1. ReaperInv => PostStillComing
  <2> SUFFICES ASSUME ReaperInv, "SLEEPING" \in k.state[reaper],
                      reaper \in Range(k.wait_queue[cleanup_sem]), count > 0
               PROVE  \E t \in Worker : stage[t] = "post" /\ "EXITED" \notin k.state[t]
    BY DEF PostStillComing
  <2>1. /\ reaper \in Thread /\ reaper \in AllThread /\ k \in KernelState
        /\ ReaperFits(Life(k, reaper), pc[reaper], stage[reaper])
        /\ cleanup_sem \in WaitQueue /\ cleanup_sem # getq
        /\ Size \in Nat /\ Size > 0
    BY ReaperFacts DEF Fits
  <2>2. Early
    <3> DEFINE l == Life(k, reaper)
    <3>1. cleanup_sem \in l.on /\ "SLEEPING" \in l.state
      BY <2>1, QueueLife DEF Life
    <3> HIDE DEF l
    <3>2. pc[reaper] = "wait"
      BY <2>1, <3>1 DEF ReaperFits, NotCreated, Ready, Loose, WaitsOn, l
    <3> QED BY <3>2 DEF Early
  <2>3. PICK t : Delivered(t)
    <3>1. /\ base \in 0..(Size - 1) /\ count \in 0..Size
          /\ \A i \in 0..(Size - 1) : itemqueue[i] # None => Delivered(itemqueue[i])
          /\ \A i \in 0..(count - 1) : itemqueue[Slot(base + i)] # None
      BY DEF ReaperInv, BoxFits
    <3>2. 0 \in 0..(count - 1) /\ Slot(base + 0) = base
      BY <2>1, <3>1 DEF Slot
    <3> QED BY <3>1, <3>2
  <2>4. t \in Worker /\ stage[t] \in {"post", "return"}
    BY <2>3 DEF Delivered
  <2>5. stage[t] # "return" /\ ("EXITED" \in k.state[t] => stage[t] = "return")
    BY <2>2, <2>4 DEF ReaperInv, SemFits
  <2> QED BY <2>4, <2>5
<1> QED BY <1>1, ReaperInvTheorem, PTL

=============================================================================
