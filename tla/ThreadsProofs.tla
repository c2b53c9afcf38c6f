---------------------------- MODULE ThreadsProofs ---------------------------
(***************************************************************************)
(* Theorems about modules Kernel and Threads, for any number of threads,   *)
(* priorities and ticks per quantum, and for any choice of the operations  *)
(* in use.  In three parts:                                                *)
(*                                                                         *)
(*   - each operation of the scheduler and of Cyg_Thread keeps the run     *)
(*     queues consistent, the idle thread runnable, the suspend counts     *)
(*     right and a reschedule pending whenever one is due;                 *)
(*   - what each operation does to the life of a thread;                   *)
(*   - the specification Threads and its theorems.                         *)
(*                                                                         *)
(* The lemmas of the first two parts are about any kernel state x.         *)
(***************************************************************************)
EXTENDS Threads, SequenceFacts, FiniteSetTheorems

-----------------------------------------------------------------------------
(* The list of a priority *)

\* rotate() changes the order of a list and nothing else.
LEMMA RotateFacts ==
    ASSUME NEW S, NEW s \in Seq(S)
    PROVE  /\ Rotate(s) \in Seq(S)
           /\ Rotate(s) = <<>> <=> s = <<>>
           /\ Range(Rotate(s)) = Range(s)
           /\ IsInjective(s) => IsInjective(Rotate(s))
<1>1. CASE s = <<>>
  BY <1>1 DEF Rotate
<1>2. CASE s # <<>>
  <2> DEFINE u == Tail(s)
             h == Head(s)
  <2>1. /\ u \in Seq(S)
        /\ Len(u) = Len(s) - 1
        /\ \A i \in 1..Len(u) : u[i] = s[i + 1]
        /\ h \in S
        /\ h = s[1]
    BY <1>2, HeadTailProperties
  <2>2. /\ DOMAIN s = 1..Len(s)
        /\ DOMAIN u = 1..(Len(s) - 1)
        /\ Len(s) \in Nat \ {0}
    BY <2>1, <1>2, LenProperties, EmptySeq
  <2>3. Rotate(s) = Append(u, h)
    BY <1>2 DEF Rotate
  <2> HIDE DEF u, h
  <2>4. Range(s) = Range(u) \cup {h}
    <3>1. Range(u) \cup {h} \subseteq Range(s)
      BY <2>1, <2>2 DEF Range
    <3>2. ASSUME NEW i \in 1..Len(s) PROVE s[i] \in Range(u) \cup {h}
      <4>1. CASE i = 1
        BY <4>1, <2>1
      <4>2. CASE i # 1
        <5>1. i - 1 \in DOMAIN u /\ u[i - 1] = s[i]
          BY <4>2, <2>1, <2>2
        <5> QED BY <5>1 DEF Range
      <4> QED BY <4>1, <4>2
    <3> QED BY <3>1, <3>2, <2>2 DEF Range
  <2>5. ASSUME IsInjective(s) PROVE IsInjective(u) /\ h \notin Range(u)
    <3>1. \A i \in DOMAIN u : u[i] = s[i + 1] /\ i + 1 \in DOMAIN s /\ i + 1 # 1
      BY <2>1, <2>2
    <3>2. ASSUME NEW i \in DOMAIN u, NEW j \in DOMAIN u, u[i] = u[j] PROVE i = j
      <4>1. i + 1 = j + 1
        BY <3>1, <3>2, <2>5 DEF IsInjective
      <4> QED BY <4>1, <2>2
    <3>3. ASSUME NEW i \in DOMAIN u PROVE u[i] # h
      BY <3>1, <2>1, <2>2, <2>5 DEF IsInjective
    <3> QED BY <3>2, <3>3 DEF IsInjective, Range
  <2> QED BY <1>2, <2>1, <2>3, <2>4, <2>5, AppendFacts
<1> QED BY <1>1, <1>2
-----------------------------------------------------------------------------
(* The invariant of the kernel state *)

RunnableSet(x) == {t \in AllThread : Runnable(x, t)}

\* The run queues hold the threads of R, whatever their states: what is true
\* in the middle of an operation.
QueuesHold(x, R) ==
    /\ \A p \in Priority :
         /\ IsInjective(x.run_queue[p])
         /\ Range(x.run_queue[p]) = {t \in R : x.priority[t] = p}
    /\ x.queue_map = {p \in Priority : x.run_queue[p] # <<>>}

\* A runnable thread that beats the current one has set need_reschedule.
ReschedulePending(x) ==
    ~x.need_reschedule =>
        \A t \in AllThread :
            Runnable(x, t) => x.priority[x.current] <= x.priority[t]

KernelInv(x) ==
    /\ x \in KernelState
    /\ RunQueuesOK(x)
    /\ IdleOK(x)
    /\ SuspendOK(x)
    /\ ReschedulePending(x)

\* What the operations on threads leave to unlock_inner() and to set_timer().
Keeps(n, x) ==
    /\ n.current = x.current
    /\ n.sched_lock = x.sched_lock
    /\ \A t \in AllThread : n.timer[t] => x.timer[t]

\* Everything a thread's own state consists of.
SameThreads(n, x) ==
    /\ n.state = x.state
    /\ n.priority = x.priority
    /\ n.original_priority = x.original_priority
    /\ n.suspend_count = x.suspend_count
    /\ n.sleep_reason = x.sleep_reason
    /\ n.wake_reason = x.wake_reason
    /\ n.timer = x.timer
    /\ n.current = x.current
    /\ n.sched_lock = x.sched_lock

\* RunQueuesOK in terms of QueuesHold.
LEMMA RunQueuesAsHold ==
    ASSUME NEW x
    PROVE  RunQueuesOK(x) <=> QueuesHold(x, RunnableSet(x))
<1>1. \A p : {t \in AllThread : Runnable(x, t) /\ x.priority[t] = p}
               = {t \in RunnableSet(x) : x.priority[t] = p}
  BY DEF RunnableSet
<1> QED BY <1>1 DEF RunQueuesOK, QueuesHold

\* QueuesHold reads only the run queues, the map and the priorities of R.
LEMMA QueuesHoldFrame ==
    ASSUME NEW x, NEW n, NEW R, QueuesHold(x, R),
           n.run_queue = x.run_queue, n.queue_map = x.queue_map,
           \A t \in R : n.priority[t] = x.priority[t]
    PROVE  QueuesHold(n, R)
<1>1. \A p : {t \in R : n.priority[t] = p} = {t \in R : x.priority[t] = p}
  OBVIOUS
<1> QED BY <1>1 DEF QueuesHold

\* rem_thread() takes t off the run queues and touches nothing else.
LEMMA RemThreadFacts ==
    ASSUME NEW x \in KernelState, NEW t \in AllThread,
           NEW R, QueuesHold(x, R)
    PROVE  /\ RemThread(x, t) \in KernelState
           /\ QueuesHold(RemThread(x, t), R \ {t})
           /\ SameThreads(RemThread(x, t), x)
           /\ RemThread(x, t).need_reschedule = x.need_reschedule
<1> DEFINE p == x.priority[t]
           q == RemoveFirst(x.run_queue[p], t)
           n == RemThread(x, t)
<1>1. p \in Priority /\ x.run_queue[p] \in Seq(AllThread)
  BY DEF KernelState
<1>2. /\ q \in Seq(AllThread)
      /\ IsInjective(q)
      /\ Range(q) = Range(x.run_queue[p]) \ {t}
  BY <1>1, RemoveFirstFacts DEF QueuesHold
<1> HIDE DEF q
<1>3. n = [x EXCEPT !.run_queue[p] = q,
                    !.queue_map = IF q = <<>> THEN @ \ {p} ELSE @]
  BY DEF RemThread, q
<1>4. n \in KernelState /\ SameThreads(n, x) /\ n.need_reschedule = x.need_reschedule
  <2>1. n \in KernelState
    <3> DEFINE rq == [x.run_queue EXCEPT ![p] = q]
               qm == IF q = <<>> THEN x.queue_map \ {p} ELSE x.queue_map
    <3>1. rq \in [Priority -> Seq(AllThread)] /\ qm \in SUBSET Priority
      BY <1>1, <1>2 DEF KernelState
    <3>2. n = [x EXCEPT !.run_queue = rq, !.queue_map = qm]
      BY <1>3
    <3> HIDE DEF rq, qm
    <3> QED BY <3>1, <3>2 DEF KernelState
  <2>2. SameThreads(n, x) /\ n.need_reschedule = x.need_reschedule
    BY <1>3 DEF KernelState, SameThreads
  <2> QED BY <2>1, <2>2
<1>5. /\ n.priority = x.priority
      /\ n.run_queue = [x.run_queue EXCEPT ![p] = q]
      /\ n.queue_map = IF q = <<>> THEN x.queue_map \ {p} ELSE x.queue_map
      /\ x.run_queue \in [Priority -> Seq(AllThread)]
  BY <1>3 DEF KernelState
<1> HIDE DEF n
<1>6. ASSUME NEW r \in Priority
      PROVE  /\ IsInjective(n.run_queue[r])
             /\ Range(n.run_queue[r]) = {u \in R \ {t} : n.priority[u] = r}
  <2>1. CASE r = p
    BY <2>1, <1>1, <1>2, <1>5 DEF QueuesHold
  <2>2. CASE r # p
    BY <2>2, <1>1, <1>5 DEF QueuesHold
  <2> QED BY <2>1, <2>2
<1>7. n.queue_map = {r \in Priority : n.run_queue[r] # <<>>}
  <2>1. x.queue_map = {r \in Priority : x.run_queue[r] # <<>>}
    BY DEF QueuesHold
  <2>2. q # <<>> => x.run_queue[p] # <<>>
    BY <1>1, <1>2, HeadFacts
  <2> QED BY <1>1, <1>5, <2>1, <2>2
<1>8. QueuesHold(n, R \ {t})
  BY <1>6, <1>7 DEF QueuesHold
<1> QED BY <1>4, <1>8 DEF n

\* set_need_reschedule(t) only raises the flag, and does so if t or the loss
\* of the current thread calls for it.
LEMMA SetNeedRescheduleFacts ==
    ASSUME NEW x \in KernelState, NEW t \in AllThread
    PROVE  /\ SetNeedReschedule(x, t) \in KernelState
           /\ SameThreads(SetNeedReschedule(x, t), x)
           /\ SetNeedReschedule(x, t).run_queue = x.run_queue
           /\ SetNeedReschedule(x, t).queue_map = x.queue_map
           /\ ~SetNeedReschedule(x, t).need_reschedule =>
                 /\ ~x.need_reschedule
                 /\ x.priority[x.current] <= x.priority[t]
                 /\ Runnable(x, x.current)
<1> DEFINE f == \/ x.need_reschedule
                \/ x.priority[x.current] > x.priority[t]
                \/ ~Runnable(x, x.current)
           n == SetNeedReschedule(x, t)
<1>1. x.priority[t] \in Int /\ x.priority[x.current] \in Int
  BY KernelAssumption DEF KernelState, Priority
<1>2. n = [x EXCEPT !.need_reschedule = f] /\ f \in BOOLEAN
  BY DEF SetNeedReschedule
<1>3. ~f => /\ ~x.need_reschedule
            /\ x.priority[x.current] <= x.priority[t]
            /\ Runnable(x, x.current)
  BY <1>1
<1> HIDE DEF f, n
<1>4. n \in KernelState
  BY <1>2 DEF KernelState
<1>5. /\ SameThreads(n, x)
      /\ n.run_queue = x.run_queue
      /\ n.queue_map = x.queue_map
      /\ n.need_reschedule = f
  BY <1>2 DEF KernelState, SameThreads
<1> QED BY <1>3, <1>4, <1>5 DEF n

\* remove() touches the wait queues only.
LEMMA LeaveQueueFacts ==
    ASSUME NEW x \in KernelState, NEW t \in AllThread
    PROVE  /\ LeaveQueue(x, t) \in KernelState
           /\ SameThreads(LeaveQueue(x, t), x)
           /\ LeaveQueue(x, t).run_queue = x.run_queue
           /\ LeaveQueue(x, t).queue_map = x.queue_map
           /\ LeaveQueue(x, t).need_reschedule = x.need_reschedule
<1>1. [q \in WaitQueue |-> RemoveFirst(x.wait_queue[q], t)]
        \in [WaitQueue -> Seq(AllThread)]
  BY RemoveFirstFacts DEF KernelState
<1> QED BY <1>1 DEF KernelState, LeaveQueue, SameThreads

\* add_thread() puts t on the run queue of its priority and asks for a
\* reschedule if t should run.
LEMMA AddThreadFacts ==
    ASSUME NEW x \in KernelState, NEW t \in AllThread,
           NEW R, QueuesHold(x, R), t \notin R
    PROVE  /\ AddThread(x, t) \in KernelState
           /\ QueuesHold(AddThread(x, t), R \cup {t})
           /\ SameThreads(AddThread(x, t), x)
           /\ ~AddThread(x, t).need_reschedule =>
                 /\ ~x.need_reschedule
                 /\ x.priority[x.current] <= x.priority[t]
                 /\ Runnable(x, x.current)
<1> DEFINE p  == x.priority[t]
           k1 == LeaveQueue(x, t)
           q  == Append(k1.run_queue[p], t)
           k2 == [k1 EXCEPT !.run_queue[p] = q,
                            !.queue_map    = @ \cup {p},
                            !.timeslice[t] = TimesliceTicks]
           n  == AddThread(x, t)
<1>1. /\ k1 \in KernelState
      /\ SameThreads(k1, x)
      /\ k1.run_queue = x.run_queue
      /\ k1.queue_map = x.queue_map
      /\ k1.need_reschedule = x.need_reschedule
  BY LeaveQueueFacts
<1>2. n = SetNeedReschedule(k2, t)
  BY DEF AddThread
<1> HIDE DEF k1, n
<1>3. p \in Priority /\ x.run_queue[p] \in Seq(AllThread)
  BY DEF KernelState
<1>4. /\ q \in Seq(AllThread)
      /\ q # <<>>
      /\ IsInjective(q)
      /\ Range(q) = Range(x.run_queue[p]) \cup {t}
  BY <1>1, <1>3, AppendFacts DEF QueuesHold
<1> HIDE DEF q
<1>5. k2 \in KernelState /\ SameThreads(k2, x) /\ k2.need_reschedule = x.need_reschedule
  <2>1. k2 \in KernelState
    <3> DEFINE rq == [k1.run_queue EXCEPT ![p] = q]
               qm == k1.queue_map \cup {p}
               ts == [k1.timeslice EXCEPT ![t] = TimesliceTicks]
    <3>1. rq \in [Priority -> Seq(AllThread)] /\ qm \in SUBSET Priority
      BY <1>1, <1>3, <1>4 DEF KernelState
    <3>2. ts \in [AllThread -> 0..(CountMod - 1)]
      BY <1>1, KernelAssumption DEF KernelState
    <3>3. k2 = [k1 EXCEPT !.run_queue = rq, !.queue_map = qm, !.timeslice = ts]
      OBVIOUS
    <3> HIDE DEF rq, qm, ts, k2
    <3> QED BY <1>1, <3>1, <3>2, <3>3 DEF KernelState
  <2>2. SameThreads(k2, k1) /\ k2.need_reschedule = k1.need_reschedule
    BY <1>1 DEF KernelState, SameThreads
  <2> QED BY <1>1, <2>1, <2>2 DEF SameThreads
<1>6. /\ k2.run_queue = [x.run_queue EXCEPT ![p] = q]
      /\ k2.queue_map = x.queue_map \cup {p}
      /\ x.run_queue \in [Priority -> Seq(AllThread)]
  BY <1>1 DEF KernelState
<1> HIDE DEF k2
<1>7. /\ n \in KernelState
      /\ SameThreads(n, k2)
      /\ n.run_queue = k2.run_queue
      /\ n.queue_map = k2.queue_map
      /\ ~n.need_reschedule =>
            /\ ~k2.need_reschedule
            /\ k2.priority[k2.current] <= k2.priority[t]
            /\ Runnable(k2, k2.current)
  BY <1>2, <1>5, SetNeedRescheduleFacts
<1>8. SameThreads(n, x)
  BY <1>5, <1>7 DEF SameThreads
<1>9. ASSUME NEW r \in Priority
      PROVE  /\ IsInjective(n.run_queue[r])
             /\ Range(n.run_queue[r]) = {u \in R \cup {t} : n.priority[u] = r}
  <2>1. n.priority = x.priority
    BY <1>8 DEF SameThreads
  <2>2. CASE r = p
    BY <2>1, <2>2, <1>3, <1>4, <1>6, <1>7 DEF QueuesHold
  <2>3. CASE r # p
    BY <2>1, <2>3, <1>3, <1>6, <1>7 DEF QueuesHold
  <2> QED BY <2>2, <2>3
<1>10. n.queue_map = {r \in Priority : n.run_queue[r] # <<>>}
  <2>1. x.queue_map = {r \in Priority : x.run_queue[r] # <<>>}
    BY DEF QueuesHold
  <2> QED BY <1>3, <1>4, <1>6, <1>7, <2>1
<1>11. QueuesHold(n, R \cup {t})
  BY <1>9, <1>10 DEF QueuesHold
<1>12. ~n.need_reschedule =>
          /\ ~x.need_reschedule
          /\ x.priority[x.current] <= x.priority[t]
          /\ Runnable(x, x.current)
  BY <1>5, <1>7 DEF SameThreads, Runnable
<1> QED BY <1>7, <1>8, <1>11, <1>12 DEF n

-----------------------------------------------------------------------------
(* How an operation may change the kernel state *)

\* Nothing the scheduler looks at has changed.
SameScheduling(n, x) ==
    /\ n.state = x.state
    /\ n.suspend_count = x.suspend_count
    /\ n.priority = x.priority
    /\ n.original_priority = x.original_priority
    /\ n.run_queue = x.run_queue
    /\ n.queue_map = x.queue_map
    /\ n.current = x.current
    /\ n.need_reschedule = x.need_reschedule

\* Of the threads, only t has changed, and only its state and suspend count.
OnlyState(n, x, t) ==
    /\ n.priority = x.priority
    /\ n.original_priority = x.original_priority
    /\ n.current = x.current
    /\ n.need_reschedule = x.need_reschedule
    /\ \A u \in AllThread \ {t} :
          n.state[u] = x.state[u] /\ n.suspend_count[u] = x.suspend_count[u]
    /\ "SUSPENDED" \in n.state[t] <=> n.suspend_count[t] > 0

\* A change the scheduler does not see keeps the invariant.
LEMMA SameSchedulingInv ==
    ASSUME NEW x, KernelInv(x), NEW n \in KernelState, SameScheduling(n, x)
    PROVE  KernelInv(n)
<1>1. RunnableSet(n) = RunnableSet(x)
  BY DEF SameScheduling, RunnableSet, Runnable
<1>2. QueuesHold(n, RunnableSet(n))
  BY <1>1, RunQueuesAsHold, QueuesHoldFrame DEF KernelInv, SameScheduling
<1>3. IdleOK(n) /\ SuspendOK(n) /\ ReschedulePending(n)
  BY DEF KernelInv, SameScheduling, IdleOK, SuspendOK, ReschedulePending, Runnable
<1> QED BY <1>2, <1>3, RunQueuesAsHold DEF KernelInv

\* Stopping t: off the run queue if it was runnable, and then not runnable.
StopThread(x, t) == IF Runnable(x, t) THEN RemThread(x, t) ELSE x

\* Taking t off its run queue leaves the others where they are.
LEMMA StopThreadFacts ==
    ASSUME NEW x, KernelInv(x), NEW t \in AllThread
    PROVE  /\ StopThread(x, t) \in KernelState
           /\ QueuesHold(StopThread(x, t), RunnableSet(x) \ {t})
           /\ SameThreads(StopThread(x, t), x)
           /\ StopThread(x, t).need_reschedule = x.need_reschedule
<1>1. x \in KernelState /\ QueuesHold(x, RunnableSet(x))
  BY RunQueuesAsHold DEF KernelInv
<1>2. CASE Runnable(x, t)
  <2>1. StopThread(x, t) = RemThread(x, t)
    BY <1>2 DEF StopThread
  <2> QED BY <1>1, <2>1, RemThreadFacts
<1>3. CASE ~Runnable(x, t)
  <2>1. StopThread(x, t) = x
    BY <1>3 DEF StopThread
  <2>2. RunnableSet(x) \ {t} = RunnableSet(x)
    BY <1>3 DEF RunnableSet
  <2> QED BY <1>1, <2>1, <2>2 DEF SameThreads
<1> QED BY <1>2, <1>3

\* A thread other than the idle one may stop, once off its run queue; no
\* reschedule is lost, because the others are as runnable as before.
LEMMA StoppedInv ==
    ASSUME NEW x, KernelInv(x), NEW t \in AllThread, t # Idle,
           NEW n \in KernelState, QueuesHold(n, RunnableSet(x) \ {t}),
           OnlyState(n, x, t), ~Runnable(n, t)
    PROVE  KernelInv(n)
<1>1. RunnableSet(n) = RunnableSet(x) \ {t}
  BY DEF OnlyState, RunnableSet, Runnable
<1>2. QueuesHold(n, RunnableSet(n))
  BY <1>1
<1>3. IdleOK(n)
  BY DEF KernelInv, OnlyState, IdleOK, Runnable
<1>4. SuspendOK(n)
  BY DEF KernelInv, OnlyState, SuspendOK
<1>5. ReschedulePending(n)
  BY <1>1 DEF KernelInv, OnlyState, ReschedulePending, RunnableSet
<1> QED BY <1>2, <1>3, <1>4, <1>5, RunQueuesAsHold DEF KernelInv

\* Readying t: on the run queue if nothing holds it any more.
ReadyThread(x, t) == IF Runnable(x, t) THEN AddThread(x, t) ELSE x

\* A thread that was held back and is no longer goes on its run queue, and
\* add_thread() asks for the reschedule it may need.
LEMMA ReadiedInv ==
    ASSUME NEW x, KernelInv(x), NEW t \in AllThread, ~Runnable(x, t),
           NEW k1 \in KernelState,
           k1.run_queue = x.run_queue, k1.queue_map = x.queue_map,
           OnlyState(k1, x, t)
    PROVE  /\ KernelInv(ReadyThread(k1, t))
           /\ SameThreads(ReadyThread(k1, t), k1)
<1>1. RunnableSet(k1) \ {t} = RunnableSet(x)
  BY DEF OnlyState, RunnableSet, Runnable
<1>2. QueuesHold(k1, RunnableSet(x))
  BY RunQueuesAsHold, QueuesHoldFrame DEF KernelInv, OnlyState
<1>3. t # Idle
  BY DEF KernelInv, IdleOK
<1>4. IdleOK(k1)
  BY <1>3 DEF KernelInv, OnlyState, IdleOK, Runnable
<1>5. SuspendOK(k1)
  BY DEF KernelInv, OnlyState, SuspendOK
<1>6. ~k1.need_reschedule =>
        \A u \in RunnableSet(k1) \ {t} : k1.priority[k1.current] <= k1.priority[u]
  BY <1>1 DEF KernelInv, OnlyState, ReschedulePending, RunnableSet
<1>7. CASE Runnable(k1, t)
  <2> DEFINE n == AddThread(k1, t)
  <2>1. t \notin RunnableSet(x)
    BY DEF RunnableSet
  <2>2. /\ n \in KernelState
        /\ QueuesHold(n, RunnableSet(x) \cup {t})
        /\ SameThreads(n, k1)
        /\ ~n.need_reschedule =>
              /\ ~k1.need_reschedule
              /\ k1.priority[k1.current] <= k1.priority[t]
              /\ Runnable(k1, k1.current)
    BY <1>2, <2>1, AddThreadFacts
  <2> HIDE DEF n
  <2>3. RunnableSet(n) = RunnableSet(x) \cup {t}
    BY <1>1, <1>7, <2>2 DEF SameThreads, RunnableSet, Runnable
  <2>4. IdleOK(n) /\ SuspendOK(n)
    BY <1>4, <1>5, <2>2 DEF SameThreads, IdleOK, SuspendOK, Runnable
  <2>5. ReschedulePending(n)
    BY <1>6, <2>2 DEF SameThreads, ReschedulePending, RunnableSet, Runnable
  <2>6. KernelInv(n)
    BY <2>2, <2>3, <2>4, <2>5, RunQueuesAsHold DEF KernelInv
  <2> QED BY <1>7, <2>2, <2>6 DEF n, ReadyThread
<1>8. CASE ~Runnable(k1, t)
  <2>1. RunnableSet(k1) = RunnableSet(x)
    BY <1>1, <1>8 DEF RunnableSet
  <2>2. ReschedulePending(k1)
    BY <1>6, <1>8 DEF ReschedulePending, RunnableSet
  <2>3. KernelInv(k1)
    BY <1>2, <1>4, <1>5, <2>1, <2>2, RunQueuesAsHold DEF KernelInv
  <2> QED BY <1>8, <2>3 DEF ReadyThread, SameThreads
<1> QED BY <1>7, <1>8

\* Rotating a run queue: the same threads, another head.
LEMMA RotatedInv ==
    ASSUME NEW x, KernelInv(x), NEW p \in Priority, NEW n \in KernelState,
           n.run_queue = [x.run_queue EXCEPT ![p] = Rotate(x.run_queue[p])],
           n.queue_map = x.queue_map,
           SameThreads(n, x), x.need_reschedule => n.need_reschedule
    PROVE  KernelInv(n)
<1>1. RunnableSet(n) = RunnableSet(x) /\ n.priority = x.priority
  BY DEF SameThreads, RunnableSet, Runnable
<1>2. /\ x.run_queue \in [Priority -> Seq(AllThread)]
      /\ QueuesHold(x, RunnableSet(x))
  BY RunQueuesAsHold DEF KernelInv, KernelState
<1>3. ASSUME NEW r \in Priority
      PROVE  /\ IsInjective(n.run_queue[r])
             /\ Range(n.run_queue[r]) = {u \in RunnableSet(n) : n.priority[u] = r}
             /\ n.run_queue[r] = <<>> <=> x.run_queue[r] = <<>>
  <2>1. CASE r = p
    <3>1. n.run_queue[r] = Rotate(x.run_queue[r]) /\ x.run_queue[r] \in Seq(AllThread)
      BY <1>2, <2>1
    <3> QED BY <3>1, <1>1, <1>2, RotateFacts DEF QueuesHold
  <2>2. CASE r # p
    <3>1. n.run_queue[r] = x.run_queue[r]
      BY <1>2, <2>2
    <3> QED BY <3>1, <1>1, <1>2 DEF QueuesHold
  <2> QED BY <2>1, <2>2
<1>4. n.queue_map = {r \in Priority : n.run_queue[r] # <<>>}
  BY <1>2, <1>3 DEF QueuesHold
<1>5. QueuesHold(n, RunnableSet(n))
  BY <1>3, <1>4 DEF QueuesHold
<1>6. IdleOK(n) /\ SuspendOK(n) /\ ReschedulePending(n)
  BY DEF KernelInv, SameThreads, IdleOK, SuspendOK, ReschedulePending, Runnable
<1> QED BY <1>5, <1>6, RunQueuesAsHold DEF KernelInv

-----------------------------------------------------------------------------
(* The operations of Cyg_Thread *)

\* set_sleep_reason() is of no concern to the scheduler.
LEMMA SetSleepReasonInv ==
    ASSUME NEW x, KernelInv(x), NEW r \in SleepReason
    PROVE  /\ KernelInv(SetSleepReason(x, r))
           /\ Keeps(SetSleepReason(x, r), x)
<1> DEFINE n == SetSleepReason(x, r)
<1>1. n \in KernelState
  BY DEF KernelInv, KernelState, SetSleepReason, WakeReason
<1>2. SameScheduling(n, x) /\ n.timer = x.timer /\ n.sched_lock = x.sched_lock
  BY DEF KernelInv, KernelState, SetSleepReason, SameScheduling
<1> HIDE DEF n
<1>3. KernelInv(n)
  BY <1>1, <1>2, SameSchedulingInv
<1> QED BY <1>2, <1>3 DEF n, Keeps, SameScheduling

\* Neither is set_wake_reason().
LEMMA SetWakeReasonInv ==
    ASSUME NEW x, KernelInv(x), NEW t \in AllThread, NEW r \in WakeReason
    PROVE  /\ KernelInv(SetWakeReason(x, t, r))
           /\ Keeps(SetWakeReason(x, t, r), x)
           /\ SetWakeReason(x, t, r).timer = x.timer
<1> DEFINE n == SetWakeReason(x, t, r)
<1>1. n \in KernelState
  BY DEF KernelInv, KernelState, SetWakeReason, SleepReason
<1>2. SameScheduling(n, x) /\ n.timer = x.timer /\ n.sched_lock = x.sched_lock
  BY DEF KernelInv, KernelState, SetWakeReason, SameScheduling
<1> HIDE DEF n
<1>3. KernelInv(n)
  BY <1>1, <1>2, SameSchedulingInv
<1> QED BY <1>2, <1>3 DEF n, Keeps, SameScheduling

\* Neither is clear_timer(), which disarms the timer of t.
LEMMA ClearTimerInv ==
    ASSUME NEW x, KernelInv(x), NEW t \in AllThread
    PROVE  /\ KernelInv(ClearTimer(x, t))
           /\ Keeps(ClearTimer(x, t), x)
           /\ ~ClearTimer(x, t).timer[t]
           /\ SameScheduling(ClearTimer(x, t), x)
<1> DEFINE n == ClearTimer(x, t)
<1>1. n \in KernelState
  BY DEF KernelInv, KernelState, ClearTimer
<1>2. SameScheduling(n, x) /\ n.sched_lock = x.sched_lock
  BY DEF KernelInv, KernelState, ClearTimer, SameScheduling
<1>3. ~n.timer[t] /\ \A u \in AllThread : n.timer[u] => x.timer[u]
  BY DEF KernelInv, KernelState, ClearTimer
<1> HIDE DEF n
<1>4. KernelInv(n)
  BY <1>1, <1>2, SameSchedulingInv
<1> QED BY <1>2, <1>3, <1>4 DEF n, Keeps, SameScheduling

\* The idle thread never sleeps.
LEMMA SleepInv ==
    ASSUME NEW x, KernelInv(x), x.current # Idle
    PROVE  /\ KernelInv(Sleep(x))
           /\ Keeps(Sleep(x), x)
           /\ ~Runnable(Sleep(x), x.current)
<1> DEFINE t  == x.current
           k1 == StopThread(x, t)
           s  == k1.state[t] \cup {"SLEEPING"}
           n  == Sleep(x)
<1>1. t \in AllThread
  BY DEF KernelInv, KernelState
<1>2. /\ k1 \in KernelState
      /\ SameThreads(k1, x)
      /\ k1.need_reschedule = x.need_reschedule
  BY <1>1, StopThreadFacts
<1>3. QueuesHold(k1, RunnableSet(x) \ {t})
  BY <1>1, StopThreadFacts
<1>4. n = [k1 EXCEPT !.state[t] = s]
  BY DEF Sleep, StopThread
<1> HIDE DEF k1, n, t
<1>5. n \in KernelState
  BY <1>1, <1>2, <1>4 DEF KernelState, StateBit
<1>6. /\ n.run_queue = k1.run_queue
      /\ n.queue_map = k1.queue_map
      /\ n.state = [k1.state EXCEPT ![t] = s]
      /\ n.suspend_count = k1.suspend_count
      /\ n.priority = k1.priority
      /\ n.original_priority = k1.original_priority
      /\ n.current = k1.current
      /\ n.need_reschedule = k1.need_reschedule
      /\ n.sched_lock = k1.sched_lock
      /\ n.timer = k1.timer
      /\ k1.state \in [AllThread -> SUBSET StateBit]
  BY <1>2, <1>4 DEF KernelState
<1>7. OnlyState(n, x, t)
  BY <1>1, <1>2, <1>6 DEF OnlyState, SameThreads, KernelInv, SuspendOK
<1>8. ~Runnable(n, t)
  BY <1>1, <1>6 DEF Runnable, RUNNING
<1>9. KernelInv(n)
  <2>1. QueuesHold(n, RunnableSet(x) \ {t})
    BY <1>6, <1>3, QueuesHoldFrame
  <2> QED BY <1>1, <1>5, <1>7, <1>8, <2>1, StoppedInv DEF t
<1> QED BY <1>2, <1>6, <1>8, <1>9 DEF n, t, Keeps, SameThreads

\* wake() readies a thread that sleeps and leaves any other alone.
LEMMA WakeInv ==
    ASSUME NEW x, KernelInv(x), NEW t \in AllThread
    PROVE  KernelInv(Wake(x, t)) /\ Keeps(Wake(x, t), x)
<1> DEFINE s  == x.state[t] \ SLEEPSET
           k0 == [x EXCEPT !.state[t] = s]
           k1 == LeaveQueue(k0, t)
           n  == ReadyThread(k1, t)
<1>1. CASE x.state[t] \cap SLEEPSET = {}
  <2>1. Wake(x, t) = x
    BY <1>1 DEF Wake
  <2> QED BY <2>1 DEF Keeps
<1>2. CASE x.state[t] \cap SLEEPSET # {}
  <2>1. Wake(x, t) = n
    BY <1>2 DEF Wake, ReadyThread
  <2>2. x \in KernelState /\ x.state[t] \in SUBSET StateBit
    BY DEF KernelInv, KernelState
  <2>3. k0 \in KernelState
    BY <2>2 DEF KernelState, StateBit
  <2>4. /\ k0.run_queue = x.run_queue
        /\ k0.queue_map = x.queue_map
        /\ k0.state = [x.state EXCEPT ![t] = s]
        /\ k0.suspend_count = x.suspend_count
        /\ k0.priority = x.priority
        /\ k0.original_priority = x.original_priority
        /\ k0.current = x.current
        /\ k0.need_reschedule = x.need_reschedule
        /\ k0.sched_lock = x.sched_lock
        /\ k0.timer = x.timer
        /\ x.state \in [AllThread -> SUBSET StateBit]
    BY <2>2 DEF KernelState
  <2> HIDE DEF k0
  <2>5. /\ k1 \in KernelState
        /\ SameThreads(k1, k0)
        /\ k1.run_queue = k0.run_queue
        /\ k1.queue_map = k0.queue_map
        /\ k1.need_reschedule = k0.need_reschedule
    BY <2>3, LeaveQueueFacts
  <2> HIDE DEF k1
  <2>6. OnlyState(k1, x, t)
    BY <2>2, <2>4, <2>5 DEF OnlyState, SameThreads, KernelInv, SuspendOK, SLEEPSET
  <2>7. ~Runnable(x, t)
    BY <1>2 DEF Runnable, RUNNING
  <2>8. KernelInv(n) /\ SameThreads(n, k1)
    BY <2>4, <2>5, <2>6, <2>7, ReadiedInv
  <2>9. Keeps(n, x)
    BY <2>4, <2>5, <2>8 DEF Keeps, SameThreads
  <2> QED BY <2>1, <2>8, <2>9
<1> QED BY <1>1, <1>2

\* Keeps composes along the calls an operation makes.
LEMMA KeepsTransitive ==
    ASSUME NEW x, NEW k1, NEW n, Keeps(k1, x), Keeps(n, k1)
    PROVE  Keeps(n, x)
BY DEF Keeps

\* counted_wake() of a thread in any state.
LEMMA CountedWakeInv ==
    ASSUME NEW x, KernelInv(x), NEW t \in AllThread
    PROVE  KernelInv(CountedWake(x, t)) /\ Keeps(CountedWake(x, t), x)
<1>1. CASE "COUNTSLEEP" \notin x.state[t]
  <2> DEFINE c == x.wakeup_count[t] + 1
             n == [x EXCEPT !.wakeup_count[t] = c]
  <2>1. c \in Nat
    BY DEF KernelInv, KernelState
  <2>2. CountedWake(x, t) = n
    BY <1>1 DEF CountedWake
  <2> HIDE DEF c
  <2>3. n \in KernelState
    BY <2>1 DEF KernelInv, KernelState
  <2>4. SameScheduling(n, x) /\ Keeps(n, x)
    BY DEF KernelInv, KernelState, SameScheduling, Keeps
  <2> HIDE DEF n
  <2> QED BY <2>3, <2>4, <2>2, SameSchedulingInv
<1>2. CASE "COUNTSLEEP" \in x.state[t]
  <2> DEFINE k1 == SetWakeReason(x, t, "DONE")
  <2>1. KernelInv(k1) /\ Keeps(k1, x)
    BY SetWakeReasonInv DEF WakeReason
  <2>2. CountedWake(x, t) = Wake(k1, t)
    BY <1>2 DEF CountedWake
  <2> HIDE DEF k1
  <2> QED BY <2>1, <2>2, WakeInv, KeepsTransitive
<1> QED BY <1>1, <1>2

\* suspend() of any thread but the idle one, whatever its state.
LEMMA SuspendInv ==
    ASSUME NEW x, KernelInv(x), NEW t \in AllThread, t # Idle
    PROVE  KernelInv(Suspend(x, t)) /\ Keeps(Suspend(x, t), x)
<1> DEFINE k1 == StopThread(x, t)
           s  == k1.state[t] \cup {"SUSPENDED"}
           c  == k1.suspend_count[t] + 1
           n  == Suspend(x, t)
<1>1. /\ k1 \in KernelState
      /\ SameThreads(k1, x)
      /\ k1.need_reschedule = x.need_reschedule
      /\ QueuesHold(k1, RunnableSet(x) \ {t})
  BY StopThreadFacts
<1>2. n = [k1 EXCEPT !.suspend_count[t] = c, !.state[t] = s]
  BY DEF Suspend, StopThread
<1> HIDE DEF k1, n
<1>3. s \in SUBSET StateBit /\ c \in Nat /\ c > 0
  BY <1>1 DEF KernelState, StateBit
<1>4. n \in KernelState
  BY <1>1, <1>2, <1>3 DEF KernelState
<1>5. /\ n.run_queue = k1.run_queue
      /\ n.queue_map = k1.queue_map
      /\ n.state = [k1.state EXCEPT ![t] = s]
      /\ n.suspend_count = [k1.suspend_count EXCEPT ![t] = c]
      /\ n.priority = k1.priority
      /\ n.original_priority = k1.original_priority
      /\ n.current = k1.current
      /\ n.need_reschedule = k1.need_reschedule
      /\ n.sched_lock = k1.sched_lock
      /\ n.timer = k1.timer
      /\ k1.state \in [AllThread -> SUBSET StateBit]
      /\ k1.suspend_count \in [AllThread -> Nat]
  BY <1>1, <1>2 DEF KernelState
<1>6. OnlyState(n, x, t)
  BY <1>1, <1>3, <1>5 DEF OnlyState, SameThreads
<1>7. ~Runnable(n, t)
  BY <1>5 DEF Runnable, RUNNING
<1>8. KernelInv(n)
  <2>1. QueuesHold(n, RunnableSet(x) \ {t})
    BY <1>1, <1>5, QueuesHoldFrame
  <2> QED BY <1>4, <1>6, <1>7, <2>1, StoppedInv
<1> QED BY <1>1, <1>5, <1>8 DEF n, Keeps, SameThreads

\* resume() and force_resume() reach this point with a positive count.
LEMMA UnsuspendInv ==
    ASSUME NEW x, KernelInv(x), NEW t \in AllThread, x.suspend_count[t] > 0
    PROVE  /\ KernelInv(Unsuspend(x, t))
           /\ Keeps(Unsuspend(x, t), x)
           /\ Unsuspend(x, t).suspend_count[t] = 0
<1> DEFINE s  == x.state[t] \ {"SUSPENDED"}
           k1 == [x EXCEPT !.suspend_count[t] = 0, !.state[t] = s]
           n  == ReadyThread(k1, t)
<1>1. Unsuspend(x, t) = n
  BY DEF Unsuspend, ReadyThread
<1>2. s \in SUBSET StateBit
  BY DEF KernelInv, KernelState
<1>3. k1 \in KernelState
  BY <1>2 DEF KernelInv, KernelState
<1>4. /\ k1.run_queue = x.run_queue
      /\ k1.queue_map = x.queue_map
      /\ k1.state = [x.state EXCEPT ![t] = s]
      /\ k1.suspend_count = [x.suspend_count EXCEPT ![t] = 0]
      /\ k1.priority = x.priority
      /\ k1.original_priority = x.original_priority
      /\ k1.current = x.current
      /\ k1.need_reschedule = x.need_reschedule
      /\ k1.sched_lock = x.sched_lock
      /\ k1.timer = x.timer
      /\ x.state \in [AllThread -> SUBSET StateBit]
      /\ x.suspend_count \in [AllThread -> Nat]
  BY DEF KernelInv, KernelState
<1> HIDE DEF k1
<1>5. OnlyState(k1, x, t)
  BY <1>4 DEF OnlyState
<1>6. ~Runnable(x, t)
  BY DEF KernelInv, SuspendOK, Runnable, RUNNING
<1>7. KernelInv(n) /\ SameThreads(n, k1)
  BY <1>3, <1>4, <1>5, <1>6, ReadiedInv
<1> QED BY <1>1, <1>4, <1>7 DEF Keeps, SameThreads

\* resume() of a thread with any suspend count.
LEMMA ResumeInv ==
    ASSUME NEW x, KernelInv(x), NEW t \in AllThread
    PROVE  KernelInv(Resume(x, t)) /\ Keeps(Resume(x, t), x)
<1>1. x.suspend_count[t] \in Nat
  BY DEF KernelInv, KernelState
<1>2. CASE x.suspend_count[t] = 1
  BY <1>2, UnsuspendInv DEF Resume
<1>3. CASE x.suspend_count[t] > 1
  <2> DEFINE c == x.suspend_count[t] - 1
             n == [x EXCEPT !.suspend_count[t] = c]
  <2>1. c \in Nat /\ c > 0
    BY <1>1, <1>3
  <2>2. Resume(x, t) = n
    BY <1>1, <1>3 DEF Resume
  <2> HIDE DEF c
  <2>3. n \in KernelState
    BY <2>1 DEF KernelInv, KernelState
  <2>4. /\ n.run_queue = x.run_queue
        /\ n.queue_map = x.queue_map
        /\ n.state = x.state
        /\ n.suspend_count = [x.suspend_count EXCEPT ![t] = c]
        /\ n.priority = x.priority
        /\ n.original_priority = x.original_priority
        /\ n.current = x.current
        /\ n.need_reschedule = x.need_reschedule
        /\ n.sched_lock = x.sched_lock
        /\ n.timer = x.timer
        /\ x.suspend_count \in [AllThread -> Nat]
    BY DEF KernelInv, KernelState
  <2> HIDE DEF n
  <2>5. "SUSPENDED" \in x.state[t] /\ ~Runnable(x, t)
    BY <1>1, <1>3 DEF KernelInv, SuspendOK, Runnable, RUNNING
  <2>6. ~Runnable(n, t) /\ t # Idle
    BY <2>4, <2>5 DEF Runnable, KernelInv, IdleOK
  <2>7. OnlyState(n, x, t)
    BY <2>1, <2>4, <2>5 DEF OnlyState
  <2>8. KernelInv(ReadyThread(n, t))
    BY <2>3, <2>4, <2>5, <2>7, ReadiedInv
  <2>9. ReadyThread(n, t) = n
    BY <2>6 DEF ReadyThread
  <2> QED BY <2>4, <2>2, <2>8, <2>9 DEF Keeps
<1>4. CASE x.suspend_count[t] = 0
  BY <1>4 DEF Resume, Keeps
<1> QED BY <1>1, <1>2, <1>3, <1>4

\* force_resume() leaves the count at zero.
LEMMA ForceResumeInv ==
    ASSUME NEW x, KernelInv(x), NEW t \in AllThread
    PROVE  /\ KernelInv(ForceResume(x, t))
           /\ Keeps(ForceResume(x, t), x)
           /\ ForceResume(x, t).suspend_count[t] = 0
<1>1. x.suspend_count[t] \in Nat
  BY DEF KernelInv, KernelState
<1>2. CASE x.suspend_count[t] > 0
  BY <1>2, UnsuspendInv DEF ForceResume
<1>3. CASE ~(x.suspend_count[t] > 0)
  BY <1>1, <1>3 DEF ForceResume, Keeps
<1> QED BY <1>2, <1>3

\* release() of a thread in any state.
LEMMA ReleaseInv ==
    ASSUME NEW x, KernelInv(x), NEW t \in AllThread
    PROVE  KernelInv(Release(x, t)) /\ Keeps(Release(x, t), x)
<1> DEFINE k1 == SetWakeReason(x, t, "BREAK")
<1>1. KernelInv(k1) /\ Keeps(k1, x)
  BY SetWakeReasonInv DEF WakeReason
<1>2. Release(x, t) = IF x.sleep_reason[t] = "NONE" THEN x ELSE Wake(k1, t)
  BY DEF Release
<1> HIDE DEF k1
<1>3. KernelInv(Wake(k1, t)) /\ Keeps(Wake(k1, t), x)
  BY <1>1, WakeInv, KeepsTransitive
<1> QED BY <1>2, <1>3 DEF Keeps

\* The timer of t is disarmed when its alarm function has run.
LEMMA ThreadTimerAlarmInv ==
    ASSUME NEW x, KernelInv(x), NEW t \in AllThread
    PROVE  /\ KernelInv(ThreadTimerAlarm(x, t))
           /\ Keeps(ThreadTimerAlarm(x, t), x)
           /\ ~ThreadTimerAlarm(x, t).timer[t]
<1> DEFINE k1 == ClearTimer(x, t)
           kd == SetWakeReason(k1, t, "DONE")
           kt == SetWakeReason(k1, t, "TIMEOUT")
           n  == ThreadTimerAlarm(x, t)
<1>1. KernelInv(k1) /\ Keeps(k1, x) /\ ~k1.timer[t]
  BY ClearTimerInv
<1>2. n \in {Wake(kd, t), Wake(kt, t), k1}
  BY DEF ThreadTimerAlarm
<1> HIDE DEF k1, n
<1>3. KernelInv(kd) /\ Keeps(kd, k1) /\ KernelInv(kt) /\ Keeps(kt, k1)
  BY <1>1, SetWakeReasonInv DEF WakeReason
<1> HIDE DEF kd, kt
<1>4. KernelInv(n) /\ Keeps(n, k1)
  <2>1. KernelInv(Wake(kd, t)) /\ Keeps(Wake(kd, t), k1)
    BY <1>3, WakeInv, KeepsTransitive
  <2>2. KernelInv(Wake(kt, t)) /\ Keeps(Wake(kt, t), k1)
    BY <1>3, WakeInv, KeepsTransitive
  <2>3. Keeps(k1, k1)
    BY DEF Keeps
  <2> QED BY <1>1, <1>2, <2>1, <2>2, <2>3
<1> QED BY <1>1, <1>4, KeepsTransitive DEF n, Keeps

\* set_timer(): the current thread's timer is armed, or it has already fired
\* and left its mark in wake_reason.
LEMMA SetTimerInv ==
    ASSUME NEW x, KernelInv(x), NEW r \in SleepReason, NEW past \in BOOLEAN
    PROVE  /\ KernelInv(SetTimer(x, r, past))
           /\ SetTimer(x, r, past).current = x.current
           /\ SetTimer(x, r, past).sched_lock = x.sched_lock
           /\ \A u \in AllThread \ {x.current} :
                 SetTimer(x, r, past).timer[u] => x.timer[u]
           /\ SetTimer(x, r, past).wake_reason[x.current] # "NONE" =>
                 ~SetTimer(x, r, past).timer[x.current]
<1> DEFINE t  == x.current
           k0 == SetSleepReason(x, r)
           k1 == [k0 EXCEPT !.timer[t] = TRUE]
           n  == SetTimer(x, r, past)
<1>1. t \in AllThread
  BY DEF KernelInv, KernelState
<1>2. KernelInv(k0) /\ Keeps(k0, x)
  BY SetSleepReasonInv
<1>3. k0.wake_reason[t] = "NONE"
  BY <1>1 DEF SetSleepReason, KernelInv, KernelState
<1>4. n = IF past THEN ThreadTimerAlarm(k1, t) ELSE k1
  BY DEF SetTimer
<1> HIDE DEF k0, n, t
<1>5. k1 \in KernelState
  BY <1>1, <1>2 DEF KernelInv, KernelState
<1>6. /\ SameScheduling(k1, k0)
      /\ k1.sched_lock = k0.sched_lock
      /\ k1.wake_reason = k0.wake_reason
      /\ k1.timer = [k0.timer EXCEPT ![t] = TRUE]
      /\ k0.timer \in [AllThread -> BOOLEAN]
  BY <1>1, <1>2 DEF KernelInv, KernelState, SameScheduling
<1> HIDE DEF k1
<1>7. KernelInv(k1)
  BY <1>2, <1>5, <1>6, SameSchedulingInv
<1>8. /\ k1.current = t
      /\ k1.sched_lock = x.sched_lock
      /\ \A u \in AllThread \ {t} : k1.timer[u] => x.timer[u]
  BY <1>2, <1>6 DEF Keeps, SameScheduling, t
<1>9. CASE past
  BY <1>1, <1>4, <1>7, <1>8, <1>9, ThreadTimerAlarmInv DEF Keeps, t, n
<1>10. CASE ~past
  BY <1>3, <1>4, <1>6, <1>7, <1>8, <1>10 DEF t, n
<1> QED BY <1>9, <1>10

\* exit() by the current thread.
LEMMA ExitInv ==
    ASSUME NEW x, KernelInv(x), x.current # Idle, Runnable(x, x.current)
    PROVE  /\ KernelInv(Exit(x))
           /\ Keeps(Exit(x), x)
           /\ ~Exit(x).timer[x.current]
<1> DEFINE t  == x.current
           k1 == ClearTimer(x, t)
           k2 == [k1 EXCEPT !.state[t] = {"EXITED"}]
           n  == Exit(x)
<1>1. t \in AllThread
  BY DEF KernelInv, KernelState
<1>2. KernelInv(k1) /\ Keeps(k1, x) /\ ~k1.timer[t] /\ SameScheduling(k1, x)
  BY <1>1, ClearTimerInv
<1>3. n = RemThread(k2, t)
  BY DEF Exit, Runnable, RUNNING
<1> HIDE DEF k1, n, t
<1>4. k2 \in KernelState
  BY <1>1, <1>2 DEF KernelInv, KernelState, StateBit
<1>5. /\ k2.run_queue = k1.run_queue
      /\ k2.queue_map = k1.queue_map
      /\ k2.state = [k1.state EXCEPT ![t] = {"EXITED"}]
      /\ k2.suspend_count = k1.suspend_count
      /\ k2.priority = k1.priority
      /\ k2.original_priority = k1.original_priority
      /\ k2.current = k1.current
      /\ k2.need_reschedule = k1.need_reschedule
      /\ k2.sched_lock = k1.sched_lock
      /\ k2.timer = k1.timer
      /\ k1.state \in [AllThread -> SUBSET StateBit]
      /\ k1.suspend_count \in [AllThread -> Nat]
  BY <1>2 DEF KernelInv, KernelState
<1> HIDE DEF k2
<1>6. QueuesHold(k2, RunnableSet(k1))
  BY <1>2, <1>5, RunQueuesAsHold, QueuesHoldFrame DEF KernelInv
<1>7. /\ n \in KernelState
      /\ QueuesHold(n, RunnableSet(k1) \ {t})
      /\ SameThreads(n, k2)
      /\ n.need_reschedule = k2.need_reschedule
  BY <1>1, <1>3, <1>4, <1>6, RemThreadFacts
<1>8. k1.state[t] = {} /\ k1.suspend_count[t] = 0
  <2>1. k1.state[t] = {}
    BY <1>2 DEF SameScheduling, Runnable, RUNNING, t
  <2> QED BY <1>1, <1>2, <1>5, <2>1 DEF KernelInv, SuspendOK
<1>9. OnlyState(n, k1, t)
  BY <1>1, <1>5, <1>7, <1>8 DEF OnlyState, SameThreads
<1>10. ~Runnable(n, t)
  BY <1>1, <1>5, <1>7 DEF Runnable, RUNNING, SameThreads
<1>11. KernelInv(n)
  BY <1>1, <1>2, <1>7, <1>9, <1>10, StoppedInv DEF t
<1>12. Keeps(n, k1)
  BY <1>5, <1>7 DEF Keeps, SameThreads
<1> QED BY <1>1, <1>2, <1>11, <1>12, KeepsTransitive DEF n, t, Keeps

\* kill() of another thread.
LEMMA KillInv ==
    ASSUME NEW x, KernelInv(x), NEW t \in AllThread, t # Idle
    PROVE  KernelInv(Kill(x, t)) /\ Keeps(Kill(x, t), x)
<1> DEFINE k0 == ForceResume(x, t)
           k1 == ClearTimer(k0, t)
           k2 == StopThread(k1, t)
           kd == [k2 EXCEPT !.state[t] = {"EXITED"}]
           kw == SetWakeReason(k1, t, "EXIT")
           n  == Kill(x, t)
<1>1. KernelInv(k0) /\ Keeps(k0, x) /\ k0.suspend_count[t] = 0
  BY ForceResumeInv
<1>2. n \in {Wake(k1, t), kd, Wake(kw, t)}
  BY DEF Kill, StopThread
<1> HIDE DEF k0, n
<1>3. KernelInv(k1) /\ Keeps(k1, x) /\ k1.suspend_count[t] = 0
  BY <1>1, ClearTimerInv, KeepsTransitive DEF SameScheduling
<1> HIDE DEF k1
<1>4. KernelInv(Wake(k1, t)) /\ Keeps(Wake(k1, t), x)
  BY <1>3, WakeInv, KeepsTransitive
<1>5. KernelInv(Wake(kw, t)) /\ Keeps(Wake(kw, t), x)
  <2>1. KernelInv(kw) /\ Keeps(kw, k1)
    BY <1>3, SetWakeReasonInv DEF WakeReason
  <2> HIDE DEF kw
  <2> QED BY <1>3, <2>1, WakeInv, KeepsTransitive
<1>6. KernelInv(kd) /\ Keeps(kd, x)
  <2>1. /\ k2 \in KernelState
        /\ QueuesHold(k2, RunnableSet(k1) \ {t})
        /\ SameThreads(k2, k1)
        /\ k2.need_reschedule = k1.need_reschedule
    BY <1>3, StopThreadFacts
  <2> HIDE DEF k2
  <2>2. kd \in KernelState
    BY <2>1 DEF KernelState, StateBit
  <2>3. /\ kd.run_queue = k2.run_queue
        /\ kd.queue_map = k2.queue_map
        /\ kd.state = [k2.state EXCEPT ![t] = {"EXITED"}]
        /\ kd.suspend_count = k2.suspend_count
        /\ kd.priority = k2.priority
        /\ kd.original_priority = k2.original_priority
        /\ kd.current = k2.current
        /\ kd.need_reschedule = k2.need_reschedule
        /\ kd.sched_lock = k2.sched_lock
        /\ kd.timer = k2.timer
        /\ k2.state \in [AllThread -> SUBSET StateBit]
    BY <2>1 DEF KernelState
  <2> HIDE DEF kd
  <2>4. QueuesHold(kd, RunnableSet(k1) \ {t})
    BY <2>1, <2>3, QueuesHoldFrame
  <2>5. OnlyState(kd, k1, t)
    BY <1>3, <2>1, <2>3 DEF OnlyState, SameThreads
  <2>6. ~Runnable(kd, t)
    BY <2>3 DEF Runnable, RUNNING
  <2>7. Keeps(kd, k1)
    BY <2>1, <2>3 DEF Keeps, SameThreads
  <2> QED BY <1>3, <2>2, <2>4, <2>5, <2>6, <2>7, StoppedInv, KeepsTransitive
<1> QED BY <1>2, <1>4, <1>5, <1>6 DEF n

-----------------------------------------------------------------------------
(* Priorities *)

\* Cyg_Thread::set_priority, to a priority above the idle thread's.
LEMMA SetPriorityInv ==
    ASSUME NEW x, KernelInv(x), NEW t \in AllThread, t # Idle,
           NEW p \in UserPriority
    PROVE  KernelInv(SetPriority(x, t, p)) /\ Keeps(SetPriority(x, t, p), x)
<1> DEFINE inherited == x.priority_inherited[t]
           sleeping  == "SLEEPING" \in x.state[t]
           k1 == IF Runnable(x, t) THEN RemThread(x, t)
                 ELSE IF sleeping THEN LeaveQueue(x, t) ELSE x
           po == IF inherited THEN p ELSE k1.original_priority[t]
           pp == IF inherited /\ k1.priority[t] <= p THEN k1.priority[t] ELSE p
           k2 == [k1 EXCEPT !.original_priority[t] = po, !.priority[t] = pp]
           wq == [q \in WaitQueue |->
                    IF q \in OnQueue(x, t) THEN Append(k2.wait_queue[q], t)
                    ELSE k2.wait_queue[q]]
           k3 == IF Runnable(x, t) THEN AddThread(k2, t)
                 ELSE IF sleeping THEN [k2 EXCEPT !.wait_queue = wq]
                 ELSE k2
           n  == SetPriority(x, t, p)
<1>1. n = IF t = x.current THEN [k3 EXCEPT !.need_reschedule = TRUE]
          ELSE SetNeedReschedule(k3, t)
  BY DEF SetPriority
<1> HIDE DEF n
<1>2. x \in KernelState /\ QueuesHold(x, RunnableSet(x))
  BY RunQueuesAsHold DEF KernelInv
<1> DEFINE R == RunnableSet(x) \ {t}
<1>3. /\ k1 \in KernelState
      /\ QueuesHold(k1, R)
      /\ SameThreads(k1, x)
      /\ k1.need_reschedule = x.need_reschedule
  <2>1. CASE Runnable(x, t)
    BY <1>2, <2>1, RemThreadFacts
  <2>2. CASE ~Runnable(x, t)
    <3>1. R = RunnableSet(x)
      BY <2>2 DEF RunnableSet
    <3>2. CASE sleeping
      <4>1. k1 = LeaveQueue(x, t)
        BY <2>2, <3>2
      <4> HIDE DEF k1
      <4>2. /\ k1 \in KernelState
            /\ SameThreads(k1, x)
            /\ k1.run_queue = x.run_queue
            /\ k1.queue_map = x.queue_map
            /\ k1.need_reschedule = x.need_reschedule
        BY <1>2, <4>1, LeaveQueueFacts
      <4>3. QueuesHold(k1, R)
        BY <1>2, <3>1, <4>2, QueuesHoldFrame DEF SameThreads
      <4> QED BY <4>2, <4>3
    <3>3. CASE ~sleeping
      BY <1>2, <2>2, <3>1, <3>3 DEF SameThreads
    <3> QED BY <3>2, <3>3
  <2> QED BY <2>1, <2>2
<1> HIDE DEF k1
<1>4. /\ po \in Priority /\ po # MinPriority
      /\ pp \in Priority /\ pp # MinPriority
  <2>1. p \in Priority /\ p # MinPriority
    BY KernelAssumption DEF Priority, UserPriority
  <2>2. /\ x.original_priority[t] \in Priority /\ x.original_priority[t] # MinPriority
        /\ x.priority[t] \in Priority /\ x.priority[t] # MinPriority
    BY <1>2 DEF KernelState, KernelInv, IdleOK
  <2> QED BY <1>3, <2>1, <2>2 DEF SameThreads
<1> HIDE DEF po, pp
<1>5. k2 \in KernelState
  BY <1>3, <1>4 DEF KernelState
<1>6. /\ k2.run_queue = k1.run_queue
      /\ k2.queue_map = k1.queue_map
      /\ k2.state = k1.state
      /\ k2.suspend_count = k1.suspend_count
      /\ k2.priority = [k1.priority EXCEPT ![t] = pp]
      /\ k2.original_priority = [k1.original_priority EXCEPT ![t] = po]
      /\ k2.current = k1.current
      /\ k2.need_reschedule = k1.need_reschedule
      /\ k2.sched_lock = k1.sched_lock
      /\ k2.timer = k1.timer
      /\ k1.priority \in [AllThread -> Priority]
      /\ k1.original_priority \in [AllThread -> Priority]
  BY <1>3 DEF KernelState
<1> HIDE DEF k2
<1>7. QueuesHold(k2, R)
  <2>1. \A u \in R : k2.priority[u] = k1.priority[u]
    BY <1>6 DEF RunnableSet
  <2> HIDE DEF R
  <2>2. /\ QueuesHold(k1, R)
        /\ k2.run_queue = k1.run_queue
        /\ k2.queue_map = k1.queue_map
    BY <1>3, <1>6
  <2> QED BY <2>1, <2>2, QueuesHoldFrame
<1>8. RunnableSet(k2) = RunnableSet(x)
  BY <1>3, <1>6 DEF SameThreads, RunnableSet, Runnable
<1>9. /\ k3 \in KernelState
      /\ QueuesHold(k3, RunnableSet(x))
      /\ SameThreads(k3, k2)
      /\ ~k3.need_reschedule => ~k2.need_reschedule
  <2>1. CASE Runnable(x, t)
    <3>1. RunnableSet(x) = R \cup {t} /\ t \notin R
      BY <2>1 DEF RunnableSet
    <3>2. k3 = AddThread(k2, t)
      BY <2>1
    <3> HIDE DEF k3, R
    <3> QED BY <1>5, <1>7, <3>1, <3>2, AddThreadFacts
  <2>2. CASE ~Runnable(x, t)
    <3>1. R = RunnableSet(x)
      BY <2>2 DEF RunnableSet
    <3>2. CASE sleeping
      <4>1. k3 = [k2 EXCEPT !.wait_queue = wq]
        BY <2>2, <3>2
      <4>2. wq \in [WaitQueue -> Seq(AllThread)]
        BY <1>5 DEF KernelState
      <4> HIDE DEF k3, wq
      <4>3. k3 \in KernelState
        BY <1>5, <4>1, <4>2 DEF KernelState
      <4>4. /\ SameThreads(k3, k2)
            /\ k3.run_queue = k2.run_queue
            /\ k3.queue_map = k2.queue_map
            /\ k3.need_reschedule = k2.need_reschedule
        BY <1>5, <4>1 DEF KernelState, SameThreads
      <4>5. QueuesHold(k3, RunnableSet(x))
        BY <1>7, <3>1, <4>4, QueuesHoldFrame DEF SameThreads
      <4> QED BY <4>3, <4>4, <4>5
    <3>3. CASE ~sleeping
      BY <1>5, <1>7, <2>2, <3>1, <3>3 DEF SameThreads
    <3> QED BY <3>2, <3>3
  <2> QED BY <2>1, <2>2
<1> HIDE DEF k3, R
<1>10. /\ n \in KernelState
       /\ SameThreads(n, k3)
       /\ n.run_queue = k3.run_queue
       /\ n.queue_map = k3.queue_map
       /\ ~n.need_reschedule =>
             /\ t # x.current
             /\ ~k3.need_reschedule
             /\ k3.priority[k3.current] <= k3.priority[t]
  <2>1. CASE t = x.current
    <3>1. n = [k3 EXCEPT !.need_reschedule = TRUE]
      BY <1>1, <2>1
    <3>2. n \in KernelState
      BY <1>9, <3>1 DEF KernelState
    <3> QED BY <1>9, <3>1, <3>2 DEF KernelState, SameThreads
  <2>2. CASE t # x.current
    BY <1>1, <1>9, <2>2, SetNeedRescheduleFacts
  <2> QED BY <2>1, <2>2
<1>11. SameThreads(n, k2)
  BY <1>9, <1>10 DEF SameThreads
<1>12. QueuesHold(n, RunnableSet(n))
  <2>1. RunnableSet(n) = RunnableSet(x)
    BY <1>8, <1>11 DEF SameThreads, RunnableSet, Runnable
  <2> QED BY <1>9, <1>10, <2>1, QueuesHoldFrame DEF SameThreads
<1>13. IdleOK(n)
  <2>1. \A u \in AllThread \ {t} :
           /\ n.state[u] = x.state[u]
           /\ n.priority[u] = x.priority[u]
           /\ n.original_priority[u] = x.original_priority[u]
    BY <1>3, <1>6, <1>11 DEF SameThreads
  <2>2. n.priority[t] # MinPriority /\ n.original_priority[t] # MinPriority
    BY <1>4, <1>6, <1>11 DEF SameThreads
  <2> QED BY <2>1, <2>2 DEF KernelInv, IdleOK, Runnable
<1>14. SuspendOK(n)
  BY <1>3, <1>6, <1>11 DEF SameThreads, KernelInv, SuspendOK
<1>15. ReschedulePending(n)
  <2> SUFFICES ASSUME ~n.need_reschedule, NEW u \in AllThread, Runnable(n, u)
               PROVE  n.priority[n.current] <= n.priority[u]
    BY DEF ReschedulePending
  <2>1. t # x.current /\ ~x.need_reschedule /\ n.current = x.current
    BY <1>3, <1>6, <1>9, <1>10, <1>11 DEF SameThreads
  <2>2. CASE u = t
    BY <1>10, <2>2 DEF SameThreads
  <2>3. CASE u # t
    <3>1. Runnable(x, u)
      BY <1>3, <1>6, <1>11 DEF SameThreads, Runnable
    <3>2. n.priority[u] = x.priority[u] /\ n.priority[n.current] = x.priority[x.current]
      BY <1>2, <1>3, <1>6, <1>11, <2>1, <2>3 DEF SameThreads, KernelState
    <3> QED BY <2>1, <3>1, <3>2 DEF KernelInv, ReschedulePending
  <2> QED BY <2>2, <2>3
<1>16. Keeps(n, x)
  BY <1>3, <1>6, <1>11 DEF SameThreads, Keeps
<1>17. KernelInv(n)
  BY <1>10, <1>12, <1>13, <1>14, <1>15, RunQueuesAsHold DEF KernelInv
<1> QED BY <1>16, <1>17 DEF n

-----------------------------------------------------------------------------
(* Rotating the run queues *)

\* yield() keeps the run queues consistent.
LEMMA YieldInv ==
    ASSUME NEW x, KernelInv(x)
    PROVE  KernelInv(Yield(x)) /\ Keeps(Yield(x), x)
<1> DEFINE t  == x.current
           p  == x.priority[t]
           q  == Rotate(x.run_queue[p])
           nr == x.need_reschedule \/ Head(q) # t
           ts == IF Head(q) # t THEN x.timeslice[t] ELSE TimesliceTicks
           n  == [x EXCEPT !.run_queue[p] = q,
                           !.need_reschedule = nr,
                           !.timeslice[t] = ts]
<1>1. CASE Runnable(x, t)
  <2>1. Yield(x) = n
    BY <1>1 DEF Yield
  <2>2. /\ p \in Priority
        /\ q \in Seq(AllThread)
        /\ ts \in 0..(CountMod - 1)
        /\ nr \in BOOLEAN
        /\ x.need_reschedule => nr
    BY RotateFacts, KernelAssumption DEF KernelInv, KernelState
  <2> HIDE DEF q, nr, ts, p
  <2>3. n \in KernelState
    BY <2>2 DEF KernelInv, KernelState
  <2>4. /\ n.run_queue = [x.run_queue EXCEPT ![p] = q]
        /\ n.queue_map = x.queue_map
        /\ SameThreads(n, x)
        /\ n.need_reschedule = nr
    BY DEF KernelInv, KernelState, SameThreads
  <2> HIDE DEF n
  <2>5. KernelInv(n)
    BY <2>2, <2>3, <2>4, RotatedInv DEF q
  <2> QED BY <2>1, <2>4, <2>5 DEF SameThreads, Keeps
<1>2. CASE ~Runnable(x, t)
  BY <1>2 DEF Yield, Keeps
<1> QED BY <1>1, <1>2

\* rotate_queue() keeps the run queues consistent.
LEMMA RotateQueueInv ==
    ASSUME NEW x, KernelInv(x), NEW p \in Priority
    PROVE  KernelInv(RotateQueue(x, p)) /\ Keeps(RotateQueue(x, p), x)
<1> DEFINE q == Rotate(x.run_queue[p])
           n == [x EXCEPT !.run_queue[p] = q, !.need_reschedule = TRUE]
<1>1. CASE x.run_queue[p] # <<>>
  <2>1. RotateQueue(x, p) = n
    BY <1>1 DEF RotateQueue
  <2>2. q \in Seq(AllThread)
    BY RotateFacts DEF KernelInv, KernelState
  <2> HIDE DEF q
  <2>3. n \in KernelState
    BY <2>2 DEF KernelInv, KernelState
  <2>4. /\ n.run_queue = [x.run_queue EXCEPT ![p] = q]
        /\ n.queue_map = x.queue_map
        /\ SameThreads(n, x)
        /\ n.need_reschedule
    BY DEF KernelInv, KernelState, SameThreads
  <2> HIDE DEF n
  <2>5. KernelInv(n)
    BY <2>3, <2>4, RotatedInv DEF q
  <2> QED BY <2>1, <2>4, <2>5 DEF SameThreads, Keeps
<1>2. CASE x.run_queue[p] = <<>>
  BY <1>2 DEF RotateQueue, Keeps
<1> QED BY <1>1, <1>2

\* timeslice_cpu() keeps the run queues consistent.
LEMMA TimesliceCpuInv ==
    ASSUME NEW x, KernelInv(x)
    PROVE  KernelInv(TimesliceCpu(x)) /\ Keeps(TimesliceCpu(x), x)
<1> DEFINE t  == x.current
           p  == x.priority[t]
           q  == Rotate(x.run_queue[p])
           nr == x.need_reschedule \/ Head(q) # t
           n  == [x EXCEPT !.run_queue[p] = q,
                           !.need_reschedule = nr,
                           !.timeslice_count = TimesliceTicks]
<1>1. CASE Runnable(x, t)
  <2>1. TimesliceCpu(x) = n
    BY <1>1 DEF TimesliceCpu
  <2>2. /\ p \in Priority
        /\ q \in Seq(AllThread)
        /\ TimesliceTicks \in 0..(CountMod - 1)
        /\ nr \in BOOLEAN
        /\ x.need_reschedule => nr
    BY RotateFacts, KernelAssumption DEF KernelInv, KernelState
  <2> HIDE DEF q, nr, p
  <2>3. n \in KernelState
    BY <2>2 DEF KernelInv, KernelState
  <2>4. /\ n.run_queue = [x.run_queue EXCEPT ![p] = q]
        /\ n.queue_map = x.queue_map
        /\ SameThreads(n, x)
        /\ n.need_reschedule = nr
    BY DEF KernelInv, KernelState, SameThreads
  <2> HIDE DEF n
  <2>5. KernelInv(n)
    BY <2>2, <2>3, <2>4, RotatedInv DEF q
  <2> QED BY <2>1, <2>4, <2>5 DEF SameThreads, Keeps
<1>2. CASE ~Runnable(x, t)
  BY <1>2 DEF TimesliceCpu, Keeps
<1> QED BY <1>1, <1>2

\* timeslice() keeps its count within 32 bits and the run queues consistent.
LEMMA TimesliceInv ==
    ASSUME NEW x, KernelInv(x)
    PROVE  KernelInv(Timeslice(x)) /\ Keeps(Timeslice(x), x)
<1> DEFINE c  == (x.timeslice_count + CountMod - 1) % CountMod
           k1 == [x EXCEPT !.timeslice_count = c]
<1>1. Timeslice(x) = IF c = 0 THEN TimesliceCpu(k1) ELSE k1
  BY DEF Timeslice
<1>2. c \in 0..(CountMod - 1)
  <2>1. /\ x.timeslice_count + CountMod - 1 \in Int
        /\ CountMod \in Nat \ {0}
    BY KernelAssumption DEF KernelInv, KernelState
  <2> QED BY <2>1
<1> HIDE DEF c
<1>3. k1 \in KernelState
  BY <1>2 DEF KernelInv, KernelState
<1>4. SameScheduling(k1, x) /\ Keeps(k1, x)
  BY DEF KernelInv, KernelState, SameScheduling, Keeps
<1> HIDE DEF k1
<1>5. KernelInv(k1)
  BY <1>3, <1>4, SameSchedulingInv
<1> QED BY <1>1, <1>4, <1>5, TimesliceCpuInv, KeepsTransitive

-----------------------------------------------------------------------------
(* Choosing a thread and switching to it *)

\* schedule() finds a runnable thread that no runnable thread beats.
LEMMA ScheduleFacts ==
    ASSUME NEW x, KernelInv(x)
    PROVE  /\ Schedule(x) \in AllThread
           /\ Runnable(x, Schedule(x))
           /\ \A u \in AllThread :
                 Runnable(x, u) => x.priority[Schedule(x)] <= x.priority[u]
<1> DEFINE p == Min(x.queue_map)
           s == x.run_queue[p]
<1>1. /\ QueuesHold(x, RunnableSet(x))
      /\ x.run_queue \in [Priority -> Seq(AllThread)]
      /\ x.priority \in [AllThread -> Priority]
  BY RunQueuesAsHold DEF KernelInv, KernelState
<1>2. ASSUME NEW u \in AllThread, Runnable(x, u)
      PROVE  x.priority[u] \in x.queue_map
  <2>1. /\ x.priority[u] \in Priority
        /\ u \in Range(x.run_queue[x.priority[u]])
        /\ x.run_queue[x.priority[u]] \in Seq(AllThread)
    BY <1>1, <1>2 DEF QueuesHold, RunnableSet
  <2>2. x.run_queue[x.priority[u]] # <<>>
    BY <2>1, HeadFacts
  <2> QED BY <1>1, <2>1, <2>2 DEF QueuesHold
<1>3. x.queue_map \subseteq Nat /\ x.queue_map # {}
  <2>1. x.queue_map \subseteq Nat
    BY <1>1, KernelAssumption DEF QueuesHold, Priority
  <2>2. Idle \in AllThread /\ Runnable(x, Idle)
    BY DEF AllThread, KernelInv, IdleOK
  <2> QED BY <1>2, <2>1, <2>2
<1>4. p \in x.queue_map /\ \A r \in x.queue_map : p <= r
  BY <1>3, MinOfNats
<1> HIDE DEF p
<1>5. Head(s) \in AllThread /\ Runnable(x, Head(s)) /\ x.priority[Head(s)] = p
  <2>1. p \in Priority /\ s \in Seq(AllThread) /\ s # <<>>
    BY <1>1, <1>4 DEF QueuesHold
  <2>2. Head(s) \in Range(s)
    BY <2>1, HeadFacts
  <2> QED BY <1>1, <2>1, <2>2 DEF QueuesHold, RunnableSet
<1>6. Schedule(x) = Head(s)
  BY DEF Schedule, p
<1> QED BY <1>2, <1>4, <1>5, <1>6

\* Making n the current thread with no reschedule pending.
LEMMA SwitchedInv ==
    ASSUME NEW x, KernelInv(x), NEW n \in KernelState,
           n.state = x.state, n.suspend_count = x.suspend_count,
           n.priority = x.priority, n.original_priority = x.original_priority,
           n.run_queue = x.run_queue, n.queue_map = x.queue_map,
           n.current = Schedule(x), ~n.need_reschedule
    PROVE  KernelInv(n) /\ CurrentOK(n)
<1>1. RunnableSet(n) = RunnableSet(x)
  BY DEF RunnableSet, Runnable
<1>2. QueuesHold(n, RunnableSet(n))
  BY <1>1, RunQueuesAsHold, QueuesHoldFrame DEF KernelInv
<1>3. IdleOK(n) /\ SuspendOK(n)
  BY DEF KernelInv, IdleOK, SuspendOK, Runnable
<1>4. Runnable(n, n.current) /\ ReschedulePending(n)
  BY ScheduleFacts DEF ReschedulePending, Runnable
<1> QED BY <1>2, <1>3, <1>4, RunQueuesAsHold DEF KernelInv, CurrentOK, ReschedulePending

\* unlock_inner() leaves the CPU with a runnable thread that none beats.
LEMMA UnlockInnerInv ==
    ASSUME NEW x, KernelInv(x)
    PROVE  /\ KernelInv(UnlockInner(x))
           /\ CurrentOK(UnlockInner(x))
           /\ UnlockInner(x).timer = x.timer
<1> DEFINE after == IF x.sched_lock = "resched" THEN "inner" ELSE "thread"
           n  == UnlockInner(x)
           t  == Schedule(x)
           c  == x.current
           k1 == [x EXCEPT !.sched_lock = after]
           k2 == [x EXCEPT !.need_reschedule = FALSE, !.sched_lock = after]
           k3 == [x EXCEPT !.current = t,
                           !.need_reschedule = FALSE,
                           !.context[c] = after,
                           !.sched_lock = x.context[t],
                           !.timeslice[c] = x.timeslice_count,
                           !.timeslice_count = x.timeslice[t]]
<1>1. after \in Context /\ after \in SchedLock
  BY DEF Context, SchedLock
<1>2. n = IF Runnable(x, c) /\ ~x.need_reschedule THEN k1
          ELSE IF t = c THEN k2 ELSE k3
  BY DEF UnlockInner, SwitchTo
<1> HIDE DEF after, n, t, c
<1>3. t \in AllThread /\ c \in AllThread /\ x \in KernelState
  BY ScheduleFacts DEF t, c, KernelInv, KernelState
<1>4. CASE Runnable(x, c) /\ ~x.need_reschedule
  <2>1. k1 \in KernelState
    BY <1>1, <1>3 DEF KernelState
  <2>2. SameScheduling(k1, x) /\ k1.timer = x.timer
    BY <1>3 DEF KernelState, SameScheduling
  <2> HIDE DEF k1
  <2>3. KernelInv(k1)
    BY <2>1, <2>2, SameSchedulingInv
  <2>4. CurrentOK(k1)
    BY <1>4, <2>2, <2>3 DEF SameScheduling, CurrentOK, KernelInv,
                            ReschedulePending, Runnable, c
  <2> QED BY <1>2, <1>4, <2>2, <2>3, <2>4 DEF n
<1>5. CASE ~(Runnable(x, c) /\ ~x.need_reschedule) /\ t = c
  <2>1. k2 \in KernelState
    BY <1>1, <1>3 DEF KernelState
  <2>2. /\ k2.state = x.state /\ k2.suspend_count = x.suspend_count
        /\ k2.priority = x.priority /\ k2.original_priority = x.original_priority
        /\ k2.run_queue = x.run_queue /\ k2.queue_map = x.queue_map
        /\ k2.current = c /\ ~k2.need_reschedule
        /\ k2.timer = x.timer
    BY <1>3 DEF KernelState, c
  <2> HIDE DEF k2
  <2> QED BY <1>2, <1>5, <2>1, <2>2, SwitchedInv DEF n, t
<1>6. CASE ~(Runnable(x, c) /\ ~x.need_reschedule) /\ t # c
  <2>1. k3 \in KernelState
    BY <1>1, <1>3 DEF KernelState, Context, SchedLock
  <2>2. /\ k3.state = x.state /\ k3.suspend_count = x.suspend_count
        /\ k3.priority = x.priority /\ k3.original_priority = x.original_priority
        /\ k3.run_queue = x.run_queue /\ k3.queue_map = x.queue_map
        /\ k3.current = t /\ ~k3.need_reschedule
        /\ k3.timer = x.timer
    BY <1>3 DEF KernelState
  <2> HIDE DEF k3
  <2> QED BY <1>2, <1>6, <2>1, <2>2, SwitchedInv DEF n, t
<1> QED BY <1>4, <1>5, <1>6

\* start_cpu() does too.
LEMMA StartCpuInv ==
    ASSUME NEW x, KernelInv(x)
    PROVE  /\ KernelInv(StartCpu(x))
           /\ CurrentOK(StartCpu(x))
           /\ StartCpu(x).timer = x.timer
<1> DEFINE t == Schedule(x)
           n == [x EXCEPT !.current = t,
                          !.need_reschedule = FALSE,
                          !.timeslice_count = TimesliceTicks,
                          !.sched_lock = x.context[t]]
<1>1. StartCpu(x) = n
  BY DEF StartCpu
<1>2. t \in AllThread /\ x \in KernelState
  BY ScheduleFacts DEF KernelInv
<1> HIDE DEF t
<1>3. n \in KernelState
  <2>1. TimesliceTicks \in 0..(CountMod - 1)
    BY KernelAssumption
  <2>2. x.context[t] \in SchedLock
    BY <1>2 DEF KernelState, Context, SchedLock
  <2> QED BY <1>2, <2>1, <2>2 DEF KernelState
<1>4. /\ n.state = x.state /\ n.suspend_count = x.suspend_count
      /\ n.priority = x.priority /\ n.original_priority = x.original_priority
      /\ n.run_queue = x.run_queue /\ n.queue_map = x.queue_map
      /\ n.current = t /\ ~n.need_reschedule
      /\ n.timer = x.timer
  BY <1>2 DEF KernelState
<1> HIDE DEF n
<1> QED BY <1>1, <1>3, <1>4, SwitchedInv DEF t

-----------------------------------------------------------------------------
(* The initial state *)

\* The state after the constructors have run.
LEMMA KernelInitInv ==
    ASSUME NEW prio \in [AllThread -> Priority],
           \A t \in AllThread : t = Idle <=> prio[t] = MinPriority
    PROVE  KernelInv(KernelInit(prio)) /\ CurrentOK(KernelInit(prio))
<1> DEFINE n == KernelInit(prio)
<1>1. n \in KernelState
  <2>1. Idle \in AllThread
    BY DEF AllThread
  <2>2. TimesliceTicks \in 0..(CountMod - 1) /\ MinPriority \in Priority
    BY KernelAssumption DEF Priority
  <2>3. <<Idle>> \in Seq(AllThread) /\ <<>> \in Seq(AllThread)
    BY <2>1
  <2> QED BY <2>1, <2>2, <2>3 DEF KernelInit, KernelState, StateBit, RUNNING,
             SleepReason, WakeReason, Context, SchedLock
<1>2. /\ n.state = [t \in AllThread |->
                      IF t = Idle THEN RUNNING ELSE {"SUSPENDED"}]
      /\ n.suspend_count = [t \in AllThread |-> IF t = Idle THEN 0 ELSE 1]
      /\ n.priority = prio
      /\ n.original_priority = prio
      /\ n.run_queue = [p \in Priority |->
                          IF p = MinPriority THEN <<Idle>> ELSE <<>>]
      /\ n.queue_map = {MinPriority}
      /\ n.need_reschedule = TRUE
      /\ n.sched_lock = "start"
  BY DEF KernelInit
<1> HIDE DEF n
<1>3. RunnableSet(n) = {Idle}
  <2>1. ASSUME NEW t \in AllThread PROVE Runnable(n, t) <=> t = Idle
    BY <1>2 DEF Runnable, RUNNING
  <2>2. Idle \in AllThread
    BY DEF AllThread
  <2> QED BY <2>1, <2>2 DEF RunnableSet
<1>4. QueuesHold(n, {Idle})
  <2>1. IsInjective(<<>>) /\ Range(<<>>) = {}
    BY DEF IsInjective, Range
  <2>2. IsInjective(<<Idle>>) /\ Range(<<Idle>>) = {Idle} /\ <<Idle>> # <<>>
    BY DEF IsInjective, Range
  <2>3. MinPriority \in Priority
    BY KernelAssumption DEF Priority
  <2>4. prio[Idle] = MinPriority
    BY DEF AllThread
  <2> QED BY <1>2, <2>1, <2>2, <2>3, <2>4 DEF QueuesHold
<1>5. IdleOK(n) /\ SuspendOK(n)
  BY <1>2 DEF IdleOK, SuspendOK, Runnable, RUNNING
<1>6. ReschedulePending(n) /\ CurrentOK(n)
  BY <1>2 DEF ReschedulePending, CurrentOK
<1> QED BY <1>1, <1>3, <1>4, <1>5, <1>6, RunQueuesAsHold DEF KernelInv, n

-----------------------------------------------------------------------------
(***************************************************************************)
(* What each operator of module Kernel does to the life of a thread: its   *)
(* state bits, its sleep and wake reasons, its timer and the wait queues   *)
(* it is on.  Every operation changes the life of one thread at most, so   *)
(* an invariant that speaks of each thread by itself is proved by cases on *)
(* what the operation makes of that life.                                  *)
(***************************************************************************)
Life(x, t) ==
    [state |-> x.state[t],
     sleep |-> x.sleep_reason[t],
     wake  |-> x.wake_reason[t],
     timer |-> x.timer[t],
     on    |-> OnQueue(x, t)]

LifeType ==
    [state : SUBSET StateBit, sleep : SleepReason, wake : WakeReason,
     timer : BOOLEAN, on : SUBSET WaitQueue]

WithState(l, s) ==
    [state |-> s, sleep |-> l.sleep, wake |-> l.wake, timer |-> l.timer, on |-> l.on]
Queued(l, q) ==
    [state |-> l.state, sleep |-> l.sleep, wake |-> l.wake, timer |-> l.timer,
     on |-> l.on \cup {q}]
Unqueued(l) ==
    [state |-> l.state, sleep |-> l.sleep, wake |-> l.wake, timer |-> l.timer, on |-> {}]

\* No thread is twice on the same wait queue.
QueuesDistinct(x) == \A q \in WaitQueue : IsInjective(x.wait_queue[q])

\* Of all lives, an operation has changed that of t only, to l.
Only(n, x, t, l) ==
    /\ QueuesDistinct(n)
    /\ Life(n, t) = l
    /\ \A u \in AllThread \ {t} : Life(n, u) = Life(x, u)

\* An operation has changed no life.
Same(n, x) == QueuesDistinct(n) /\ \A u \in AllThread : Life(n, u) = Life(x, u)

-----------------------------------------------------------------------------
(* General facts *)

\* Lives have their type.
LEMMA LifeTyped ==
    ASSUME NEW x \in KernelState, NEW t \in AllThread
    PROVE  Life(x, t) \in LifeType
BY DEF KernelState, Life, LifeType, OnQueue

\* A thread is runnable when its life says so.
LEMMA LifeRunnable ==
    ASSUME NEW x, NEW t
    PROVE  Runnable(x, t) <=> Life(x, t).state = {}
BY DEF Life, Runnable, RUNNING

\* A change of other fields changes no life.
LEMMA SameFields ==
    ASSUME NEW x, NEW n, QueuesDistinct(x),
           n.state = x.state, n.sleep_reason = x.sleep_reason,
           n.wake_reason = x.wake_reason, n.timer = x.timer,
           n.wait_queue = x.wait_queue
    PROVE  Same(n, x)
BY DEF Same, Life, OnQueue, QueuesDistinct

\* A change of nothing is a change of any one life to what it is.
LEMMA SameIsOnly ==
    ASSUME NEW x, NEW n, Same(n, x), NEW t \in AllThread
    PROVE  Only(n, x, t, Life(x, t))
BY DEF Same, Only

\* Steps on the same thread compose, and so do those that change no life.
LEMMA OnlyTransitive ==
    ASSUME NEW x, NEW k1, NEW n, NEW t \in AllThread, NEW l, NEW m,
           Only(k1, x, t, l), Only(n, k1, t, m)
    PROVE  Only(n, x, t, m)
BY DEF Only

\* One thread changes, then none.
LEMMA OnlySame ==
    ASSUME NEW x, NEW k1, NEW n, NEW t \in AllThread, NEW l,
           Only(k1, x, t, l), Same(n, k1)
    PROVE  Only(n, x, t, l)
BY DEF Only, Same

\* No thread changes, then one.
LEMMA SameOnly ==
    ASSUME NEW x, NEW k1, NEW n, NEW t \in AllThread, NEW l,
           Same(k1, x), Only(n, k1, t, l)
    PROVE  Only(n, x, t, l)
BY DEF Only, Same

\* Two operations that change no life.
LEMMA SameTransitive ==
    ASSUME NEW x, NEW k1, NEW n, Same(k1, x), Same(n, k1)
    PROVE  Same(n, x)
BY DEF Same

-----------------------------------------------------------------------------
(* The scheduler *)

\* The run queues are not part of a thread's life.
LEMMA RemThreadLife ==
    ASSUME NEW x \in KernelState, QueuesDistinct(x), NEW t
    PROVE  Same(RemThread(x, t), x)
<1>1. /\ RemThread(x, t).state = x.state
      /\ RemThread(x, t).sleep_reason = x.sleep_reason
      /\ RemThread(x, t).wake_reason = x.wake_reason
      /\ RemThread(x, t).timer = x.timer
      /\ RemThread(x, t).wait_queue = x.wait_queue
  BY DEF RemThread, KernelState
<1> QED BY <1>1, SameFields

\* set_need_reschedule() only sets the flag.
LEMMA SetNeedRescheduleLife ==
    ASSUME NEW x \in KernelState, QueuesDistinct(x), NEW t
    PROVE  Same(SetNeedReschedule(x, t), x)
<1>1. /\ SetNeedReschedule(x, t).state = x.state
      /\ SetNeedReschedule(x, t).sleep_reason = x.sleep_reason
      /\ SetNeedReschedule(x, t).wake_reason = x.wake_reason
      /\ SetNeedReschedule(x, t).timer = x.timer
      /\ SetNeedReschedule(x, t).wait_queue = x.wait_queue
  BY DEF SetNeedReschedule, KernelState
<1> QED BY <1>1, SameFields

\* remove() takes the thread off its wait queue.
LEMMA LeaveQueueLife ==
    ASSUME NEW x \in KernelState, QueuesDistinct(x), NEW t \in AllThread
    PROVE  Only(LeaveQueue(x, t), x, t, Unqueued(Life(x, t)))
<1> DEFINE n == LeaveQueue(x, t)
<1>1. /\ n.state = x.state
      /\ n.sleep_reason = x.sleep_reason
      /\ n.wake_reason = x.wake_reason
      /\ n.timer = x.timer
      /\ n.wait_queue = [q \in WaitQueue |-> RemoveFirst(x.wait_queue[q], t)]
  BY DEF LeaveQueue, KernelState
<1> HIDE DEF n
<1>2. ASSUME NEW q \in WaitQueue
      PROVE  /\ IsInjective(n.wait_queue[q])
             /\ Range(n.wait_queue[q]) = Range(x.wait_queue[q]) \ {t}
  <2>1. x.wait_queue[q] \in Seq(AllThread) /\ IsInjective(x.wait_queue[q])
    BY DEF KernelState, QueuesDistinct
  <2> QED BY <1>1, <2>1, RemoveFirstFacts
<1>3. OnQueue(n, t) = {} /\ \A u \in AllThread \ {t} : OnQueue(n, u) = OnQueue(x, u)
  BY <1>2 DEF OnQueue
<1>4. Life(n, t) = Unqueued(Life(x, t))
  BY <1>1, <1>3 DEF Life, Unqueued
<1>5. \A u \in AllThread \ {t} : Life(n, u) = Life(x, u)
  BY <1>1, <1>3 DEF Life
<1> QED BY <1>2, <1>4, <1>5 DEF Only, QueuesDistinct, n

\* enqueue() of a thread that is not on the queue.
LEMMA EnqueueLife ==
    ASSUME NEW x \in KernelState, QueuesDistinct(x), NEW t \in AllThread,
           NEW q \in WaitQueue, q \notin OnQueue(x, t)
    PROVE  /\ Only(Enqueue(x, q, t), x, t, Queued(Life(x, t), q))
           /\ Enqueue(x, q, t) \in KernelState
           /\ SameThreads(Enqueue(x, q, t), x)
           /\ SameScheduling(Enqueue(x, q, t), x)
<1> DEFINE n == Enqueue(x, q, t)
           s == Append(x.wait_queue[q], t)
<1>1. x.wait_queue[q] \in Seq(AllThread) /\ IsInjective(x.wait_queue[q])
      /\ t \notin Range(x.wait_queue[q])
  BY DEF KernelState, QueuesDistinct, OnQueue
<1>2. s \in Seq(AllThread) /\ IsInjective(s) /\ Range(s) = Range(x.wait_queue[q]) \cup {t}
  BY <1>1, AppendFacts
<1>3. n = [x EXCEPT !.wait_queue[q] = s]
  BY DEF Enqueue
<1> HIDE DEF s, n
<1>4. /\ n \in KernelState
      /\ n.wait_queue = [x.wait_queue EXCEPT ![q] = s]
      /\ x.wait_queue \in [WaitQueue -> Seq(AllThread)]
  BY <1>2, <1>3 DEF KernelState
<1>5. SameThreads(n, x) /\ SameScheduling(n, x)
  BY <1>3 DEF KernelState, SameThreads, SameScheduling
<1>6. \A r \in WaitQueue : n.wait_queue[r] = IF r = q THEN s ELSE x.wait_queue[r]
  BY <1>4
<1>7. QueuesDistinct(n)
  BY <1>2, <1>6 DEF QueuesDistinct
<1>8. OnQueue(n, t) = OnQueue(x, t) \cup {q}
      /\ \A u \in AllThread \ {t} : OnQueue(n, u) = OnQueue(x, u)
  BY <1>2, <1>6 DEF OnQueue
<1>9. Life(n, t) = Queued(Life(x, t), q)
      /\ \A u \in AllThread \ {t} : Life(n, u) = Life(x, u)
  BY <1>5, <1>8 DEF Life, SameThreads, Queued
<1> QED BY <1>4, <1>5, <1>7, <1>9 DEF Only, n

\* add_thread() leaves the wait queue too.
LEMMA AddThreadLife ==
    ASSUME NEW x \in KernelState, QueuesDistinct(x), NEW t \in AllThread
    PROVE  Only(AddThread(x, t), x, t, Unqueued(Life(x, t)))
<1> DEFINE p  == x.priority[t]
           k1 == LeaveQueue(x, t)
           q  == Append(k1.run_queue[p], t)
           k2 == [k1 EXCEPT !.run_queue[p] = q,
                            !.queue_map    = @ \cup {p},
                            !.timeslice[t] = TimesliceTicks]
           l  == Unqueued(Life(x, t))
<1>1. AddThread(x, t) = SetNeedReschedule(k2, t)
  BY DEF AddThread
<1>2. k1 \in KernelState /\ Only(k1, x, t, l)
  BY LeaveQueueFacts, LeaveQueueLife
<1> HIDE DEF k1, l
<1>3. p \in Priority /\ q \in Seq(AllThread) /\ TimesliceTicks \in 0..(CountMod - 1)
  BY <1>2, KernelAssumption DEF KernelState
<1> HIDE DEF p, q
<1>4. k2 \in KernelState
  BY <1>2, <1>3 DEF KernelState
<1>5. Same(k2, k1)
  <2>1. QueuesDistinct(k1)
    BY <1>2 DEF Only
  <2>2. /\ k2.state = k1.state
        /\ k2.sleep_reason = k1.sleep_reason
        /\ k2.wake_reason = k1.wake_reason
        /\ k2.timer = k1.timer
        /\ k2.wait_queue = k1.wait_queue
    BY <1>2 DEF KernelState
  <2> HIDE DEF k2
  <2> QED BY <2>1, <2>2, SameFields
<1> HIDE DEF k2
<1>6. Same(SetNeedReschedule(k2, t), k2)
  BY <1>4, <1>5, SetNeedRescheduleLife DEF Same
<1> QED BY <1>1, <1>2, <1>5, <1>6, SameTransitive, OnlySame DEF l

\* Stopping a thread changes no life by itself.
LEMMA StopThreadLife ==
    ASSUME NEW x \in KernelState, QueuesDistinct(x), NEW t
    PROVE  Same(StopThread(x, t), x)
BY RemThreadLife DEF StopThread, Same

\* A thread made ready leaves the wait queues.
Readied(l) == IF l.state = {} THEN Unqueued(l) ELSE l

\* A thread that becomes runnable leaves its wait queue; one that does not
\* stays where it is.
LEMMA ReadyThreadLife ==
    ASSUME NEW x \in KernelState, QueuesDistinct(x), NEW t \in AllThread
    PROVE  Only(ReadyThread(x, t), x, t, Readied(Life(x, t)))
<1>1. CASE Runnable(x, t)
  <2>1. ReadyThread(x, t) = AddThread(x, t) /\ Life(x, t).state = {}
    BY <1>1, LifeRunnable DEF ReadyThread
  <2> QED BY <2>1, AddThreadLife DEF Readied
<1>2. CASE ~Runnable(x, t)
  <2>1. ReadyThread(x, t) = x /\ Life(x, t).state # {}
    BY <1>2, LifeRunnable DEF ReadyThread
  <2> QED BY <2>1 DEF Readied, Only
<1> QED BY <1>1, <1>2

\* Steps that rotate the run queues, count ticks or switch threads.
LEMMA YieldLife ==
    ASSUME NEW x \in KernelState, QueuesDistinct(x)
    PROVE  Same(Yield(x), x)
<1>1. /\ Yield(x).state = x.state
      /\ Yield(x).sleep_reason = x.sleep_reason
      /\ Yield(x).wake_reason = x.wake_reason
      /\ Yield(x).timer = x.timer
      /\ Yield(x).wait_queue = x.wait_queue
  BY DEF Yield, KernelState
<1> QED BY <1>1, SameFields

\* rotate_queue() changes the order of a run queue and no life.
LEMMA RotateQueueLife ==
    ASSUME NEW x \in KernelState, QueuesDistinct(x), NEW p
    PROVE  Same(RotateQueue(x, p), x)
<1>1. /\ RotateQueue(x, p).state = x.state
      /\ RotateQueue(x, p).sleep_reason = x.sleep_reason
      /\ RotateQueue(x, p).wake_reason = x.wake_reason
      /\ RotateQueue(x, p).timer = x.timer
      /\ RotateQueue(x, p).wait_queue = x.wait_queue
  BY DEF RotateQueue, KernelState
<1> QED BY <1>1, SameFields

\* timeslice() changes the order of a run queue and no life.
LEMMA TimesliceLife ==
    ASSUME NEW x \in KernelState, QueuesDistinct(x)
    PROVE  Same(Timeslice(x), x)
<1> DEFINE c  == (x.timeslice_count + CountMod - 1) % CountMod
           k1 == [x EXCEPT !.timeslice_count = c]
           n  == Timeslice(x)
<1>1. n = k1 \/ n = TimesliceCpu(k1)
  BY DEF Timeslice
<1> HIDE DEF c, n
<1>2. /\ k1.state = x.state
      /\ k1.sleep_reason = x.sleep_reason
      /\ k1.wake_reason = x.wake_reason
      /\ k1.timer = x.timer
      /\ k1.wait_queue = x.wait_queue
      /\ DOMAIN k1 = DOMAIN x
  BY DEF KernelState
<1>3. k1 = [k1 EXCEPT !.timeslice_count = c]
  BY DEF KernelState
<1>4. /\ TimesliceCpu(k1).state = k1.state
      /\ TimesliceCpu(k1).sleep_reason = k1.sleep_reason
      /\ TimesliceCpu(k1).wake_reason = k1.wake_reason
      /\ TimesliceCpu(k1).timer = k1.timer
      /\ TimesliceCpu(k1).wait_queue = k1.wait_queue
  BY DEF TimesliceCpu, KernelState
<1> HIDE DEF k1
<1> QED BY <1>1, <1>2, <1>4, SameFields DEF n

\* unlock_inner() switches threads and changes no life.
LEMMA UnlockInnerLife ==
    ASSUME NEW x \in KernelState, QueuesDistinct(x)
    PROVE  Same(UnlockInner(x), x)
<1>1. /\ UnlockInner(x).state = x.state
      /\ UnlockInner(x).sleep_reason = x.sleep_reason
      /\ UnlockInner(x).wake_reason = x.wake_reason
      /\ UnlockInner(x).timer = x.timer
      /\ UnlockInner(x).wait_queue = x.wait_queue
  BY DEF UnlockInner, SwitchTo, KernelState
<1> QED BY <1>1, SameFields

\* start_cpu() loads the first thread and changes no life.
LEMMA StartCpuLife ==
    ASSUME NEW x \in KernelState, QueuesDistinct(x)
    PROVE  Same(StartCpu(x), x)
<1>1. /\ StartCpu(x).state = x.state
      /\ StartCpu(x).sleep_reason = x.sleep_reason
      /\ StartCpu(x).wake_reason = x.wake_reason
      /\ StartCpu(x).timer = x.timer
      /\ StartCpu(x).wait_queue = x.wait_queue
  BY DEF StartCpu, KernelState
<1> QED BY <1>1, SameFields

-----------------------------------------------------------------------------
(* Cyg_Thread: reasons, timer, sleeping and waking *)

SetsSleep(l, r) ==
    [state |-> l.state, sleep |-> r, wake |-> "NONE", timer |-> l.timer, on |-> l.on]
SetsWake(l, r) ==
    [state |-> l.state, sleep |-> "NONE", wake |-> r, timer |-> l.timer, on |-> l.on]
TimerOff(l) ==
    [state |-> l.state, sleep |-> l.sleep, wake |-> l.wake, timer |-> FALSE, on |-> l.on]
Asleep(l) == WithState(l, l.state \cup {"SLEEPING"})

\* A change of one thread's fields, the wait queues left alone.
LEMMA FieldsLife ==
    ASSUME NEW x, NEW n, QueuesDistinct(x), NEW t,
           n.wait_queue = x.wait_queue,
           \A u \in AllThread \ {t} :
               /\ n.state[u] = x.state[u]
               /\ n.sleep_reason[u] = x.sleep_reason[u]
               /\ n.wake_reason[u] = x.wake_reason[u]
               /\ n.timer[u] = x.timer[u]
    PROVE  Only(n, x, t, [state |-> n.state[t],
                          sleep |-> n.sleep_reason[t],
                          wake  |-> n.wake_reason[t],
                          timer |-> n.timer[t],
                          on    |-> OnQueue(x, t)])
<1>1. QueuesDistinct(n) /\ \A u \in AllThread : OnQueue(n, u) = OnQueue(x, u)
  BY DEF QueuesDistinct, OnQueue
<1>2. OnQueue(n, t) = OnQueue(x, t)
  BY DEF OnQueue
<1> QED BY <1>1, <1>2 DEF Only, Life

\* set_sleep_reason() is about the current thread only.
LEMMA SetSleepReasonLife ==
    ASSUME NEW x \in KernelState, QueuesDistinct(x), NEW r
    PROVE  Only(SetSleepReason(x, r), x, x.current, SetsSleep(Life(x, x.current), r))
<1> DEFINE n == SetSleepReason(x, r)
           t == x.current
<1>1. /\ n.state = x.state
      /\ n.sleep_reason = [x.sleep_reason EXCEPT ![t] = r]
      /\ n.wake_reason = [x.wake_reason EXCEPT ![t] = "NONE"]
      /\ n.timer = x.timer
      /\ n.wait_queue = x.wait_queue
      /\ t \in AllThread
      /\ x.sleep_reason \in [AllThread -> SleepReason]
      /\ x.wake_reason \in [AllThread -> WakeReason]
  BY DEF SetSleepReason, KernelState
<1> HIDE DEF n, t
<1>2. \A u \in AllThread \ {t} :
          /\ n.state[u] = x.state[u]
          /\ n.sleep_reason[u] = x.sleep_reason[u]
          /\ n.wake_reason[u] = x.wake_reason[u]
          /\ n.timer[u] = x.timer[u]
  BY <1>1
<1>3. [state |-> n.state[t], sleep |-> n.sleep_reason[t], wake |-> n.wake_reason[t],
       timer |-> n.timer[t], on |-> OnQueue(x, t)] = SetsSleep(Life(x, t), r)
  <2>1. n.state[t] = x.state[t] /\ n.sleep_reason[t] = r /\ n.wake_reason[t] = "NONE"
        /\ n.timer[t] = x.timer[t]
    BY <1>1
  <2> QED BY <2>1 DEF Life, SetsSleep
<1> QED BY <1>1, <1>2, <1>3, FieldsLife DEF n, t

\* set_wake_reason() is about the thread it is called on.
LEMMA SetWakeReasonLife ==
    ASSUME NEW x \in KernelState, QueuesDistinct(x), NEW t \in AllThread, NEW r
    PROVE  Only(SetWakeReason(x, t, r), x, t, SetsWake(Life(x, t), r))
<1> DEFINE n == SetWakeReason(x, t, r)
<1>1. /\ n.state = x.state
      /\ n.sleep_reason = [x.sleep_reason EXCEPT ![t] = "NONE"]
      /\ n.wake_reason = [x.wake_reason EXCEPT ![t] = r]
      /\ n.timer = x.timer
      /\ n.wait_queue = x.wait_queue
      /\ x.sleep_reason \in [AllThread -> SleepReason]
      /\ x.wake_reason \in [AllThread -> WakeReason]
  BY DEF SetWakeReason, KernelState
<1> HIDE DEF n
<1>2. \A u \in AllThread \ {t} :
          /\ n.state[u] = x.state[u]
          /\ n.sleep_reason[u] = x.sleep_reason[u]
          /\ n.wake_reason[u] = x.wake_reason[u]
          /\ n.timer[u] = x.timer[u]
  BY <1>1
<1>3. [state |-> n.state[t], sleep |-> n.sleep_reason[t], wake |-> n.wake_reason[t],
       timer |-> n.timer[t], on |-> OnQueue(x, t)] = SetsWake(Life(x, t), r)
  <2>1. n.state[t] = x.state[t] /\ n.sleep_reason[t] = "NONE" /\ n.wake_reason[t] = r
        /\ n.timer[t] = x.timer[t]
    BY <1>1
  <2> QED BY <2>1 DEF Life, SetsWake
<1>4. Only(n, x, t, [state |-> n.state[t], sleep |-> n.sleep_reason[t],
                     wake |-> n.wake_reason[t], timer |-> n.timer[t],
                     on |-> OnQueue(x, t)])
  BY <1>1, <1>2, FieldsLife
<1> QED BY <1>3, <1>4 DEF n

\* clear_timer() is about the thread it is called on.
LEMMA ClearTimerLife ==
    ASSUME NEW x \in KernelState, QueuesDistinct(x), NEW t \in AllThread
    PROVE  Only(ClearTimer(x, t), x, t, TimerOff(Life(x, t)))
<1> DEFINE n == ClearTimer(x, t)
<1>1. /\ n.state = x.state
      /\ n.sleep_reason = x.sleep_reason
      /\ n.wake_reason = x.wake_reason
      /\ n.timer = [x.timer EXCEPT ![t] = FALSE]
      /\ n.wait_queue = x.wait_queue
      /\ x.timer \in [AllThread -> BOOLEAN]
  BY DEF ClearTimer, KernelState
<1> HIDE DEF n
<1>2. \A u \in AllThread \ {t} :
          /\ n.state[u] = x.state[u]
          /\ n.sleep_reason[u] = x.sleep_reason[u]
          /\ n.wake_reason[u] = x.wake_reason[u]
          /\ n.timer[u] = x.timer[u]
  BY <1>1
<1>3. [state |-> n.state[t], sleep |-> n.sleep_reason[t], wake |-> n.wake_reason[t],
       timer |-> n.timer[t], on |-> OnQueue(x, t)] = TimerOff(Life(x, t))
  <2>1. n.state[t] = x.state[t] /\ n.sleep_reason[t] = x.sleep_reason[t]
        /\ n.wake_reason[t] = x.wake_reason[t] /\ n.timer[t] = FALSE
    BY <1>1
  <2> QED BY <2>1 DEF Life, TimerOff
<1>4. Only(n, x, t, [state |-> n.state[t], sleep |-> n.sleep_reason[t],
                     wake |-> n.wake_reason[t], timer |-> n.timer[t],
                     on |-> OnQueue(x, t)])
  BY <1>1, <1>2, FieldsLife
<1> QED BY <1>3, <1>4 DEF n

\* A change of the state bits alone.
LEMMA StateLife ==
    ASSUME NEW x \in KernelState, QueuesDistinct(x), NEW t \in AllThread, NEW s, NEW n,
           n.state = [x.state EXCEPT ![t] = s],
           n.sleep_reason = x.sleep_reason,
           n.wake_reason = x.wake_reason,
           n.timer = x.timer,
           n.wait_queue = x.wait_queue
    PROVE  Only(n, x, t, WithState(Life(x, t), s))
<1>1. x.state \in [AllThread -> SUBSET StateBit]
  BY DEF KernelState
<1>2. \A u \in AllThread \ {t} :
          /\ n.state[u] = x.state[u]
          /\ n.sleep_reason[u] = x.sleep_reason[u]
          /\ n.wake_reason[u] = x.wake_reason[u]
          /\ n.timer[u] = x.timer[u]
  BY <1>1
<1>3. [state |-> n.state[t], sleep |-> n.sleep_reason[t], wake |-> n.wake_reason[t],
       timer |-> n.timer[t], on |-> OnQueue(x, t)] = WithState(Life(x, t), s)
  BY <1>1 DEF Life, WithState
<1> QED BY <1>1, <1>2, <1>3, FieldsLife

\* sleep() puts the current thread to sleep, on no queue yet.
LEMMA SleepLife ==
    ASSUME NEW x, KernelInv(x), QueuesDistinct(x)
    PROVE  Only(Sleep(x), x, x.current, Asleep(Life(x, x.current)))
<1> DEFINE t  == x.current
           k1 == StopThread(x, t)
           s  == x.state[t] \cup {"SLEEPING"}
           n  == Sleep(x)
<1>1. t \in AllThread /\ x \in KernelState
  BY DEF KernelInv, KernelState
<1>2. k1 \in KernelState /\ SameThreads(k1, x) /\ Same(k1, x)
  BY <1>1, StopThreadFacts, StopThreadLife
<1>3. n = [k1 EXCEPT !.state[t] = s]
  BY <1>2 DEF Sleep, StopThread, SameThreads
<1> HIDE DEF n, k1, t
<1>4. /\ n.state = [k1.state EXCEPT ![t] = s]
      /\ n.sleep_reason = k1.sleep_reason
      /\ n.wake_reason = k1.wake_reason
      /\ n.timer = k1.timer
      /\ n.wait_queue = k1.wait_queue
  BY <1>2, <1>3 DEF KernelState
<1> HIDE DEF s
<1>5. Only(n, k1, t, WithState(Life(k1, t), s))
  BY <1>1, <1>2, <1>4, StateLife DEF Same
<1>6. WithState(Life(k1, t), s) = Asleep(Life(x, t))
  BY <1>1, <1>2 DEF Same, Asleep, WithState, Life, s
<1> QED BY <1>1, <1>2, <1>5, <1>6, SameOnly DEF n, t

Woken(l) ==
    IF l.state \cap SLEEPSET = {} THEN l
    ELSE Unqueued(WithState(l, l.state \ SLEEPSET))

\* wake() ends a sleep and takes the thread off its wait queue.
LEMMA WakeLife ==
    ASSUME NEW x \in KernelState, QueuesDistinct(x), NEW t \in AllThread
    PROVE  Only(Wake(x, t), x, t, Woken(Life(x, t)))
<1> DEFINE s  == x.state[t] \ SLEEPSET
           k0 == [x EXCEPT !.state[t] = s]
           k1 == LeaveQueue(k0, t)
           n  == ReadyThread(k1, t)
           l  == Life(x, t)
           l0 == WithState(l, s)
           l1 == Unqueued(WithState(l, s))
<1>1. l \in LifeType /\ l.state = x.state[t]
  BY LifeTyped DEF Life
<1>2. CASE x.state[t] \cap SLEEPSET = {}
  <2>1. Wake(x, t) = x /\ Woken(l) = l
    BY <1>1, <1>2 DEF Wake, Woken
  <2> QED BY <2>1 DEF Only
<1>3. CASE x.state[t] \cap SLEEPSET # {}
  <2>1. Wake(x, t) = n
    BY <1>3 DEF Wake, ReadyThread
  <2>2. s \in SUBSET StateBit
    BY DEF KernelState
  <2>3. k0 \in KernelState
    BY <2>2 DEF KernelState
  <2>4. Only(k0, x, t, l0)
    <3>1. /\ k0.state = [x.state EXCEPT ![t] = s]
          /\ k0.sleep_reason = x.sleep_reason
          /\ k0.wake_reason = x.wake_reason
          /\ k0.timer = x.timer
          /\ k0.wait_queue = x.wait_queue
      BY DEF KernelState
    <3> HIDE DEF k0, s
    <3> QED BY <3>1, StateLife
  <2> HIDE DEF k0
  <2>5. k1 \in KernelState /\ Only(k1, x, t, l1)
    <3>1. k1 \in KernelState /\ Only(k1, k0, t, Unqueued(Life(k0, t)))
      BY <2>3, <2>4, LeaveQueueFacts, LeaveQueueLife DEF Only
    <3>2. Unqueued(Life(k0, t)) = l1
      BY <2>4 DEF Only, Unqueued
    <3> HIDE DEF k1, l0, l1, l
    <3> QED BY <2>4, <3>1, <3>2, OnlyTransitive
  <2> HIDE DEF k1
  <2>6. Only(n, k1, t, Readied(Life(k1, t)))
    BY <2>5, ReadyThreadLife DEF Only
  <2>7. Readied(Life(k1, t)) = l1
    <3>1. Life(k1, t) = l1
      BY <2>5 DEF Only
    <3>2. Unqueued(l1) = l1
      BY DEF Unqueued
    <3> HIDE DEF l1
    <3> QED BY <3>1, <3>2 DEF Readied
  <2>8. Woken(l) = l1
    BY <1>1, <1>3 DEF Woken
  <2> HIDE DEF l1, n, l
  <2> QED BY <2>1, <2>5, <2>6, <2>7, <2>8, OnlyTransitive DEF l
<1> QED BY <1>2, <1>3

\* Setting the wake reason and waking, as release(), kill(), counted_wake(),
\* the timer and the synchronization objects do.
LEMMA WakeWithLife ==
    ASSUME NEW x, KernelInv(x), QueuesDistinct(x), NEW t \in AllThread,
           NEW r \in WakeReason
    PROVE  /\ KernelInv(Wake(SetWakeReason(x, t, r), t))
           /\ Keeps(Wake(SetWakeReason(x, t, r), t), x)
           /\ Only(Wake(SetWakeReason(x, t, r), t), x, t, Woken(SetsWake(Life(x, t), r)))
<1> DEFINE k1 == SetWakeReason(x, t, r)
           n  == Wake(k1, t)
<1>1. x \in KernelState
  BY DEF KernelInv
<1>2. KernelInv(k1) /\ Keeps(k1, x) /\ Only(k1, x, t, SetsWake(Life(x, t), r))
  BY <1>1, SetWakeReasonInv, SetWakeReasonLife
<1> HIDE DEF k1
<1>3. k1 \in KernelState /\ QueuesDistinct(k1) /\ Life(k1, t) = SetsWake(Life(x, t), r)
  BY <1>2 DEF KernelInv, Only
<1>4. KernelInv(n) /\ Keeps(n, k1) /\ Only(n, k1, t, Woken(Life(k1, t)))
  BY <1>2, <1>3, WakeInv, WakeLife
<1> HIDE DEF n
<1>5. Keeps(n, x) /\ Only(n, x, t, Woken(Life(k1, t)))
  BY <1>2, <1>4, KeepsTransitive, OnlyTransitive
<1> QED BY <1>3, <1>4, <1>5 DEF n, k1

CountWoken(l) ==
    IF "COUNTSLEEP" \notin l.state THEN l ELSE Woken(SetsWake(l, "DONE"))

\* counted_wake() wakes a counted sleeper and touches no other thread.
LEMMA CountedWakeLife ==
    ASSUME NEW x, KernelInv(x), QueuesDistinct(x), NEW t \in AllThread
    PROVE  Only(CountedWake(x, t), x, t, CountWoken(Life(x, t)))
<1>1. x \in KernelState /\ Life(x, t).state = x.state[t] /\ "DONE" \in WakeReason
  BY DEF KernelInv, Life, WakeReason
<1>2. CASE "COUNTSLEEP" \notin x.state[t]
  <2> DEFINE n == CountedWake(x, t)
  <2>1. n = [x EXCEPT !.wakeup_count[t] = @ + 1]
    BY <1>2 DEF CountedWake
  <2>2. /\ n.state = x.state /\ n.sleep_reason = x.sleep_reason
        /\ n.wake_reason = x.wake_reason /\ n.timer = x.timer
        /\ n.wait_queue = x.wait_queue
    BY <1>1, <2>1 DEF KernelState
  <2>3. CountWoken(Life(x, t)) = Life(x, t)
    BY <1>1, <1>2 DEF CountWoken
  <2> HIDE DEF n
  <2> QED BY <2>2, <2>3, SameFields, SameIsOnly DEF n
<1>3. CASE "COUNTSLEEP" \in x.state[t]
  <2>1. CountedWake(x, t) = Wake(SetWakeReason(x, t, "DONE"), t)
    BY <1>3 DEF CountedWake
  <2>2. CountWoken(Life(x, t)) = Woken(SetsWake(Life(x, t), "DONE"))
    BY <1>1, <1>3 DEF CountWoken
  <2> QED BY <1>1, <2>1, <2>2, WakeWithLife
<1> QED BY <1>2, <1>3

Released(l) == IF l.sleep = "NONE" THEN l ELSE Woken(SetsWake(l, "BREAK"))

\* release() breaks the sleep of its thread and of no other.
LEMMA ReleaseLife ==
    ASSUME NEW x, KernelInv(x), QueuesDistinct(x), NEW t \in AllThread
    PROVE  Only(Release(x, t), x, t, Released(Life(x, t)))
<1>1. x \in KernelState /\ Life(x, t).sleep = x.sleep_reason[t] /\ "BREAK" \in WakeReason
  BY DEF KernelInv, Life, WakeReason
<1>2. CASE x.sleep_reason[t] = "NONE"
  <2>1. Release(x, t) = x /\ Released(Life(x, t)) = Life(x, t)
    BY <1>1, <1>2 DEF Release, Released
  <2> QED BY <2>1 DEF Only
<1>3. CASE x.sleep_reason[t] # "NONE"
  <2>1. Release(x, t) = Wake(SetWakeReason(x, t, "BREAK"), t)
    BY <1>3 DEF Release
  <2>2. Released(Life(x, t)) = Woken(SetsWake(Life(x, t), "BREAK"))
    BY <1>1, <1>3 DEF Released
  <2> QED BY <1>1, <2>1, <2>2, WakeWithLife
<1> QED BY <1>2, <1>3

Alarmed(l) ==
    IF l.sleep = "DELAY" THEN Woken(SetsWake(TimerOff(l), "DONE"))
    ELSE IF l.sleep = "TIMEOUT" THEN Woken(SetsWake(TimerOff(l), "TIMEOUT"))
    ELSE TimerOff(l)

\* The thread timer's alarm function ends the sleep it was armed for.
LEMMA ThreadTimerAlarmLife ==
    ASSUME NEW x, KernelInv(x), QueuesDistinct(x), NEW t \in AllThread
    PROVE  Only(ThreadTimerAlarm(x, t), x, t, Alarmed(Life(x, t)))
<1> DEFINE k1 == ClearTimer(x, t)
           n  == ThreadTimerAlarm(x, t)
           l1 == TimerOff(Life(x, t))
<1>1. x \in KernelState /\ Life(x, t).sleep = x.sleep_reason[t]
      /\ "DONE" \in WakeReason /\ "TIMEOUT" \in WakeReason
  BY DEF KernelInv, Life, WakeReason
<1>2. KernelInv(k1) /\ Only(k1, x, t, l1)
  BY <1>1, ClearTimerInv, ClearTimerLife
<1>3. n = IF x.sleep_reason[t] = "DELAY" THEN Wake(SetWakeReason(k1, t, "DONE"), t)
          ELSE IF x.sleep_reason[t] = "TIMEOUT"
          THEN Wake(SetWakeReason(k1, t, "TIMEOUT"), t)
          ELSE k1
  BY DEF ThreadTimerAlarm
<1> HIDE DEF k1, n, l1
<1>4. QueuesDistinct(k1) /\ Life(k1, t) = l1
  BY <1>2 DEF Only
<1>5. CASE x.sleep_reason[t] = "DELAY"
  <2>1. n = Wake(SetWakeReason(k1, t, "DONE"), t)
    BY <1>3, <1>5
  <2>2. Only(n, k1, t, Woken(SetsWake(l1, "DONE")))
    BY <1>1, <1>2, <1>4, <2>1, WakeWithLife
  <2>3. Alarmed(Life(x, t)) = Woken(SetsWake(l1, "DONE"))
    BY <1>1, <1>5 DEF Alarmed, l1
  <2> QED BY <1>2, <2>2, <2>3, OnlyTransitive DEF n
<1>6. CASE x.sleep_reason[t] = "TIMEOUT"
  <2>1. n = Wake(SetWakeReason(k1, t, "TIMEOUT"), t)
    BY <1>3, <1>6
  <2>2. Only(n, k1, t, Woken(SetsWake(l1, "TIMEOUT")))
    BY <1>1, <1>2, <1>4, <2>1, WakeWithLife
  <2>3. Alarmed(Life(x, t)) = Woken(SetsWake(l1, "TIMEOUT"))
    BY <1>1, <1>6 DEF Alarmed, l1
  <2> QED BY <1>2, <2>2, <2>3, OnlyTransitive DEF n
<1>7. CASE x.sleep_reason[t] \notin {"DELAY", "TIMEOUT"}
  <2>1. n = k1 /\ Alarmed(Life(x, t)) = l1
    BY <1>1, <1>3, <1>7 DEF Alarmed, l1
  <2> QED BY <1>2, <2>1 DEF n
<1> QED BY <1>5, <1>6, <1>7

WithTimer(l, r) ==
    [state |-> l.state, sleep |-> r, wake |-> "NONE", timer |-> TRUE, on |-> l.on]

\* set_timer(), whose alarm fires at once when the time has passed.
LEMMA SetTimerLife ==
    ASSUME NEW x, KernelInv(x), QueuesDistinct(x), NEW r \in SleepReason,
           NEW past \in BOOLEAN
    PROVE  LET l == WithTimer(Life(x, x.current), r)
           IN  Only(SetTimer(x, r, past), x, x.current, IF past THEN Alarmed(l) ELSE l)
<1> DEFINE t  == x.current
           l0 == SetsSleep(Life(x, t), r)
           l  == WithTimer(Life(x, t), r)
           k0 == SetSleepReason(x, r)
           k1 == [k0 EXCEPT !.timer[t] = TRUE]
           n  == SetTimer(x, r, past)
<1>1. t \in AllThread /\ x \in KernelState
  BY DEF KernelInv, KernelState
<1>2. KernelInv(k0) /\ Only(k0, x, t, l0)
  BY <1>1, SetSleepReasonInv, SetSleepReasonLife
<1>3. n = IF past THEN ThreadTimerAlarm(k1, t) ELSE k1
  BY DEF SetTimer
<1> HIDE DEF k0, l0, n, t
<1>4. QueuesDistinct(k0) /\ Life(k0, t) = l0 /\ k0 \in KernelState
  BY <1>2 DEF Only, KernelInv
<1>5. KernelInv(k1)
  <2>1. k1 \in KernelState
    BY <1>1, <1>4 DEF KernelState
  <2>2. SameScheduling(k1, k0)
    BY <1>4 DEF KernelState, SameScheduling
  <2> HIDE DEF k1
  <2> QED BY <1>2, <2>1, <2>2, SameSchedulingInv
<1>6. Only(k1, k0, t, l)
  <2>1. /\ k1.state = k0.state
        /\ k1.sleep_reason = k0.sleep_reason
        /\ k1.wake_reason = k0.wake_reason
        /\ k1.timer = [k0.timer EXCEPT ![t] = TRUE]
        /\ k1.wait_queue = k0.wait_queue
        /\ k0.timer \in [AllThread -> BOOLEAN]
    BY <1>4 DEF KernelState
  <2> HIDE DEF k1
  <2>2. \A u \in AllThread \ {t} :
          /\ k1.state[u] = k0.state[u]
          /\ k1.sleep_reason[u] = k0.sleep_reason[u]
          /\ k1.wake_reason[u] = k0.wake_reason[u]
          /\ k1.timer[u] = k0.timer[u]
    BY <2>1
  <2>3. Only(k1, k0, t, [state |-> k1.state[t], sleep |-> k1.sleep_reason[t],
                         wake |-> k1.wake_reason[t], timer |-> k1.timer[t],
                         on |-> OnQueue(k0, t)])
    BY <1>4, <2>1, <2>2, FieldsLife
  <2>4. k1.state[t] = l0.state /\ k1.sleep_reason[t] = l0.sleep
        /\ k1.wake_reason[t] = l0.wake /\ OnQueue(k0, t) = l0.on
    BY <1>4, <2>1 DEF Life
  <2>5. k1.timer[t] = TRUE
    BY <1>1, <2>1
  <2>6. [state |-> k1.state[t], sleep |-> k1.sleep_reason[t],
         wake |-> k1.wake_reason[t], timer |-> k1.timer[t], on |-> OnQueue(k0, t)] = l
    BY <2>4, <2>5 DEF l0, SetsSleep, WithTimer
  <2> QED BY <2>3, <2>6
<1> HIDE DEF k1, l
<1>7. Only(k1, x, t, l) /\ QueuesDistinct(k1) /\ Life(k1, t) = l
  BY <1>1, <1>2, <1>6, OnlyTransitive DEF Only
<1>8. CASE past
  <2>1. Only(n, k1, t, Alarmed(l))
    BY <1>1, <1>3, <1>5, <1>7, <1>8, ThreadTimerAlarmLife
  <2>2. Only(n, x, t, Alarmed(l))
    BY <1>1, <1>7, <2>1, OnlyTransitive
  <2> QED BY <1>8, <2>2 DEF n, t, l
<1>9. CASE ~past
  BY <1>3, <1>7, <1>9 DEF n, t, l
<1> QED BY <1>8, <1>9

-----------------------------------------------------------------------------
(* Cyg_Thread: suspending, terminating, priorities *)

Suspended(l)   == WithState(l, l.state \cup {"SUSPENDED"})
Unsuspended(l) == Readied(WithState(l, l.state \ {"SUSPENDED"}))

\* suspend() marks its thread and leaves it on its wait queue.
LEMMA SuspendLife ==
    ASSUME NEW x, KernelInv(x), QueuesDistinct(x), NEW t \in AllThread
    PROVE  Only(Suspend(x, t), x, t, Suspended(Life(x, t)))
<1> DEFINE k1 == StopThread(x, t)
           s  == x.state[t] \cup {"SUSPENDED"}
           n  == Suspend(x, t)
<1>1. x \in KernelState
  BY DEF KernelInv
<1>2. k1 \in KernelState /\ SameThreads(k1, x) /\ Same(k1, x)
  BY <1>1, StopThreadFacts, StopThreadLife
<1>3. n = [k1 EXCEPT !.suspend_count[t] = @ + 1, !.state[t] = s]
  BY <1>2 DEF Suspend, StopThread, SameThreads
<1> HIDE DEF n, k1, s
<1>4. /\ n.state = [k1.state EXCEPT ![t] = s]
      /\ n.sleep_reason = k1.sleep_reason
      /\ n.wake_reason = k1.wake_reason
      /\ n.timer = k1.timer
      /\ n.wait_queue = k1.wait_queue
  BY <1>2, <1>3 DEF KernelState
<1>5. Only(n, k1, t, WithState(Life(k1, t), s))
  BY <1>2, <1>4, StateLife DEF Same
<1>6. WithState(Life(k1, t), s) = Suspended(Life(x, t))
  BY <1>2 DEF Same, Suspended, WithState, Life, s
<1> QED BY <1>2, <1>5, <1>6, SameOnly DEF n

\* The common end of resume() and force_resume().
LEMMA UnsuspendLife ==
    ASSUME NEW x, KernelInv(x), QueuesDistinct(x), NEW t \in AllThread
    PROVE  Only(Unsuspend(x, t), x, t, Unsuspended(Life(x, t)))
<1> DEFINE s  == x.state[t] \ {"SUSPENDED"}
           k1 == [x EXCEPT !.suspend_count[t] = 0, !.state[t] = s]
           n  == ReadyThread(k1, t)
           l1 == WithState(Life(x, t), s)
<1>1. Unsuspend(x, t) = n
  BY DEF Unsuspend, ReadyThread
<1>2. x \in KernelState /\ s \in SUBSET StateBit
  BY DEF KernelInv, KernelState
<1>3. l1 = WithState(Life(x, t), Life(x, t).state \ {"SUSPENDED"})
  BY DEF Life
<1> HIDE DEF s
<1>4. /\ k1 \in KernelState
      /\ k1.state = [x.state EXCEPT ![t] = s]
      /\ k1.sleep_reason = x.sleep_reason
      /\ k1.wake_reason = x.wake_reason
      /\ k1.timer = x.timer
      /\ k1.wait_queue = x.wait_queue
  BY <1>2 DEF KernelState
<1> HIDE DEF k1
<1>5. Only(k1, x, t, l1)
  BY <1>2, <1>4, StateLife
<1> HIDE DEF l1
<1>6. QueuesDistinct(k1) /\ Life(k1, t) = l1
  BY <1>5 DEF Only
<1>7. Only(n, k1, t, Readied(l1))
  BY <1>4, <1>6, ReadyThreadLife
<1> QED BY <1>1, <1>3, <1>5, <1>7, OnlyTransitive DEF Unsuspended

\* resume() leaves the life alone unless it reaches a suspended thread.
LEMMA ResumeLife ==
    ASSUME NEW x, KernelInv(x), QueuesDistinct(x), NEW t \in AllThread
    PROVE  \/ Same(Resume(x, t), x)
           \/ Only(Resume(x, t), x, t, Unsuspended(Life(x, t)))
<1>1. CASE x.suspend_count[t] = 1
  BY <1>1, UnsuspendLife DEF Resume
<1>2. CASE x.suspend_count[t] # 1
  <2> DEFINE n == Resume(x, t)
             c == x.suspend_count[t] - 1
  <2>1. n = x \/ n = [x EXCEPT !.suspend_count[t] = c]
    BY <1>2 DEF Resume
  <2> HIDE DEF n, c
  <2>2. /\ n.state = x.state
        /\ n.sleep_reason = x.sleep_reason
        /\ n.wake_reason = x.wake_reason
        /\ n.timer = x.timer
        /\ n.wait_queue = x.wait_queue
    BY <2>1 DEF KernelInv, KernelState
  <2> QED BY <2>2, SameFields DEF n
<1> QED BY <1>1, <1>2

ForceResumed(l) == IF "SUSPENDED" \in l.state THEN Unsuspended(l) ELSE l

\* force_resume() ends every nested suspend() of its thread.
LEMMA ForceResumeLife ==
    ASSUME NEW x, KernelInv(x), QueuesDistinct(x), NEW t \in AllThread
    PROVE  Only(ForceResume(x, t), x, t, ForceResumed(Life(x, t)))
<1>1. Life(x, t).state = x.state[t] /\ ("SUSPENDED" \in x.state[t] <=> x.suspend_count[t] > 0)
  BY DEF Life, KernelInv, SuspendOK
<1>2. CASE x.suspend_count[t] > 0
  <2>1. ForceResume(x, t) = Unsuspend(x, t)
        /\ ForceResumed(Life(x, t)) = Unsuspended(Life(x, t))
    BY <1>1, <1>2 DEF ForceResume, ForceResumed
  <2> QED BY <2>1, UnsuspendLife
<1>3. CASE ~(x.suspend_count[t] > 0)
  <2>1. ForceResume(x, t) = x /\ ForceResumed(Life(x, t)) = Life(x, t)
    BY <1>1, <1>3 DEF ForceResume, ForceResumed
  <2> QED BY <2>1 DEF Only
<1> QED BY <1>2, <1>3

Exited(l) == WithState(TimerOff(l), {"EXITED"})

\* exit() is about the current thread only.
LEMMA ExitLife ==
    ASSUME NEW x, KernelInv(x), QueuesDistinct(x), Runnable(x, x.current)
    PROVE  Only(Exit(x), x, x.current, Exited(Life(x, x.current)))
<1> DEFINE t  == x.current
           k1 == ClearTimer(x, t)
           l1 == TimerOff(Life(x, t))
           k2 == [k1 EXCEPT !.state[t] = {"EXITED"}]
           n  == Exit(x)
<1>1. t \in AllThread /\ x \in KernelState
  BY DEF KernelInv, KernelState
<1>2. n = RemThread(k2, t)
  BY DEF Exit, Runnable, RUNNING
<1>3. k1 \in KernelState /\ Only(k1, x, t, l1)
  BY <1>1, ClearTimerInv, ClearTimerLife DEF KernelInv
<1> HIDE DEF k1, l1, n, t
<1>4. QueuesDistinct(k1) /\ Life(k1, t) = l1
  BY <1>3 DEF Only
<1>5. k2 \in KernelState
  BY <1>1, <1>3 DEF KernelState, StateBit
<1>6. Only(k2, k1, t, WithState(l1, {"EXITED"}))
  <2>1. /\ k2.state = [k1.state EXCEPT ![t] = {"EXITED"}]
        /\ k2.sleep_reason = k1.sleep_reason
        /\ k2.wake_reason = k1.wake_reason
        /\ k2.timer = k1.timer
        /\ k2.wait_queue = k1.wait_queue
    BY <1>3 DEF KernelState
  <2> HIDE DEF k2
  <2> QED BY <1>1, <1>3, <1>4, <2>1, StateLife
<1> HIDE DEF k2
<1>7. Same(n, k2)
  BY <1>2, <1>5, <1>6, RemThreadLife DEF Only
<1>8. Only(n, k1, t, WithState(l1, {"EXITED"}))
  BY <1>1, <1>6, <1>7, OnlySame
<1>9. Only(n, x, t, WithState(l1, {"EXITED"}))
  BY <1>1, <1>3, <1>8, OnlyTransitive
<1> QED BY <1>9 DEF Exited, n, t, l1

Killed(l) ==
    LET m == TimerOff(ForceResumed(l))
    IN  IF m.wake = "EXIT" THEN Woken(m)
        ELSE IF m.sleep = "NONE" THEN WithState(m, {"EXITED"})
        ELSE Woken(SetsWake(m, "EXIT"))

\* kill() marks a sleeper for its own exit and ends any other thread.
LEMMA KillLife ==
    ASSUME NEW x, KernelInv(x), QueuesDistinct(x), NEW t \in AllThread
    PROVE  Only(Kill(x, t), x, t, Killed(Life(x, t)))
<1> DEFINE l0 == ForceResumed(Life(x, t))
           m  == TimerOff(l0)
           k0 == ForceResume(x, t)
           k1 == ClearTimer(k0, t)
           k2 == StopThread(k1, t)
           kd == [k2 EXCEPT !.state[t] = {"EXITED"}]
           n  == Kill(x, t)
<1>1. n = IF k1.wake_reason[t] = "EXIT" THEN Wake(k1, t)
          ELSE IF k1.sleep_reason[t] = "NONE" THEN kd
          ELSE Wake(SetWakeReason(k1, t, "EXIT"), t)
  BY DEF Kill, StopThread
<1>2. KernelInv(k0) /\ Only(k0, x, t, l0)
  BY ForceResumeInv, ForceResumeLife
<1> HIDE DEF k0, l0, n
<1>3. k0 \in KernelState /\ QueuesDistinct(k0) /\ Life(k0, t) = l0
  BY <1>2 DEF Only, KernelInv
<1>4. KernelInv(k1) /\ Only(k1, x, t, m)
  BY <1>2, <1>3, ClearTimerInv, ClearTimerLife, OnlyTransitive
<1>5. Killed(Life(x, t)) = IF m.wake = "EXIT" THEN Woken(m)
                           ELSE IF m.sleep = "NONE" THEN WithState(m, {"EXITED"})
                           ELSE Woken(SetsWake(m, "EXIT"))
  BY DEF Killed, l0
<1> HIDE DEF k1, m
<1>6. /\ k1 \in KernelState /\ QueuesDistinct(k1) /\ Life(k1, t) = m
      /\ k1.wake_reason[t] = m.wake /\ k1.sleep_reason[t] = m.sleep
  <2>1. k1 \in KernelState /\ QueuesDistinct(k1) /\ Life(k1, t) = m
    BY <1>4 DEF Only, KernelInv
  <2>2. k1.wake_reason[t] = Life(k1, t).wake /\ k1.sleep_reason[t] = Life(k1, t).sleep
    BY DEF Life
  <2> QED BY <2>1, <2>2
<1>7. CASE m.wake = "EXIT"
  <2>1. Only(n, k1, t, Woken(m))
    BY <1>1, <1>6, <1>7, WakeLife
  <2> QED BY <1>4, <1>5, <1>7, <2>1, OnlyTransitive DEF n
<1>8. CASE m.wake # "EXIT" /\ m.sleep = "NONE"
  <2>1. k2 \in KernelState /\ Same(k2, k1)
    BY <1>4, <1>6, StopThreadFacts, StopThreadLife
  <2> HIDE DEF k2
  <2>2. QueuesDistinct(k2) /\ Life(k2, t) = m
    BY <1>6, <2>1 DEF Same
  <2>3. n = kd
    BY <1>1, <1>6, <1>8
  <2>4. /\ kd.state = [k2.state EXCEPT ![t] = {"EXITED"}]
        /\ kd.sleep_reason = k2.sleep_reason
        /\ kd.wake_reason = k2.wake_reason
        /\ kd.timer = k2.timer
        /\ kd.wait_queue = k2.wait_queue
    BY <2>1 DEF KernelState
  <2> HIDE DEF kd
  <2>5. Only(kd, k2, t, WithState(m, {"EXITED"}))
    BY <2>1, <2>2, <2>4, StateLife
  <2>6. Only(kd, k1, t, WithState(m, {"EXITED"}))
    BY <2>1, <2>5, SameOnly
  <2>7. Only(kd, x, t, WithState(m, {"EXITED"}))
    BY <1>4, <2>6, OnlyTransitive
  <2> QED BY <1>5, <1>8, <2>3, <2>7 DEF n
<1>9. CASE m.wake # "EXIT" /\ m.sleep # "NONE"
  <2>1. n = Wake(SetWakeReason(k1, t, "EXIT"), t) /\ "EXIT" \in WakeReason
    BY <1>1, <1>6, <1>9 DEF WakeReason
  <2>2. Only(n, k1, t, Woken(SetsWake(m, "EXIT")))
    BY <1>4, <1>6, <2>1, WakeWithLife
  <2> QED BY <1>4, <1>5, <1>9, <2>2, OnlyTransitive DEF n
<1> QED BY <1>7, <1>8, <1>9

\* set_priority() moves a waiting thread to the tail of its queue.
LEMMA SetPriorityLife ==
    ASSUME NEW x, KernelInv(x), QueuesDistinct(x), NEW t \in AllThread,
           NEW p \in UserPriority
    PROVE  Only(SetPriority(x, t, p), x, t, Readied(Life(x, t)))
<1> DEFINE inherited == x.priority_inherited[t]
           sleeping  == "SLEEPING" \in x.state[t]
           k1 == IF Runnable(x, t) THEN RemThread(x, t)
                 ELSE IF sleeping THEN LeaveQueue(x, t) ELSE x
           po == IF inherited THEN p ELSE k1.original_priority[t]
           pp == IF inherited /\ k1.priority[t] <= p THEN k1.priority[t] ELSE p
           k2 == [k1 EXCEPT !.original_priority[t] = po, !.priority[t] = pp]
           wq == [q \in WaitQueue |->
                    IF q \in OnQueue(x, t) THEN Append(k2.wait_queue[q], t)
                    ELSE k2.wait_queue[q]]
           k3 == IF Runnable(x, t) THEN AddThread(k2, t)
                 ELSE IF sleeping THEN [k2 EXCEPT !.wait_queue = wq] ELSE k2
           n  == SetPriority(x, t, p)
           l  == Life(x, t)
<1>1. n = IF t = x.current THEN [k3 EXCEPT !.need_reschedule = TRUE]
          ELSE SetNeedReschedule(k3, t)
  BY DEF SetPriority
<1> HIDE DEF n
<1>2. x \in KernelState /\ p \in Priority
  BY KernelAssumption DEF KernelInv, UserPriority, Priority
<1>3. k1 \in KernelState
  <2>1. CASE Runnable(x, t)
    <3>1. k1 = StopThread(x, t)
      BY <2>1 DEF StopThread
    <3> QED BY <3>1, StopThreadFacts
  <2>2. CASE ~Runnable(x, t)
    BY <1>2, <2>2, LeaveQueueFacts
  <2> QED BY <2>1, <2>2
<1>4. CASE Runnable(x, t)
  <2>1. k1 = RemThread(x, t)
    BY <1>4
  <2>2. Same(k1, x)
    BY <1>2, <2>1, RemThreadLife
  <2> HIDE DEF k1
  <2>3. po \in Priority /\ pp \in Priority
    BY <1>2, <1>3 DEF KernelState
  <2> HIDE DEF po, pp
  <2>4. k2 \in KernelState /\ Same(k2, k1)
    <3>1. k2 \in KernelState
      BY <1>3, <2>3 DEF KernelState
    <3>2. /\ k2.state = k1.state
          /\ k2.sleep_reason = k1.sleep_reason
          /\ k2.wake_reason = k1.wake_reason
          /\ k2.timer = k1.timer
          /\ k2.wait_queue = k1.wait_queue
          /\ QueuesDistinct(k1)
      BY <1>3, <2>2 DEF KernelState, Same
    <3> HIDE DEF k2
    <3> QED BY <3>1, <3>2, SameFields
  <2> HIDE DEF k2, wq
  <2>5. Life(k2, t) = l /\ l.state = {} /\ QueuesDistinct(k2)
    BY <1>4, <2>2, <2>4, LifeRunnable DEF Same
  <2>6. Only(k3, k2, t, Unqueued(l)) /\ k3 = AddThread(k2, t)
    BY <1>4, <2>4, <2>5, AddThreadLife
  <2>7. k3 \in KernelState /\ Only(k3, x, t, Unqueued(l))
    <3>1. AddThread(k2, t) \in KernelState
      <4>1. LeaveQueue(k2, t) \in KernelState
        BY <2>4, LeaveQueueFacts
      <4> DEFINE a == LeaveQueue(k2, t)
                 q == k2.priority[t]
                 s == Append(a.run_queue[q], t)
                 b == [a EXCEPT !.run_queue[q] = s,
                                !.queue_map = @ \cup {q},
                                !.timeslice[t] = TimesliceTicks]
      <4>2. AddThread(k2, t) = SetNeedReschedule(b, t)
        BY DEF AddThread
      <4> HIDE DEF a
      <4>3. q \in Priority /\ s \in Seq(AllThread) /\ TimesliceTicks \in 0..(CountMod - 1)
        BY <2>4, <4>1, KernelAssumption DEF KernelState, a
      <4> HIDE DEF q, s
      <4>4. b \in KernelState
        BY <4>1, <4>3 DEF KernelState, a
      <4> HIDE DEF b
      <4> QED BY <4>2, <4>4, SetNeedRescheduleFacts
    <3>2. Same(k2, x)
      BY <2>2, <2>4, SameTransitive
    <3> QED BY <2>6, <3>1, <3>2, SameOnly
  <2> HIDE DEF k3
  <2>8. Same(n, k3)
    <3>1. QueuesDistinct(k3)
      BY <2>7 DEF Only
    <3>2. CASE t = x.current
      <4>1. /\ n.state = k3.state
            /\ n.sleep_reason = k3.sleep_reason
            /\ n.wake_reason = k3.wake_reason
            /\ n.timer = k3.timer
            /\ n.wait_queue = k3.wait_queue
        BY <1>1, <2>7, <3>2 DEF KernelState
      <4> QED BY <3>1, <4>1, SameFields
    <3>3. CASE t # x.current
      BY <1>1, <2>7, <3>1, <3>3, SetNeedRescheduleLife
    <3> QED BY <3>2, <3>3
  <2>9. Readied(l) = Unqueued(l)
    BY <2>5 DEF Readied
  <2> QED BY <2>7, <2>8, <2>9, OnlySame DEF n
<1>5. CASE ~Runnable(x, t)
  <2>1. /\ po \in Priority /\ pp \in Priority
    BY <1>2, <1>3 DEF KernelState
  <2>2. Readied(l) = l
    BY <1>5, LifeRunnable DEF Readied
  <2>3. k1 = IF sleeping THEN LeaveQueue(x, t) ELSE x
    BY <1>5
  <2>4. /\ k1.state = x.state
        /\ k1.sleep_reason = x.sleep_reason
        /\ k1.wake_reason = x.wake_reason
        /\ k1.timer = x.timer
        /\ k1.wait_queue = IF sleeping
                           THEN [q \in WaitQueue |-> RemoveFirst(x.wait_queue[q], t)]
                           ELSE x.wait_queue
    BY <1>2, <2>3 DEF LeaveQueue, KernelState
  <2> HIDE DEF k1, po, pp
  <2>5. /\ k2 \in KernelState
        /\ k2.state = x.state
        /\ k2.sleep_reason = x.sleep_reason
        /\ k2.wake_reason = x.wake_reason
        /\ k2.timer = x.timer
        /\ k2.wait_queue = k1.wait_queue
    BY <1>3, <2>1, <2>4 DEF KernelState
  <2> HIDE DEF k2
  <2>6. k3 = IF sleeping THEN [k2 EXCEPT !.wait_queue = wq] ELSE k2
    BY <1>5
  <2>7. wq \in [WaitQueue -> Seq(AllThread)]
    BY <2>5 DEF KernelState
  <2> HIDE DEF wq
  <2>8. /\ k3 \in KernelState
        /\ k3.state = x.state
        /\ k3.sleep_reason = x.sleep_reason
        /\ k3.wake_reason = x.wake_reason
        /\ k3.timer = x.timer
        /\ k3.wait_queue = IF sleeping THEN wq ELSE k1.wait_queue
    <3>1. CASE sleeping
      <4>1. k3 = [k2 EXCEPT !.wait_queue = wq]
        BY <2>6, <3>1
      <4> HIDE DEF k3
      <4> QED BY <2>5, <2>7, <3>1, <4>1 DEF KernelState
    <3>2. CASE ~sleeping
      <4>1. k3 = k2
        BY <2>6, <3>2
      <4> HIDE DEF k3
      <4> QED BY <2>5, <3>2, <4>1
    <3> QED BY <3>1, <3>2
  <2> HIDE DEF k3
  <2>9. /\ n.state = x.state
        /\ n.sleep_reason = x.sleep_reason
        /\ n.wake_reason = x.wake_reason
        /\ n.timer = x.timer
        /\ n.wait_queue = k3.wait_queue
    BY <1>1, <2>8 DEF SetNeedReschedule, KernelState
  <2>10. ASSUME NEW q \in WaitQueue
         PROVE  /\ IsInjective(n.wait_queue[q])
                /\ Range(n.wait_queue[q]) = Range(x.wait_queue[q])
    <3> DEFINE s == x.wait_queue[q]
               r == RemoveFirst(s, t)
    <3>1. s \in Seq(AllThread) /\ IsInjective(s)
      BY <1>2 DEF KernelState, QueuesDistinct
    <3>2. r \in Seq(AllThread) /\ IsInjective(r) /\ Range(r) = Range(s) \ {t}
      BY <3>1, RemoveFirstFacts
    <3>3. CASE sleeping
      <4>1. n.wait_queue[q] = IF q \in OnQueue(x, t) THEN Append(r, t) ELSE r
        BY <2>4, <2>5, <2>8, <2>9, <3>3 DEF wq
      <4>2. q \in OnQueue(x, t) <=> t \in Range(s)
        BY DEF OnQueue
      <4> HIDE DEF r, s
      <4>3. /\ Range(Append(r, t)) = Range(r) \cup {t}
            /\ IsInjective(Append(r, t))
        BY <3>2, AppendFacts
      <4> QED BY <3>2, <4>1, <4>2, <4>3 DEF s
    <3>4. CASE ~sleeping
      BY <2>4, <2>8, <2>9, <3>1, <3>4
    <3> QED BY <3>3, <3>4
  <2>11. QueuesDistinct(n) /\ \A u \in AllThread : OnQueue(n, u) = OnQueue(x, u)
    BY <2>10 DEF QueuesDistinct, OnQueue
  <2>12. Same(n, x)
    BY <2>9, <2>11 DEF Same, Life
  <2> QED BY <2>2, <2>12, SameIsOnly DEF n
<1> QED BY <1>4, <1>5

\* The lives of the threads once their constructors have run.
LEMMA KernelInitLife ==
    ASSUME NEW prio
    PROVE  /\ QueuesDistinct(KernelInit(prio))
           /\ \A t \in AllThread :
                 Life(KernelInit(prio), t) =
                    [state |-> IF t = Idle THEN {} ELSE {"SUSPENDED"},
                     sleep |-> "NONE", wake |-> "NONE", timer |-> FALSE, on |-> {}]
<1> DEFINE n == KernelInit(prio)
<1>1. /\ n.state = [t \in AllThread |-> IF t = Idle THEN {} ELSE {"SUSPENDED"}]
      /\ n.sleep_reason = [t \in AllThread |-> "NONE"]
      /\ n.wake_reason = [t \in AllThread |-> "NONE"]
      /\ n.timer = [t \in AllThread |-> FALSE]
      /\ n.wait_queue = [q \in WaitQueue |-> <<>>]
  BY DEF KernelInit, RUNNING
<1> HIDE DEF n
<1>2. IsInjective(<<>>) /\ Range(<<>>) = {}
  BY DEF IsInjective, Range
<1>3. QueuesDistinct(n) /\ \A t \in AllThread : OnQueue(n, t) = {}
  BY <1>1, <1>2 DEF QueuesDistinct, OnQueue
<1>4. ASSUME NEW t \in AllThread
      PROVE  Life(n, t) = [state |-> IF t = Idle THEN {} ELSE {"SUSPENDED"},
                           sleep |-> "NONE", wake |-> "NONE", timer |-> FALSE, on |-> {}]
  BY <1>1, <1>3 DEF Life
<1> QED BY <1>3, <1>4 DEF n

-----------------------------------------------------------------------------
(* The lives that operations leave, field by field *)

\* The fields of the lives that waking and readying a thread make.
LEMMA WokenFields ==
    ASSUME NEW l
    PROVE  /\ Woken(l).state = l.state \ SLEEPSET
           /\ Woken(l).sleep = l.sleep /\ Woken(l).wake = l.wake
           /\ Woken(l).timer = l.timer
           /\ Woken(l).on = IF l.state \cap SLEEPSET = {} THEN l.on ELSE {}
<1>1. CASE l.state \cap SLEEPSET = {}
  BY <1>1 DEF Woken
<1>2. CASE l.state \cap SLEEPSET # {}
  BY <1>2 DEF Woken, Unqueued, WithState
<1> QED BY <1>1, <1>2

\* The fields of a resumed thread's life.
LEMMA UnsuspendedFields ==
    ASSUME NEW l
    PROVE  /\ Unsuspended(l).state = l.state \ {"SUSPENDED"}
           /\ Unsuspended(l).sleep = l.sleep /\ Unsuspended(l).wake = l.wake
           /\ Unsuspended(l).timer = l.timer
           /\ Unsuspended(l).on = IF l.state \ {"SUSPENDED"} = {} THEN {} ELSE l.on
BY DEF Unsuspended, Readied, WithState, Unqueued

\* The fields of a killed thread's life: a sleeper is woken to exit.
LEMMA KilledFields ==
    ASSUME NEW l \in LifeType
    PROVE  /\ Killed(l).state = IF l.wake # "EXIT" /\ l.sleep = "NONE"
                                THEN {"EXITED"}
                                ELSE (l.state \ {"SUSPENDED"}) \ SLEEPSET
           /\ Killed(l).sleep = IF l.wake = "EXIT" THEN l.sleep ELSE "NONE"
           /\ Killed(l).wake = IF l.wake # "EXIT" /\ l.sleep = "NONE"
                               THEN l.wake ELSE "EXIT"
           /\ Killed(l).timer = FALSE
           /\ Killed(l).on \in {l.on, {}}
           /\ Killed(l).on = IF \/ l.state \cap SLEEPSET # {} /\ l.sleep # "NONE"
                                \/ l.state \cap SLEEPSET # {} /\ l.wake = "EXIT"
                                \/ l.state = {"SUSPENDED"}
                             THEN {} ELSE l.on
<1> DEFINE f == ForceResumed(l)
           m == TimerOff(f)
<1>1. /\ f.state = l.state \ {"SUSPENDED"}
      /\ f.sleep = l.sleep /\ f.wake = l.wake
      /\ f.on = IF l.state = {"SUSPENDED"} THEN {} ELSE l.on
  <2>1. CASE "SUSPENDED" \in l.state
    BY <2>1, UnsuspendedFields DEF ForceResumed
  <2>2. CASE "SUSPENDED" \notin l.state
    BY <2>2 DEF ForceResumed
  <2> QED BY <2>1, <2>2
<1> HIDE DEF f
<1>2. /\ m.state = l.state \ {"SUSPENDED"}
      /\ m.sleep = l.sleep /\ m.wake = l.wake /\ m.timer = FALSE
      /\ m.on = IF l.state = {"SUSPENDED"} THEN {} ELSE l.on
  BY <1>1 DEF TimerOff
<1>3. Killed(l) = IF m.wake = "EXIT" THEN Woken(m)
                  ELSE IF m.sleep = "NONE" THEN WithState(m, {"EXITED"})
                  ELSE Woken(SetsWake(m, "EXIT"))
  BY DEF Killed, f
<1> HIDE DEF m
<1>4. m.state \cap SLEEPSET = {} <=> l.state \cap SLEEPSET = {}
  BY <1>2 DEF SLEEPSET
<1>5. l.state = {"SUSPENDED"} => l.state \cap SLEEPSET = {}
  BY DEF SLEEPSET
<1>6. CASE m.wake = "EXIT"
  BY <1>2, <1>3, <1>4, <1>5, <1>6, WokenFields
<1>7. CASE m.wake # "EXIT" /\ m.sleep = "NONE"
  BY <1>2, <1>3, <1>5, <1>7 DEF WithState
<1>8. CASE m.wake # "EXIT" /\ m.sleep # "NONE"
  <2> DEFINE w == SetsWake(m, "EXIT")
  <2>1. /\ w.state = m.state /\ w.sleep = "NONE" /\ w.wake = "EXIT"
        /\ w.timer = FALSE /\ w.on = m.on
    BY <1>2 DEF SetsWake
  <2>2. Killed(l) = Woken(w)
    BY <1>3, <1>8
  <2> HIDE DEF w
  <2> QED BY <1>2, <1>4, <1>5, <1>8, <2>1, <2>2, WokenFields
<1> QED BY <1>6, <1>7, <1>8

\* The fields of a released thread's life.
LEMMA ReleasedFields ==
    ASSUME NEW l
    PROVE  IF l.sleep = "NONE" THEN Released(l) = l
           ELSE /\ Released(l).state = l.state \ SLEEPSET
                /\ Released(l).sleep = "NONE" /\ Released(l).wake = "BREAK"
                /\ Released(l).timer = l.timer
                /\ Released(l).on = IF l.state \cap SLEEPSET = {} THEN l.on ELSE {}
<1> DEFINE w == SetsWake(l, "BREAK")
<1>1. /\ w.state = l.state /\ w.sleep = "NONE" /\ w.wake = "BREAK"
      /\ w.timer = l.timer /\ w.on = l.on
  BY DEF SetsWake
<1>2. Released(l) = IF l.sleep = "NONE" THEN l ELSE Woken(w)
  BY DEF Released
<1> HIDE DEF w
<1> QED BY <1>1, <1>2, WokenFields

\* The fields of the life counted_wake() leaves.
LEMMA CountWokenFields ==
    ASSUME NEW l
    PROVE  IF "COUNTSLEEP" \notin l.state THEN CountWoken(l) = l
           ELSE /\ CountWoken(l).state = l.state \ SLEEPSET
                /\ CountWoken(l).sleep = "NONE" /\ CountWoken(l).wake = "DONE"
                /\ CountWoken(l).timer = l.timer
                /\ CountWoken(l).on = {}
<1> DEFINE w == SetsWake(l, "DONE")
<1>1. /\ w.state = l.state /\ w.sleep = "NONE" /\ w.wake = "DONE"
      /\ w.timer = l.timer /\ w.on = l.on
  BY DEF SetsWake
<1>2. CountWoken(l) = IF "COUNTSLEEP" \notin l.state THEN l ELSE Woken(w)
  BY DEF CountWoken
<1>3. "COUNTSLEEP" \in l.state => l.state \cap SLEEPSET # {}
  BY DEF SLEEPSET
<1> HIDE DEF w
<1> QED BY <1>1, <1>2, <1>3, WokenFields

\* The fields of the life the thread timer's alarm leaves.
LEMMA AlarmedFields ==
    ASSUME NEW l
    PROVE  IF l.sleep \in {"DELAY", "TIMEOUT"}
           THEN /\ Alarmed(l).state = l.state \ SLEEPSET
                /\ Alarmed(l).sleep = "NONE"
                /\ Alarmed(l).wake = IF l.sleep = "DELAY" THEN "DONE" ELSE "TIMEOUT"
                /\ Alarmed(l).timer = FALSE
                /\ Alarmed(l).on = IF l.state \cap SLEEPSET = {} THEN l.on ELSE {}
           ELSE Alarmed(l) = TimerOff(l)
<1> DEFINE w(r) == SetsWake(TimerOff(l), r)
<1>1. \A r : /\ w(r).state = l.state /\ w(r).sleep = "NONE" /\ w(r).wake = r
             /\ w(r).timer = FALSE /\ w(r).on = l.on
  BY DEF SetsWake, TimerOff
<1>2. Alarmed(l) = IF l.sleep = "DELAY" THEN Woken(w("DONE"))
                   ELSE IF l.sleep = "TIMEOUT" THEN Woken(w("TIMEOUT"))
                   ELSE TimerOff(l)
  BY DEF Alarmed
<1> HIDE DEF w
<1> QED BY <1>1, <1>2, WokenFields

-----------------------------------------------------------------------------
(* The wait queues of the synchronization objects *)

\* A queue is empty when no thread is on it.
LEMMA QueueLife ==
    ASSUME NEW x \in KernelState, NEW q \in WaitQueue
    PROVE  /\ x.wait_queue[q] # <<>> <=> \E t \in AllThread : q \in Life(x, t).on
           /\ x.wait_queue[q] # <<>> =>
                 /\ Head(x.wait_queue[q]) \in AllThread
                 /\ q \in Life(x, Head(x.wait_queue[q])).on
           /\ \A t : t \in Range(x.wait_queue[q]) <=> q \in Life(x, t).on
<1>1. x.wait_queue[q] \in Seq(AllThread)
  BY DEF KernelState
<1>2. \A t : t \in Range(x.wait_queue[q]) <=> q \in Life(x, t).on
  BY DEF Life, OnQueue
<1>3. \A t \in Range(x.wait_queue[q]) : t \in AllThread
  BY <1>1, ElementOfSeq, LenProperties DEF Range
<1> QED BY <1>1, <1>2, <1>3, HeadFacts

\* A thread that sleeps on queue q.
Blocked(l, r, q) ==
    [state |-> l.state \cup {"SLEEPING"}, sleep |-> r, wake |-> "NONE",
     timer |-> l.timer, on |-> l.on \cup {q}]

\* The turn of a waiting loop: set_sleep_reason(), sleep(), enqueue().
LEMMA BlockLife ==
    ASSUME NEW x, KernelInv(x), QueuesDistinct(x), x.current # Idle,
           NEW r \in SleepReason, NEW q \in WaitQueue, q \notin Life(x, x.current).on
    PROVE  LET n == Enqueue(Sleep(SetSleepReason(x, r)), q, x.current)
           IN  /\ KernelInv(n)
               /\ Only(n, x, x.current, Blocked(Life(x, x.current), r, q))
<1> DEFINE t  == x.current
           l  == Life(x, t)
           k1 == SetSleepReason(x, r)
           k2 == Sleep(k1)
           n  == Enqueue(k2, q, t)
<1>1. t \in AllThread /\ x \in KernelState
  BY DEF KernelInv, KernelState
<1>2. KernelInv(k1) /\ k1.current = t /\ Only(k1, x, t, SetsSleep(l, r))
  BY <1>1, SetSleepReasonInv, SetSleepReasonLife DEF Keeps
<1> HIDE DEF k1
<1>3. QueuesDistinct(k1) /\ Life(k1, t) = SetsSleep(l, r)
  BY <1>2 DEF Only
<1>4. KernelInv(k2) /\ Only(k2, k1, t, Asleep(SetsSleep(l, r)))
  BY <1>2, <1>3, SleepInv, SleepLife
<1> HIDE DEF k2
<1>5. /\ QueuesDistinct(k2) /\ k2 \in KernelState
      /\ Life(k2, t) = Asleep(SetsSleep(l, r))
  BY <1>4 DEF Only, KernelInv
<1>6. OnQueue(k2, t) = l.on
  BY <1>5 DEF Life, Asleep, SetsSleep, WithState
<1> DEFINE m == Queued(Asleep(SetsSleep(l, r)), q)
<1>7. Only(n, k2, t, m) /\ n \in KernelState /\ SameScheduling(n, k2)
  BY <1>1, <1>5, <1>6, EnqueueLife
<1> HIDE DEF n
<1>8. KernelInv(n)
  BY <1>4, <1>7, SameSchedulingInv
<1>9. m = Blocked(l, r, q)
  BY DEF Blocked, Queued, Asleep, SetsSleep, WithState
<1> HIDE DEF m
<1>10. Only(n, x, t, m)
  BY <1>1, <1>2, <1>4, <1>7, OnlyTransitive
<1> QED BY <1>8, <1>9, <1>10 DEF n, k2, k1

\* A thread that was taken off its queue and woken.
Dequeued(l, r) ==
    [state |-> l.state \ SLEEPSET, sleep |-> "NONE", wake |-> r,
     timer |-> l.timer, on |-> {}]

\* dequeue(), set_wake_reason(), wake().
LEMMA DequeueLife ==
    ASSUME NEW x, KernelInv(x), QueuesDistinct(x), NEW t \in AllThread,
           NEW r \in WakeReason
    PROVE  LET n == Wake(SetWakeReason(LeaveQueue(x, t), t, r), t)
           IN  KernelInv(n) /\ Only(n, x, t, Dequeued(Life(x, t), r))
<1> DEFINE l  == Life(x, t)
           k1 == LeaveQueue(x, t)
           n  == Wake(SetWakeReason(k1, t, r), t)
           w  == SetsWake(Unqueued(l), r)
<1>1. x \in KernelState
  BY DEF KernelInv
<1>2. k1 \in KernelState /\ SameScheduling(k1, x) /\ Only(k1, x, t, Unqueued(l))
  BY <1>1, LeaveQueueFacts, LeaveQueueLife DEF SameScheduling, SameThreads
<1> HIDE DEF k1
<1>3. KernelInv(k1) /\ QueuesDistinct(k1) /\ Life(k1, t) = Unqueued(l)
  BY <1>2, SameSchedulingInv DEF Only
<1>4. KernelInv(n) /\ Only(n, k1, t, Woken(w))
  BY <1>3, WakeWithLife
<1>5. Woken(w) = Dequeued(l, r)
  <2>1. w = [state |-> l.state, sleep |-> "NONE", wake |-> r, timer |-> l.timer, on |-> {}]
    BY DEF SetsWake, Unqueued
  <2>2. CASE l.state \cap SLEEPSET = {}
    <3>1. l.state \ SLEEPSET = l.state
      BY <2>2
    <3> QED BY <2>1, <2>2, <3>1 DEF Woken, Dequeued
  <2>3. CASE l.state \cap SLEEPSET # {}
    BY <2>1, <2>3 DEF Woken, Dequeued, Unqueued, WithState
  <2> QED BY <2>2, <2>3
<1> HIDE DEF n, w
<1>6. Only(n, x, t, Dequeued(l, r))
  BY <1>2, <1>4, <1>5, OnlyTransitive
<1> QED BY <1>4, <1>6 DEF n, k1

-----------------------------------------------------------------------------
(* Wake-ups are not lost *)

\* A thread at one of the continuations "at" that has been woken there.
IsHeir(l, p, at) == p \in at /\ l.wake = "DONE"

HeirsAt(x, cs, at) == {t \in Thread : cs[t] \in at /\ x.wake_reason[t] = "DONE"}

\* While a thread sleeps on queue q there is a woken thread on its way for each
\* of c events.
Served(x, cs, q, at, c) ==
    x.wait_queue[q] # <<>> => c <= Cardinality(HeirsAt(x, cs, at))

\* A step on a thread with life l at p that leaves it with life m at r, and d
\* events of c, keeps the sleepers served: no event is left, or nobody joins
\* the queue and an heir is lost only with an event, or a sleeper has been
\* woken for one event more.
KeepsServed(q, at, l, p, m, r, c, d) ==
    \/ d = 0
    \/ /\ q \in m.on => q \in l.on
       /\ \/ d = c /\ (IsHeir(l, p, at) => IsHeir(m, r, at))
          \/ d = c - 1
    \/ q \in l.on /\ d = c + 1 /\ ~IsHeir(l, p, at) /\ IsHeir(m, r, at)

\* The heirs are a finite set of threads, known by their lives.
LEMMA HeirsAtFacts ==
    ASSUME NEW x, NEW cs, NEW at
    PROVE  /\ IsFiniteSet(HeirsAt(x, cs, at))
           /\ Cardinality(HeirsAt(x, cs, at)) \in Nat
           /\ HeirsAt(x, cs, at) \subseteq Thread
           /\ \A t \in Thread : t \in HeirsAt(x, cs, at) <=> IsHeir(Life(x, t), cs[t], at)
<1>1. HeirsAt(x, cs, at) \subseteq Thread /\ IsFiniteSet(Thread)
  BY KernelAssumption DEF HeirsAt
<1>2. IsFiniteSet(HeirsAt(x, cs, at))
  BY <1>1, FS_Subset
<1>3. \A t \in Thread : t \in HeirsAt(x, cs, at) <=> IsHeir(Life(x, t), cs[t], at)
  BY DEF HeirsAt, IsHeir, Life
<1> QED BY <1>1, <1>2, <1>3, FS_CardinalityType

\* Two sets that differ by one element at most.
LEMMA ChangedByOne ==
    ASSUME NEW H, IsFiniteSet(H), NEW J, IsFiniteSet(J), NEW t,
           H \ {t} \subseteq J, J \ {t} \subseteq H
    PROVE  /\ (t \in H => t \in J) => Cardinality(H) <= Cardinality(J)
           /\ Cardinality(H) - 1 <= Cardinality(J)
           /\ t \notin H /\ t \in J => Cardinality(J) = Cardinality(H) + 1
<1>1. Cardinality(H) \in Nat /\ Cardinality(J) \in Nat
  BY FS_CardinalityType
<1>2. (t \in H => t \in J) => H \subseteq J
  OBVIOUS
<1>3. H \subseteq J => Cardinality(H) <= Cardinality(J)
  BY FS_Subset
<1>4. t \notin H /\ t \in J => J = H \cup {t}
  OBVIOUS
<1>5. t \notin H /\ J = H \cup {t} => Cardinality(J) = Cardinality(H) + 1
  BY FS_AddElement
<1>6. /\ IsFiniteSet(H \ {t})
      /\ Cardinality(H \ {t}) = IF t \in H THEN Cardinality(H) - 1 ELSE Cardinality(H)
  BY FS_RemoveElement
<1>7. Cardinality(H \ {t}) <= Cardinality(J)
  BY FS_Subset
<1> QED BY <1>1, <1>2, <1>3, <1>4, <1>5, <1>6, <1>7

\* One thread lives on, which may become an heir or stop being one, while c
\* units become d: the waiters of q stay served if that thread keeps them so.
LEMMA ServedStep ==
    ASSUME NEW x \in KernelState, NEW n \in KernelState, NEW q \in WaitQueue,
           NEW cs, cs = [u \in AllThread |-> cs[u]], NEW at, NEW t \in AllThread,
           NEW m, Only(n, x, t, m), NEW r, NEW pcn, pcn = [cs EXCEPT ![t] = r],
           t # Idle \/ ~IsHeir(m, r, at), NEW c \in Nat, NEW d \in Nat,
           Served(x, cs, q, at, c), KeepsServed(q, at, Life(x, t), cs[t], m, r, c, d)
    PROVE  Served(n, pcn, q, at, d)
<1> DEFINE H == HeirsAt(x, cs, at)
           J == HeirsAt(n, pcn, at)
           l == Life(x, t)
           p == cs[t]
<1>1. Life(n, t) = m /\ pcn[t] = r
  BY DEF Only
<1>2. /\ IsFiniteSet(H) /\ Cardinality(H) \in Nat /\ H \subseteq Thread
      /\ IsFiniteSet(J) /\ Cardinality(J) \in Nat /\ J \subseteq Thread
      /\ \A u \in Thread : u \in H <=> IsHeir(Life(x, u), cs[u], at)
      /\ \A u \in Thread : u \in J <=> IsHeir(Life(n, u), pcn[u], at)
  BY HeirsAtFacts
<1> HIDE DEF H, J, l, p
<1>3. \A u \in Thread \ {t} : u \in J <=> u \in H
  <2> SUFFICES ASSUME NEW u \in Thread, u # t PROVE u \in J <=> u \in H
    OBVIOUS
  <2>1. u \in AllThread
    BY DEF AllThread
  <2>2. Life(n, u) = Life(x, u) /\ pcn[u] = cs[u]
    BY <2>1 DEF Only
  <2> QED BY <1>2, <2>2
<1>4. t \in Thread => (t \in H <=> IsHeir(l, p, at)) /\ (t \in J <=> IsHeir(m, r, at))
  BY <1>1, <1>2 DEF l, p
<1>5. t \notin Thread => t \notin H /\ t \notin J /\ ~IsHeir(m, r, at)
  BY <1>2 DEF AllThread
<1>6. H \ {t} \subseteq J /\ J \ {t} \subseteq H
  BY <1>2, <1>3
<1>7. /\ (t \in H => t \in J) => Cardinality(H) <= Cardinality(J)
      /\ Cardinality(H) - 1 <= Cardinality(J)
      /\ t \notin H /\ t \in J => Cardinality(J) = Cardinality(H) + 1
  BY <1>2, <1>6, ChangedByOne
<1> SUFFICES ASSUME n.wait_queue[q] # <<>>, d # 0 PROVE d <= Cardinality(J)
  BY <1>2 DEF Served, J
<1>8. KeepsServed(q, at, l, p, m, r, c, d)
  BY DEF l, p
<1>9. q \in m.on => q \in l.on
  BY <1>8 DEF KeepsServed
<1>10. x.wait_queue[q] # <<>>
  <2>1. PICK u \in AllThread : q \in Life(n, u).on
    BY QueueLife
  <2>2. q \in Life(x, u).on
    BY <1>9, <2>1 DEF Only, l
  <2> QED BY <2>2, QueueLife
<1>11. c <= Cardinality(H)
  BY <1>10 DEF Served, H
<1> QED BY <1>2, <1>4, <1>5, <1>7, <1>8, <1>11 DEF KeepsServed

\* A step that changes no life keeps the sleepers served.
LEMMA ServedSame ==
    ASSUME NEW x \in KernelState, NEW n \in KernelState, NEW q \in WaitQueue,
           NEW cs, NEW at, NEW c, Same(n, x), Served(x, cs, q, at, c)
    PROVE  Served(n, cs, q, at, c)
<1>1. \A u \in Thread : n.wake_reason[u] = x.wake_reason[u]
  BY DEF Same, Life, AllThread
<1>2. HeirsAt(n, cs, at) = HeirsAt(x, cs, at)
  BY <1>1 DEF HeirsAt
<1>3. n.wait_queue[q] # <<>> => x.wait_queue[q] # <<>>
  BY QueueLife DEF Same
<1> QED BY <1>2, <1>3 DEF Served

-----------------------------------------------------------------------------
(* Priorities: set, lent and given back *)

\* An operation has left alone all that the inversion protocol looks at.
SameLoans(n, k1) ==
    /\ n.priority = k1.priority
    /\ n.original_priority = k1.original_priority
    /\ n.priority_inherited = k1.priority_inherited
    /\ n.mutex_count = k1.mutex_count

\* Two operations that leave it alone.
LEMMA SameLoansTransitive ==
    ASSUME NEW k1, NEW k2, NEW n, SameLoans(k2, k1), SameLoans(n, k2)
    PROVE  SameLoans(n, k1)
BY DEF SameLoans

\* The operators on the queues, the state bits and the reasons do.
LEMMA QueueLoans ==
    ASSUME NEW n \in KernelState, NEW t, NEW q
    PROVE  /\ SameLoans(RemThread(n, t), n)
           /\ SameLoans(LeaveQueue(n, t), n)
           /\ SameLoans(Enqueue(n, q, t), n)
           /\ SameLoans(AddThread(n, t), n)
<1>1. SameLoans(RemThread(n, t), n)
  BY DEF SameLoans, RemThread, KernelState
<1>2. SameLoans(LeaveQueue(n, t), n)
  BY DEF SameLoans, LeaveQueue, KernelState
<1>3. SameLoans(Enqueue(n, q, t), n)
  BY DEF SameLoans, Enqueue, KernelState
<1>4. SameLoans(AddThread(n, t), n)
  BY DEF SameLoans, AddThread, LeaveQueue, SetNeedReschedule, KernelState
<1> QED BY <1>1, <1>2, <1>3, <1>4

\* So do those on the reasons.
LEMMA ReasonLoans ==
    ASSUME NEW n \in KernelState, NEW t, NEW r
    PROVE  /\ SameLoans(SetSleepReason(n, r), n)
           /\ SameLoans(SetWakeReason(n, t, r), n)
           /\ SameLoans(ClearTimer(n, t), n)
<1>1. SameLoans(SetSleepReason(n, r), n) /\ SameLoans(SetWakeReason(n, t, r), n)
  BY DEF SameLoans, SetSleepReason, SetWakeReason, KernelState
<1>2. SameLoans(ClearTimer(n, t), n)
  BY DEF SameLoans, ClearTimer, KernelState
<1> QED BY <1>1, <1>2

\* sleep(), wake(), suspend() and resume() do.
LEMMA StateLoans ==
    ASSUME NEW n \in KernelState, NEW t
    PROVE  /\ SameLoans(Sleep(n), n)
           /\ SameLoans(Wake(n, t), n)
           /\ SameLoans(Suspend(n, t), n)
           /\ SameLoans(Unsuspend(n, t), n)
           /\ SameLoans(Resume(n, t), n)
           /\ SameLoans(ForceResume(n, t), n)
<1>1. SameLoans(Sleep(n), n)
  BY DEF SameLoans, Sleep, RemThread, KernelState
<1>2. SameLoans(Wake(n, t), n)
  BY DEF SameLoans, Wake, AddThread, LeaveQueue, SetNeedReschedule, KernelState
<1>3. SameLoans(Suspend(n, t), n)
  BY DEF SameLoans, Suspend, RemThread, KernelState
<1>4. SameLoans(Unsuspend(n, t), n)
  BY DEF SameLoans, Unsuspend, AddThread, LeaveQueue, SetNeedReschedule, KernelState
<1>5. SameLoans(Resume(n, t), n)
  <2>1. SameLoans([n EXCEPT !.suspend_count[t] = @ - 1], n) /\ SameLoans(n, n)
    BY DEF SameLoans, KernelState
  <2> QED BY <1>4, <2>1 DEF Resume
<1>6. SameLoans(ForceResume(n, t), n)
  BY <1>4 DEF ForceResume, SameLoans
<1> QED BY <1>1, <1>2, <1>3, <1>4, <1>5, <1>6

\* And those made of them.
LEMMA ThreadLoans ==
    ASSUME NEW n, KernelInv(n), NEW t \in AllThread
    PROVE  /\ SameLoans(Release(n, t), n)
           /\ SameLoans(CountedWake(n, t), n)
           /\ SameLoans(ThreadTimerAlarm(n, t), n)
           /\ SameLoans(Exit(n), n)
           /\ t # Idle => SameLoans(Kill(n, t), n)
<1>1. n \in KernelState /\ SameLoans(n, n)
  BY DEF KernelInv, SameLoans
<1>2. ASSUME NEW k1, KernelInv(k1), NEW r \in WakeReason
      PROVE  SameLoans(Wake(SetWakeReason(k1, t, r), t), k1)
  <2>1. SetWakeReason(k1, t, r) \in KernelState /\ SameLoans(SetWakeReason(k1, t, r), k1)
    BY <1>2, SetWakeReasonInv, ReasonLoans DEF KernelInv
  <2> QED BY <2>1, StateLoans, SameLoansTransitive
<1>3. SameLoans(Release(n, t), n)
  BY <1>1, <1>2 DEF Release, WakeReason
<1>4. SameLoans(CountedWake(n, t), n)
  <2>1. SameLoans([n EXCEPT !.wakeup_count[t] = @ + 1], n)
    BY <1>1 DEF SameLoans, KernelState
  <2> QED BY <1>2, <2>1 DEF CountedWake, WakeReason
<1>5. KernelInv(ClearTimer(n, t)) /\ SameLoans(ClearTimer(n, t), n)
  BY <1>1, ClearTimerInv, ReasonLoans
<1>6. SameLoans(ThreadTimerAlarm(n, t), n)
  <2> DEFINE k1 == ClearTimer(n, t)
             d  == Wake(SetWakeReason(k1, t, "DONE"), t)
             o  == Wake(SetWakeReason(k1, t, "TIMEOUT"), t)
  <2>1. SameLoans(d, n) /\ SameLoans(o, n)
    BY <1>2, <1>5, SameLoansTransitive DEF WakeReason
  <2>2. ThreadTimerAlarm(n, t) \in {d, o, k1}
    BY DEF ThreadTimerAlarm
  <2> HIDE DEF d, o, k1
  <2> QED BY <1>5, <2>1, <2>2 DEF k1
<1>7. SameLoans(Exit(n), n)
  BY <1>1 DEF SameLoans, Exit, ClearTimer, RemThread, KernelState
<1>8. ASSUME t # Idle PROVE SameLoans(Kill(n, t), n)
  <2> DEFINE k1 == ClearTimer(ForceResume(n, t), t)
             k2 == IF Runnable(k1, t) THEN RemThread(k1, t) ELSE k1
             k3 == [k2 EXCEPT !.state[t] = {"EXITED"}]
  <2>1. KernelInv(ForceResume(n, t)) /\ SameLoans(ForceResume(n, t), n)
    BY <1>1, ForceResumeInv, StateLoans
  <2>2. KernelInv(k1) /\ SameLoans(k1, ForceResume(n, t))
    BY <2>1, ClearTimerInv, ReasonLoans DEF KernelInv
  <2>3. SameLoans(k1, n) /\ k1 \in KernelState
    BY <2>1, <2>2, SameLoansTransitive DEF KernelInv
  <2>4. Kill(n, t) \in {Wake(k1, t), k3, Wake(SetWakeReason(k1, t, "EXIT"), t)}
    BY DEF Kill
  <2> HIDE DEF k1
  <2>5. SameLoans(k3, k1)
    BY <2>3 DEF SameLoans, RemThread, KernelState
  <2> HIDE DEF k3
  <2>6. SameLoans(Wake(k1, t), k1) /\ SameLoans(Wake(SetWakeReason(k1, t, "EXIT"), t), k1)
    BY <1>2, <2>2, <2>3, StateLoans DEF WakeReason
  <2> QED BY <2>3, <2>4, <2>5, <2>6, SameLoansTransitive
<1> QED BY <1>3, <1>4, <1>6, <1>7, <1>8

\* set_timer() does, and so do the scheduler's own steps.
LEMMA SchedulerLoans ==
    ASSUME NEW n, KernelInv(n)
    PROVE  /\ \A p : SameLoans(RotateQueue(n, p), n)
           /\ SameLoans(Yield(n), n)
           /\ SameLoans(Timeslice(n), n)
           /\ SameLoans(UnlockInner(n), n)
           /\ SameLoans(StartCpu(n), n)
           /\ \A r \in SleepReason, past \in BOOLEAN : SameLoans(SetTimer(n, r, past), n)
<1>1. n \in KernelState
  BY DEF KernelInv
<1>2. \A p : SameLoans(RotateQueue(n, p), n)
  BY <1>1 DEF SameLoans, RotateQueue, KernelState
<1>3. SameLoans(Yield(n), n)
  BY <1>1 DEF SameLoans, Yield, KernelState
<1>4. SameLoans(Timeslice(n), n)
  BY <1>1 DEF SameLoans, Timeslice, TimesliceCpu, KernelState
<1>5. SameLoans(UnlockInner(n), n)
  BY <1>1 DEF SameLoans, UnlockInner, SwitchTo, KernelState
<1>6. SameLoans(StartCpu(n), n)
  BY <1>1 DEF SameLoans, StartCpu, KernelState
<1>7. ASSUME NEW r \in SleepReason, NEW past \in BOOLEAN
      PROVE  SameLoans(SetTimer(n, r, past), n)
  <2> DEFINE t  == n.current
             k0 == SetSleepReason(n, r)
             k1 == [k0 EXCEPT !.timer[t] = TRUE]
  <2>1. t \in AllThread /\ KernelInv(k0) /\ SameLoans(k0, n)
    BY <1>1, SetSleepReasonInv, ReasonLoans DEF KernelState
  <2>2. SetTimer(n, r, past) = IF past THEN ThreadTimerAlarm(k1, t) ELSE k1
    BY DEF SetTimer
  <2> HIDE DEF k0, t
  <2>3. k1 \in KernelState /\ SameScheduling(k1, k0) /\ SameLoans(k1, k0)
    BY <2>1 DEF KernelInv, KernelState, SameScheduling, SameLoans
  <2> HIDE DEF k1
  <2>4. KernelInv(k1)
    BY <2>1, <2>3, SameSchedulingInv
  <2> QED BY <2>1, <2>2, <2>3, <2>4, ThreadLoans, SameLoansTransitive
<1> QED BY <1>2, <1>3, <1>4, <1>5, <1>6, <1>7

\* Of the loans, an operation has changed that of t only: to priority p, with
\* original priority o, inherited or not.
Loan(n, k1, t, p, o, inherited) ==
    /\ n.priority = [k1.priority EXCEPT ![t] = p]
    /\ n.original_priority = [k1.original_priority EXCEPT ![t] = o]
    /\ n.priority_inherited = [k1.priority_inherited EXCEPT ![t] = inherited]
    /\ n.mutex_count = k1.mutex_count

\* set_priority() of a thread that inherits sets the priority it goes back to.
LEMMA SetPriorityLoans ==
    ASSUME NEW n \in KernelState, NEW t \in AllThread, NEW p
    PROVE  LET i == n.priority_inherited[t]
           IN  Loan(SetPriority(n, t, p), n, t,
                    IF i /\ n.priority[t] <= p THEN n.priority[t] ELSE p,
                    IF i THEN p ELSE n.original_priority[t], i)
<1> DEFINE i  == n.priority_inherited[t]
           k1 == IF Runnable(n, t) THEN RemThread(n, t)
                 ELSE IF "SLEEPING" \in n.state[t] THEN LeaveQueue(n, t) ELSE n
           k2 == [k1 EXCEPT
                    !.original_priority[t] = IF i THEN p ELSE @,
                    !.priority[t] = IF i /\ @ <= p THEN @ ELSE p]
           ks == [k2 EXCEPT !.wait_queue =
                      [q \in WaitQueue |->
                         IF q \in OnQueue(n, t)
                         THEN Append(k2.wait_queue[q], t)
                         ELSE k2.wait_queue[q]]]
           k3 == IF Runnable(n, t) THEN AddThread(k2, t)
                 ELSE IF "SLEEPING" \in n.state[t] THEN ks ELSE k2
           k4 == IF t = n.current THEN [k3 EXCEPT !.need_reschedule = TRUE]
                 ELSE SetNeedReschedule(k3, t)
           pp == IF i /\ n.priority[t] <= p THEN n.priority[t] ELSE p
           oo == IF i THEN p ELSE n.original_priority[t]
           D  == DOMAIN n
           F  == {"priority", "original_priority", "priority_inherited", "mutex_count"}
<1>1. SetPriority(n, t, p) = k4
  BY DEF SetPriority
<1>2. F \subseteq D
  BY DEF KernelState
<1>3. SameLoans(k1, n) /\ DOMAIN k1 = D
  <2>1. DOMAIN RemThread(n, t) = D /\ DOMAIN LeaveQueue(n, t) = D
    BY DEF RemThread, LeaveQueue
  <2> QED BY <2>1, QueueLoans DEF SameLoans
<1> HIDE DEF k1, D
<1>4. DOMAIN k2 = D /\ Loan(k2, n, t, pp, oo, i)
  <2>1. n.priority_inherited = [n.priority_inherited EXCEPT ![t] = i]
    BY DEF KernelState
  <2> QED BY <1>2, <1>3, <2>1 DEF SameLoans, Loan
<1> HIDE DEF k2, pp, oo, i
<1>5. DOMAIN k3 = D /\ Loan(k3, n, t, pp, oo, i)
  <2>1. DOMAIN AddThread(k2, t) = D
    BY <1>4 DEF AddThread, LeaveQueue, SetNeedReschedule
  <2>2. /\ AddThread(k2, t).priority = k2.priority
        /\ AddThread(k2, t).original_priority = k2.original_priority
        /\ AddThread(k2, t).priority_inherited = k2.priority_inherited
        /\ AddThread(k2, t).mutex_count = k2.mutex_count
    BY <1>2, <1>4 DEF AddThread, LeaveQueue, SetNeedReschedule
  <2>3. DOMAIN ks = D
    BY <1>4
  <2>4. /\ ks.priority = k2.priority
        /\ ks.original_priority = k2.original_priority
        /\ ks.priority_inherited = k2.priority_inherited
        /\ ks.mutex_count = k2.mutex_count
    BY <1>2, <1>4
  <2> HIDE DEF ks
  <2> QED BY <1>4, <2>1, <2>2, <2>3, <2>4 DEF Loan
<1> HIDE DEF k3
<1>6. Loan(k4, n, t, pp, oo, i)
  <2>1. /\ k4.priority = k3.priority
        /\ k4.original_priority = k3.original_priority
        /\ k4.priority_inherited = k3.priority_inherited
        /\ k4.mutex_count = k3.mutex_count
    BY <1>2, <1>5 DEF SetNeedReschedule
  <2> QED BY <1>5, <2>1 DEF Loan
<1> QED BY <1>1, <1>6 DEF pp, oo, i

\* The fields of the protocol proper set, and what that leaves.
WithLoan(n, t, o, i, c) ==
    [n EXCEPT !.original_priority[t] = o, !.priority_inherited[t] = i,
              !.mutex_count[t] = c]

HasLoan(m, n, t, o, i, c) ==
    /\ m.priority = n.priority
    /\ m.original_priority = [n.original_priority EXCEPT ![t] = o]
    /\ m.priority_inherited = [n.priority_inherited EXCEPT ![t] = i]
    /\ m.mutex_count = [n.mutex_count EXCEPT ![t] = c]

\* A change of the protocol's own fields is of no concern to the scheduler and
\* to the lives of threads, unless the idle thread's priority is touched.
LEMMA FlagOnly ==
    ASSUME NEW n, KernelInv(n), QueuesDistinct(n), NEW t \in AllThread, t # Idle,
           NEW o \in UserPriority, NEW i \in BOOLEAN, NEW c \in Int,
           NEW m, m = WithLoan(n, t, o, i, c)
    PROVE  /\ KernelInv(m) /\ Same(m, n) /\ Keeps(m, n)
           /\ HasLoan(m, n, t, o, i, c)
<1>1. n \in KernelState /\ o \in Priority /\ o # MinPriority
  BY KernelAssumption DEF KernelInv, UserPriority, Priority
<1>2. m \in KernelState
  BY <1>1 DEF KernelState, WithLoan
<1>3. /\ m.state = n.state /\ m.sleep_reason = n.sleep_reason
      /\ m.wake_reason = n.wake_reason /\ m.timer = n.timer
      /\ m.wait_queue = n.wait_queue /\ m.suspend_count = n.suspend_count
      /\ m.priority = n.priority /\ m.run_queue = n.run_queue
      /\ m.queue_map = n.queue_map /\ m.current = n.current
      /\ m.sched_lock = n.sched_lock
      /\ m.need_reschedule = n.need_reschedule
      /\ m.original_priority = [n.original_priority EXCEPT ![t] = o]
      /\ m.priority_inherited = [n.priority_inherited EXCEPT ![t] = i]
      /\ m.mutex_count = [n.mutex_count EXCEPT ![t] = c]
      /\ n.original_priority \in [AllThread -> Priority]
  BY <1>1 DEF KernelState, WithLoan
<1>4. Same(m, n) /\ Keeps(m, n)
  BY <1>3, SameFields DEF Keeps
<1>5. IdleOK(m)
  BY <1>1, <1>3 DEF KernelInv, IdleOK, Runnable
<1>6. SuspendOK(m) /\ ReschedulePending(m) /\ RunQueuesOK(m)
  BY <1>3 DEF KernelInv, SuspendOK, ReschedulePending, RunQueuesOK, Runnable
<1> QED BY <1>2, <1>3, <1>4, <1>5, <1>6 DEF KernelInv, HasLoan

\* The mutex count of t has changed by d.
Counted(n, k1, t, d) ==
    /\ n.priority = k1.priority
    /\ n.original_priority = k1.original_priority
    /\ n.priority_inherited = k1.priority_inherited
    /\ n.mutex_count = [k1.mutex_count EXCEPT ![t] = k1.mutex_count[t] + d]

AddCount(n, t, d) == [n EXCEPT !.mutex_count[t] = n.mutex_count[t] + d]

\* A change of the mutex count is of no concern to the scheduler.
LEMMA CountOnly ==
    ASSUME NEW n, KernelInv(n), QueuesDistinct(n), NEW t \in AllThread, t # Idle,
           NEW d \in Int
    PROVE  LET m == AddCount(n, t, d)
           IN  KernelInv(m) /\ Same(m, n) /\ Keeps(m, n) /\ Counted(m, n, t, d)
<1> DEFINE c == n.mutex_count[t] + d
           m == AddCount(n, t, d)
<1>1. n \in KernelState /\ m = [n EXCEPT !.mutex_count[t] = c]
  BY DEF KernelInv, AddCount
<1>2. c \in Int
  BY <1>1 DEF KernelState
<1> HIDE DEF c, m
<1>3. m \in KernelState
  BY <1>1, <1>2 DEF KernelState
<1>4. /\ SameScheduling(m, n) /\ Keeps(m, n)
      /\ m.sleep_reason = n.sleep_reason /\ m.wake_reason = n.wake_reason
      /\ m.timer = n.timer /\ m.wait_queue = n.wait_queue /\ m.state = n.state
      /\ m.priority_inherited = n.priority_inherited
      /\ m.mutex_count = [n.mutex_count EXCEPT ![t] = c]
  BY <1>1 DEF KernelState, SameScheduling, Keeps
<1>5. Same(m, n)
  BY <1>4, SameFields
<1>6. KernelInv(m)
  BY <1>3, <1>4, SameSchedulingInv
<1> QED BY <1>4, <1>5, <1>6 DEF SameScheduling, Counted, m, c

\* A thread that runs is on no wait queue.
Settled(n, t) == Life(n, t).state = {} => Life(n, t).on = {}

\* A thread's priority is one an application may set.
LEMMA UserPriorities ==
    ASSUME NEW n, KernelInv(n), NEW t \in AllThread, t # Idle
    PROVE  n.priority[t] \in UserPriority /\ n.original_priority[t] \in UserPriority
<1>1. /\ n.priority[t] \in Priority /\ n.priority[t] # MinPriority
      /\ n.original_priority[t] \in Priority /\ n.original_priority[t] # MinPriority
  BY DEF KernelInv, KernelState, IdleOK
<1> QED BY <1>1, KernelAssumption DEF Priority, UserPriority

\* set_priority() of such a thread changes no life.
LEMMA SetPrioritySame ==
    ASSUME NEW n, KernelInv(n), QueuesDistinct(n), NEW t \in AllThread, t # Idle,
           Settled(n, t), NEW p \in UserPriority
    PROVE  LET r == SetPriority(n, t, p)
           IN  KernelInv(r) /\ Same(r, n) /\ Keeps(r, n)
<1> DEFINE r == SetPriority(n, t, p)
           l == Life(n, t)
<1>1. KernelInv(r) /\ Keeps(r, n) /\ Only(r, n, t, Readied(l))
  BY SetPriorityInv, SetPriorityLife
<1>2. Readied(l) = l
  BY DEF Readied, Unqueued, Settled, Life
<1> HIDE DEF r, l
<1>3. Same(r, n)
  BY <1>1, <1>2 DEF Only, Same, l
<1> QED BY <1>1, <1>3 DEF r

\* set_inherited_priority() raises the priority, if it is an improvement, and
\* remembers the one to go back to.
LEMMA SetInheritedFacts ==
    ASSUME NEW n, KernelInv(n), QueuesDistinct(n), NEW t \in AllThread, t # Idle,
           Settled(n, t), NEW p \in UserPriority
    PROVE  LET r == SetInheritedPriority(n, t, p)
           IN  /\ KernelInv(r) /\ Same(r, n) /\ Keeps(r, n)
               /\ p >= n.priority[t] => r = n
               /\ p < n.priority[t] =>
                    Loan(r, n, t, p,
                         IF n.priority_inherited[t] THEN n.original_priority[t]
                         ELSE n.priority[t], TRUE)
<1> DEFINE i  == n.priority_inherited[t]
           o  == n.original_priority[t]
           oo == IF i THEN o ELSE n.priority[t]
           c  == n.mutex_count[t]
           k1 == [n EXCEPT !.priority_inherited[t] = FALSE]
           k2 == SetPriority(k1, t, p)
           k3 == [k2 EXCEPT !.original_priority[t] = IF i THEN @ ELSE n.priority[t],
                            !.priority_inherited[t] = TRUE]
           r  == SetInheritedPriority(n, t, p)
<1>1. r = IF p >= n.priority[t] THEN n ELSE k3
  BY DEF SetInheritedPriority
<1>2. /\ n \in KernelState /\ o \in UserPriority /\ n.priority[t] \in UserPriority
      /\ c \in Int /\ i \in BOOLEAN /\ oo \in UserPriority
  BY UserPriorities DEF KernelInv, KernelState
<1>3. k1 = WithLoan(n, t, o, FALSE, c)
  BY <1>2 DEF KernelState, WithLoan
<1>4. /\ KernelInv(k1) /\ Same(k1, n) /\ Keeps(k1, n)
      /\ HasLoan(k1, n, t, o, FALSE, c)
  <2> HIDE DEF k1, o, c
  <2> QED BY <1>2, <1>3, FlagOnly
<1>5. /\ k1.original_priority = n.original_priority
      /\ k1.mutex_count = n.mutex_count
      /\ k1.priority_inherited[t] = FALSE /\ k1.original_priority[t] = o
  <2> HIDE DEF k1
  <2> QED BY <1>2, <1>4 DEF KernelState, HasLoan
<1> HIDE DEF k1
<1>6. Settled(k1, t) /\ QueuesDistinct(k1) /\ k1 \in KernelState
  BY <1>4 DEF Settled, Same, KernelInv
<1>7. KernelInv(k2) /\ Same(k2, k1) /\ Keeps(k2, k1) /\ QueuesDistinct(k2)
  BY <1>4, <1>6, SetPrioritySame DEF Same
<1>8. Loan(k2, k1, t, p, o, FALSE)
  BY <1>5, <1>6, SetPriorityLoans
<1> HIDE DEF k2, o, i, c, oo
<1>9. /\ k2.priority = [n.priority EXCEPT ![t] = p]
      /\ k2.original_priority = n.original_priority
      /\ k2.priority_inherited = [n.priority_inherited EXCEPT ![t] = FALSE]
      /\ k2.mutex_count = n.mutex_count
  <2>1. /\ n.priority \in [AllThread -> Priority]
        /\ n.original_priority \in [AllThread -> Priority]
        /\ n.priority_inherited \in [AllThread -> BOOLEAN]
    BY <1>2 DEF KernelState
  <2>2. /\ k1.priority = n.priority
        /\ k1.priority_inherited = [n.priority_inherited EXCEPT ![t] = FALSE]
    BY <1>4 DEF HasLoan
  <2>3. /\ k2.priority = [n.priority EXCEPT ![t] = p]
        /\ k2.original_priority = [n.original_priority EXCEPT ![t] = o]
        /\ k2.priority_inherited =
                [[n.priority_inherited EXCEPT ![t] = FALSE] EXCEPT ![t] = FALSE]
        /\ k2.mutex_count = n.mutex_count
    BY <1>5, <1>8, <2>2 DEF Loan
  <2> QED BY <2>1, <2>3 DEF o
<1>10. k2 \in KernelState /\ k2.mutex_count[t] = c
       /\ (IF i THEN k2.original_priority[t] ELSE n.priority[t]) = oo
  BY <1>7, <1>9 DEF KernelInv, c, oo, i, o
<1>11. k3 = WithLoan(k2, t, oo, TRUE, c)
  BY <1>10 DEF KernelState, i, oo, WithLoan
<1>12. /\ KernelInv(k3) /\ Same(k3, k2) /\ Keeps(k3, k2)
       /\ HasLoan(k3, k2, t, oo, TRUE, c)
  <2> HIDE DEF k3
  <2> QED BY <1>2, <1>7, <1>11, FlagOnly
<1> HIDE DEF k3
<1>13. Loan(k3, n, t, p, oo, TRUE)
  BY <1>2, <1>9, <1>12 DEF Loan, HasLoan, KernelState, c
<1>14. Same(k3, n) /\ Keeps(k3, n)
  BY <1>4, <1>7, <1>12, SameTransitive, KeepsTransitive
<1>15. Same(n, n) /\ Keeps(n, n)
  BY DEF Same, Keeps
<1> HIDE DEF r
<1>16. KernelInv(r) /\ Same(r, n) /\ Keeps(r, n)
  BY <1>1, <1>12, <1>14, <1>15
<1>17. p >= n.priority[t] => r = n
  BY <1>1
<1>18. p < n.priority[t] => Loan(r, n, t, p, oo, TRUE)
  <2>1. p \in Int /\ n.priority[t] \in Int
    BY <1>2 DEF UserPriority
  <2>2. p < n.priority[t] => r = k3
    BY <1>1, <2>1
  <2> QED BY <1>13, <2>2
<1> QED BY <1>16, <1>17, <1>18 DEF r, oo, i, o

\* clear_inherited_priority(), called with the last mutex, goes back to it.
LEMMA ClearInheritedFacts ==
    ASSUME NEW n, KernelInv(n), QueuesDistinct(n), NEW t \in AllThread, t # Idle,
           Settled(n, t)
    PROVE  LET r == ClearInheritedPriority(n, t)
               o == n.original_priority[t]
           IN  /\ KernelInv(r) /\ Same(r, n) /\ Keeps(r, n)
               /\ n.mutex_count[t] # 0 \/ ~n.priority_inherited[t] => r = n
               /\ n.mutex_count[t] = 0 /\ n.priority_inherited[t] =>
                    Loan(r, n, t, IF n.priority[t] < o THEN o ELSE n.priority[t], o, FALSE)
<1> DEFINE o  == n.original_priority[t]
           c  == n.mutex_count[t]
           k1 == [n EXCEPT !.priority_inherited[t] = FALSE]
           k2 == SetPriority(k1, t, o)
           r  == ClearInheritedPriority(n, t)
           lower == n.priority[t] < o
<1>1. r = IF n.mutex_count[t] # 0 \/ ~n.priority_inherited[t] THEN n
          ELSE IF lower THEN k2 ELSE k1
  BY DEF ClearInheritedPriority
<1>2. /\ n \in KernelState /\ o \in UserPriority /\ n.priority[t] \in UserPriority
      /\ c \in Int
  BY UserPriorities DEF KernelInv, KernelState
<1>3. k1 = WithLoan(n, t, o, FALSE, c)
  BY <1>2 DEF KernelState, WithLoan
<1>4. /\ KernelInv(k1) /\ Same(k1, n) /\ Keeps(k1, n)
      /\ HasLoan(k1, n, t, o, FALSE, c)
  <2> HIDE DEF k1, o, c
  <2> QED BY <1>2, <1>3, FlagOnly
<1>5. /\ k1.original_priority = n.original_priority
      /\ k1.mutex_count = n.mutex_count
      /\ k1.priority_inherited[t] = FALSE /\ k1.original_priority[t] = o
  <2> HIDE DEF k1
  <2> QED BY <1>2, <1>4 DEF KernelState, HasLoan
<1> HIDE DEF k1
<1>6. Settled(k1, t) /\ QueuesDistinct(k1) /\ k1 \in KernelState
  BY <1>4 DEF Settled, Same, KernelInv
<1>7. KernelInv(k2) /\ Same(k2, n) /\ Keeps(k2, n)
  BY <1>2, <1>4, <1>6, SetPrioritySame, SameTransitive, KeepsTransitive
<1>8. Loan(k2, k1, t, o, o, FALSE)
  BY <1>5, <1>6, SetPriorityLoans
<1> HIDE DEF k2, o, c
<1>9. Loan(k2, n, t, o, o, FALSE)
  <2>1. /\ n.priority \in [AllThread -> Priority]
        /\ n.original_priority \in [AllThread -> Priority]
        /\ n.priority_inherited \in [AllThread -> BOOLEAN]
    BY <1>2 DEF KernelState
  <2>2. /\ k1.priority = n.priority
        /\ k1.priority_inherited = [n.priority_inherited EXCEPT ![t] = FALSE]
    BY <1>4 DEF HasLoan
  <2>3. [[n.priority_inherited EXCEPT ![t] = FALSE] EXCEPT ![t] = FALSE]
           = [n.priority_inherited EXCEPT ![t] = FALSE]
    BY <2>1
  <2> QED BY <1>5, <1>8, <2>2, <2>3 DEF Loan
<1>10. Loan(k1, n, t, n.priority[t], o, FALSE)
  BY <1>2, <1>4, <1>5 DEF Loan, HasLoan, KernelState
<1>11. Same(n, n) /\ Keeps(n, n)
  BY DEF Same, Keeps
<1> HIDE DEF r, lower
<1>12. KernelInv(r) /\ Same(r, n) /\ Keeps(r, n)
  BY <1>1, <1>4, <1>7, <1>11
<1>13. n.mutex_count[t] # 0 \/ ~n.priority_inherited[t] => r = n
  BY <1>1
<1>14. n.mutex_count[t] = 0 /\ n.priority_inherited[t] =>
           Loan(r, n, t, IF lower THEN o ELSE n.priority[t], o, FALSE)
  BY <1>1, <1>9, <1>10
<1> QED BY <1>12, <1>13, <1>14 DEF r, o, lower

-----------------------------------------------------------------------------
(* Loops that empty a wait queue *)

WakeOne(x, t, r) == Wake(SetWakeReason(LeaveQueue(x, t), t, r), t)
ReleaseOne(x, t) == Release(LeaveQueue(x, t), t)

\* The states a loop over the threads of s goes through, from its first state.
LEMMA WakeAllStates ==
    ASSUME NEW x, NEW r, NEW s, NEW n \in Nat
    PROVE  \E f : f = [i \in 0..n |-> IF i = 0 THEN x ELSE WakeOne(f[i - 1], s[i], r)]
<1> DEFINE S == {m \in Nat : \E f :
                   f = [i \in 0..m |-> IF i = 0 THEN x ELSE WakeOne(f[i - 1], s[i], r)]}
<1>1. 0 \in S
  <2> DEFINE f == [i \in 0..0 |-> x]
  <2>1. f = [i \in 0..0 |-> IF i = 0 THEN x ELSE WakeOne(f[i - 1], s[i], r)]
    OBVIOUS
  <2> QED BY <2>1
<1>2. ASSUME NEW m \in Nat, m \in S PROVE m + 1 \in S
  <2>1. PICK f : f = [i \in 0..m |-> IF i = 0 THEN x ELSE WakeOne(f[i - 1], s[i], r)]
    BY <1>2
  <2> DEFINE g == [i \in 0..(m + 1) |-> IF i <= m THEN f[i] ELSE WakeOne(f[m], s[m + 1], r)]
  <2>2. ASSUME NEW i \in 0..(m + 1)
        PROVE  g[i] = IF i = 0 THEN x ELSE WakeOne(g[i - 1], s[i], r)
    <3>1. CASE i = 0
      BY <2>1, <3>1
    <3>2. CASE i # 0 /\ i <= m
      <4>1. i \in 0..m /\ i - 1 \in 0..m /\ i - 1 \in 0..(m + 1) /\ i - 1 <= m
        BY <3>2
      <4>2. g[i] = f[i] /\ g[i - 1] = f[i - 1]
        BY <4>1, <3>2
      <4>3. f[i] = WakeOne(f[i - 1], s[i], r)
        BY <4>1, <3>2, <2>1
      <4> QED BY <4>2, <4>3, <3>2
    <3>3. CASE i = m + 1
      <4>1. m \in 0..m /\ m \in 0..(m + 1) /\ i # 0 /\ i - 1 = m /\ ~(m + 1 <= m)
        BY <3>3
      <4>2. g[i] = WakeOne(f[m], s[m + 1], r) /\ g[m] = f[m]
        BY <4>1, <3>3
      <4> QED BY <4>1, <4>2, <3>3
    <3> QED BY <3>1, <3>2, <3>3
  <2>3. g = [i \in 0..(m + 1) |-> g[i]]
    OBVIOUS
  <2> HIDE DEF g
  <2>4. g = [i \in 0..(m + 1) |-> IF i = 0 THEN x ELSE WakeOne(g[i - 1], s[i], r)]
    BY <2>2, <2>3
  <2>5. m + 1 \in Nat
    OBVIOUS
  <2> QED BY <2>4, <2>5
<1> HIDE DEF S
<1>3. n \in S
  BY <1>1, <1>2, SetInduction
<1> QED BY <1>3 DEF S

\* The same for the loop that releases them.
LEMMA ReleaseAllStates ==
    ASSUME NEW x, NEW s, NEW n \in Nat
    PROVE  \E f : f = [i \in 0..n |-> IF i = 0 THEN x ELSE ReleaseOne(f[i - 1], s[i])]
<1> DEFINE S == {m \in Nat : \E f :
                   f = [i \in 0..m |-> IF i = 0 THEN x ELSE ReleaseOne(f[i - 1], s[i])]}
<1>1. 0 \in S
  <2> DEFINE f == [i \in 0..0 |-> x]
  <2>1. f = [i \in 0..0 |-> IF i = 0 THEN x ELSE ReleaseOne(f[i - 1], s[i])]
    OBVIOUS
  <2> QED BY <2>1
<1>2. ASSUME NEW m \in Nat, m \in S PROVE m + 1 \in S
  <2>1. PICK f : f = [i \in 0..m |-> IF i = 0 THEN x ELSE ReleaseOne(f[i - 1], s[i])]
    BY <1>2
  <2> DEFINE g == [i \in 0..(m + 1) |-> IF i <= m THEN f[i] ELSE ReleaseOne(f[m], s[m + 1])]
  <2>2. ASSUME NEW i \in 0..(m + 1)
        PROVE  g[i] = IF i = 0 THEN x ELSE ReleaseOne(g[i - 1], s[i])
    <3>1. CASE i = 0
      BY <2>1, <3>1
    <3>2. CASE i # 0 /\ i <= m
      <4>1. i \in 0..m /\ i - 1 \in 0..m /\ i - 1 \in 0..(m + 1) /\ i - 1 <= m
        BY <3>2
      <4>2. g[i] = f[i] /\ g[i - 1] = f[i - 1]
        BY <4>1, <3>2
      <4>3. f[i] = ReleaseOne(f[i - 1], s[i])
        BY <4>1, <3>2, <2>1
      <4> QED BY <4>2, <4>3, <3>2
    <3>3. CASE i = m + 1
      <4>1. m \in 0..m /\ m \in 0..(m + 1) /\ i # 0 /\ i - 1 = m /\ ~(m + 1 <= m)
        BY <3>3
      <4>2. g[i] = ReleaseOne(f[m], s[m + 1]) /\ g[m] = f[m]
        BY <4>1, <3>3
      <4> QED BY <4>1, <4>2, <3>3
    <3> QED BY <3>1, <3>2, <3>3
  <2>3. g = [i \in 0..(m + 1) |-> g[i]]
    OBVIOUS
  <2> HIDE DEF g
  <2>4. g = [i \in 0..(m + 1) |-> IF i = 0 THEN x ELSE ReleaseOne(g[i - 1], s[i])]
    BY <2>2, <2>3
  <2>5. m + 1 \in Nat
    OBVIOUS
  <2> QED BY <2>4, <2>5
<1> HIDE DEF S
<1>3. n \in S
  BY <1>1, <1>2, SetInduction
<1> QED BY <1>3 DEF S

\* One state of the loop and the next, if what the turn needs is there.
TurnOfLoop(n, x, t, l, r) ==
    /\ KernelInv(n) /\ Keeps(n, x) /\ SameLoans(n, x)
    /\ Only(n, x, t, Dequeued(l, r))

\* One turn of a loop that wakes the threads of a queue.
LEMMA WakeOneTurn ==
    ASSUME NEW x, KernelInv(x), QueuesDistinct(x), NEW t \in AllThread,
           NEW r \in WakeReason, NEW l, l = Life(x, t), NEW n, n = WakeOne(x, t, r)
    PROVE  TurnOfLoop(n, x, t, l, r)
<1> DEFINE k1 == LeaveQueue(x, t)
           k2 == SetWakeReason(k1, t, r)
<1>1. KernelInv(n) /\ Only(n, x, t, Dequeued(l, r)) /\ n = Wake(k2, t)
  BY DequeueLife DEF WakeOne
<1>2. k1 \in KernelState /\ SameScheduling(k1, x) /\ SameLoans(k1, x) /\ Keeps(k1, x)
  BY LeaveQueueFacts, QueueLoans DEF KernelInv, SameScheduling, SameThreads, Keeps
<1> HIDE DEF k1
<1>3. KernelInv(k1)
  BY <1>2, SameSchedulingInv
<1>4. KernelInv(k2) /\ Keeps(k2, k1) /\ SameLoans(k2, k1)
  BY <1>2, <1>3, SetWakeReasonInv, ReasonLoans
<1> HIDE DEF k2
<1>5. Keeps(n, k2) /\ SameLoans(n, k2)
  BY <1>1, <1>4, WakeInv, StateLoans DEF KernelInv
<1> QED BY <1>1, <1>2, <1>4, <1>5, KeepsTransitive, SameLoansTransitive DEF TurnOfLoop

\* release() of a sleeping thread that has been dequeued wakes it.
LEMMA ReleaseOneWakes ==
    ASSUME NEW x \in KernelState, NEW t \in AllThread, Life(x, t).sleep # "NONE"
    PROVE  ReleaseOne(x, t) = WakeOne(x, t, "BREAK")
<1>1. LeaveQueue(x, t).sleep_reason[t] # "NONE"
  BY LeaveQueueFacts DEF SameThreads, Life
<1> QED BY <1>1 DEF ReleaseOne, WakeOne, Release

\* The states f of a loop over the threads s: each turn, taken in a state in
\* which its thread is still as it was, dequeues and wakes that thread.
EachTurn(f, x, s, r) ==
    \A i \in 1..Len(s) :
       KernelInv(f[i - 1]) /\ QueuesDistinct(f[i - 1])
         /\ Life(f[i - 1], s[i]) = Life(x, s[i]) =>
          TurnOfLoop(f[i], f[i - 1], s[i], Life(x, s[i]), r)

\* From x to n the threads of queue q have been dequeued and woken.
AllWoken(n, x, q, r) ==
    /\ KernelInv(n) /\ QueuesDistinct(n) /\ Keeps(n, x) /\ SameLoans(n, x)
    /\ \A u \in AllThread :
          Life(n, u) = IF q \in Life(x, u).on THEN Dequeued(Life(x, u), r)
                       ELSE Life(x, u)

\* A loop that dequeues and wakes each thread of queue q in turn dequeues and
\* wakes all of them, and no other thread.
LEMMA QueueEmptied ==
    ASSUME NEW x, KernelInv(x), QueuesDistinct(x), NEW q \in WaitQueue, NEW r,
           NEW s, s = x.wait_queue[q], NEW f, f[0] = x, EachTurn(f, x, s, r)
    PROVE  AllWoken(f[Len(s)], x, q, r)
<1> DEFINE Past(i)  == {s[j] : j \in 1..i}
           Good(n, i) ==
               /\ KernelInv(n) /\ QueuesDistinct(n) /\ Keeps(n, x) /\ SameLoans(n, x)
               /\ \A u \in AllThread :
                     Life(n, u) = IF u \in Past(i) THEN Dequeued(Life(x, u), r)
                                  ELSE Life(x, u)
           S == {i \in Nat : i <= Len(s) => Good(f[i], i)}
<1>1. /\ s \in Seq(AllThread) /\ IsInjective(s) /\ Len(s) \in Nat
      /\ \A i \in 1..Len(s) : s[i] \in AllThread
      /\ DOMAIN s = 1..Len(s)
  BY LenProperties, ElementOfSeq DEF KernelInv, KernelState, QueuesDistinct
<1>2. 0 \in S
  <2>1. Past(0) = {}
    OBVIOUS
  <2>2. Keeps(x, x) /\ SameLoans(x, x)
    BY DEF Keeps, SameLoans
  <2> HIDE DEF Past
  <2> QED BY <2>1, <2>2
<1>3. ASSUME NEW i \in Nat, i \in S PROVE i + 1 \in S
  <2> SUFFICES ASSUME i + 1 <= Len(s) PROVE Good(f[i + 1], i + 1)
    OBVIOUS
  <2> DEFINE t == s[i + 1]
             n == f[i]
             m == f[i + 1]
  <2>1. i + 1 \in 1..Len(s) /\ i <= Len(s) /\ (i + 1) - 1 = i
    BY <1>1
  <2>2. Good(n, i) /\ t \in AllThread
    BY <1>1, <1>3, <2>1
  <2>3. t \notin Past(i)
    <3> SUFFICES ASSUME NEW j \in 1..i, s[j] = s[i + 1] PROVE FALSE
      OBVIOUS
    <3>1. j \in 1..Len(s) /\ j # i + 1
      BY <1>1, <2>1
    <3> QED BY <1>1, <2>1, <3>1 DEF IsInjective
  <2>4. Past(i + 1) = Past(i) \cup {t}
    <3>1. 1..(i + 1) = (1..i) \cup {i + 1}
      OBVIOUS
    <3> QED BY <3>1
  <2>5. TurnOfLoop(m, n, t, Life(x, t), r)
    <3>1. Life(n, t) = Life(x, t)
      BY <2>2, <2>3
    <3> QED BY <2>1, <2>2, <3>1 DEF EachTurn
  <2> HIDE DEF Past, m, n, t
  <2>6. /\ Life(m, t) = Dequeued(Life(x, t), r) /\ QueuesDistinct(m)
        /\ \A u \in AllThread \ {t} : Life(m, u) = Life(n, u)
        /\ KernelInv(m) /\ Keeps(m, n) /\ SameLoans(m, n)
    BY <2>5 DEF TurnOfLoop, Only
  <2>7. Keeps(m, x) /\ SameLoans(m, x)
    BY <2>2, <2>6, KeepsTransitive, SameLoansTransitive
  <2>8. ASSUME NEW u \in AllThread
        PROVE  Life(m, u) = IF u \in Past(i + 1) THEN Dequeued(Life(x, u), r)
                            ELSE Life(x, u)
    BY <2>2, <2>3, <2>4, <2>6
  <2> QED BY <2>6, <2>7, <2>8 DEF m
<1> HIDE DEF S
<1>4. Len(s) \in S
  BY <1>1, <1>2, <1>3, SetInduction
<1>5. Good(f[Len(s)], Len(s))
  BY <1>1, <1>4 DEF S
<1>6. ASSUME NEW u \in AllThread PROVE u \in Past(Len(s)) <=> q \in Life(x, u).on
  BY <1>1 DEF Life, OnQueue, Range
<1> HIDE DEF Past
<1> QED BY <1>5, <1>6 DEF AllWoken

\* WakeAll wakes the threads of the queue.
LEMMA WakeAllLife ==
    ASSUME NEW x, KernelInv(x), QueuesDistinct(x), NEW q \in WaitQueue,
           NEW r \in WakeReason
    PROVE  LET n == WakeAll(x, q, r)
           IN  /\ KernelInv(n) /\ QueuesDistinct(n) /\ Keeps(n, x) /\ SameLoans(n, x)
               /\ \A u \in AllThread :
                     Life(n, u) = IF q \in Life(x, u).on THEN Dequeued(Life(x, u), r)
                                  ELSE Life(x, u)
<1> DEFINE s == x.wait_queue[q]
           f == CHOOSE f : f = [i \in 0..Len(s) |->
                                  IF i = 0 THEN x ELSE WakeOne(f[i - 1], s[i], r)]
<1>1. /\ Len(s) \in Nat /\ \A i \in 1..Len(s) : s[i] \in AllThread
  BY LenProperties, ElementOfSeq DEF KernelInv, KernelState
<1>2. WakeAll(x, q, r) = f[Len(s)]
  BY DEF WakeAll, WakeOne
<1>3. f = [i \in 0..Len(s) |-> IF i = 0 THEN x ELSE WakeOne(f[i - 1], s[i], r)]
  BY <1>1, WakeAllStates
<1> HIDE DEF f
<1>4. f[0] = x /\ \A i \in 1..Len(s) : f[i] = WakeOne(f[i - 1], s[i], r)
  BY <1>1, <1>3
<1>5. ASSUME NEW i \in 1..Len(s), KernelInv(f[i - 1]), QueuesDistinct(f[i - 1]),
             Life(f[i - 1], s[i]) = Life(x, s[i])
      PROVE  TurnOfLoop(f[i], f[i - 1], s[i], Life(x, s[i]), r)
  <2>1. s[i] \in AllThread /\ f[i] = WakeOne(f[i - 1], s[i], r)
    BY <1>1, <1>4
  <2> QED BY <1>5, <2>1, WakeOneTurn
<1>6. s = x.wait_queue[q]
  OBVIOUS
<1> HIDE DEF s
<1>7. EachTurn(f, x, s, r)
  BY <1>5 DEF EachTurn
<1>8. AllWoken(f[Len(s)], x, q, r)
  BY <1>4, <1>6, <1>7, QueueEmptied
<1> QED BY <1>2, <1>8 DEF AllWoken

\* ReleaseAll breaks the waits of the threads of the queue, which all sleep.
LEMMA ReleaseAllLife ==
    ASSUME NEW x, KernelInv(x), QueuesDistinct(x), NEW q \in WaitQueue,
           \A u \in AllThread : q \in Life(x, u).on => Life(x, u).sleep # "NONE"
    PROVE  LET n == ReleaseAll(x, q)
           IN  /\ KernelInv(n) /\ QueuesDistinct(n) /\ Keeps(n, x) /\ SameLoans(n, x)
               /\ \A u \in AllThread :
                     Life(n, u) = IF q \in Life(x, u).on
                                  THEN Dequeued(Life(x, u), "BREAK")
                                  ELSE Life(x, u)
<1> DEFINE s == x.wait_queue[q]
           f == CHOOSE f : f = [i \in 0..Len(s) |->
                                  IF i = 0 THEN x ELSE ReleaseOne(f[i - 1], s[i])]
<1>1. /\ Len(s) \in Nat /\ \A i \in 1..Len(s) : s[i] \in AllThread
      /\ \A i \in 1..Len(s) : Life(x, s[i]).sleep # "NONE"
  <2>1. s \in Seq(AllThread)
    BY DEF KernelInv, KernelState
  <2>2. \A i \in 1..Len(s) : s[i] \in Range(s) /\ s[i] \in AllThread
    BY <2>1, LenProperties, ElementOfSeq DEF Range
  <2> QED BY <2>1, <2>2, LenProperties, QueueLife DEF KernelInv
<1>2. ReleaseAll(x, q) = f[Len(s)]
  BY DEF ReleaseAll, ReleaseOne
<1>3. f = [i \in 0..Len(s) |-> IF i = 0 THEN x ELSE ReleaseOne(f[i - 1], s[i])]
  BY <1>1, ReleaseAllStates
<1> HIDE DEF f
<1>4. f[0] = x /\ \A i \in 1..Len(s) : f[i] = ReleaseOne(f[i - 1], s[i])
  BY <1>1, <1>3
<1>5. ASSUME NEW i \in 1..Len(s), KernelInv(f[i - 1]), QueuesDistinct(f[i - 1]),
             Life(f[i - 1], s[i]) = Life(x, s[i])
      PROVE  TurnOfLoop(f[i], f[i - 1], s[i], Life(x, s[i]), "BREAK")
  <2>1. s[i] \in AllThread /\ f[i] = ReleaseOne(f[i - 1], s[i])
        /\ Life(x, s[i]).sleep # "NONE"
    BY <1>1, <1>4
  <2>2. f[i] = WakeOne(f[i - 1], s[i], "BREAK")
    BY <1>5, <2>1, ReleaseOneWakes DEF KernelInv
  <2> QED BY <1>5, <2>1, <2>2, WakeOneTurn DEF WakeReason
<1>6. s = x.wait_queue[q]
  OBVIOUS
<1> HIDE DEF s
<1>7. EachTurn(f, x, s, "BREAK")
  BY <1>5 DEF EachTurn
<1>8. AllWoken(f[Len(s)], x, q, "BREAK")
  BY <1>4, <1>6, <1>7, QueueEmptied
<1> QED BY <1>2, <1>8 DEF AllWoken

-----------------------------------------------------------------------------
(***************************************************************************)
(* The specification Threads.                                              *)
(***************************************************************************)

\* What the kernel itself keeps true, whatever the continuations stand for: the
\* modules that add synchronization objects to Threads start from it too.
\* The type of the state after a reschedule rests on the run queues:
\* schedule() reads the head of a queue that queue_map says is not empty, and
\* there is one because the idle thread is always runnable.
KInv ==
    /\ KernelInv(k)
    /\ CurrentOK(k)
    /\ QueuesDistinct(k)
    /\ ticks \in 0..MaxTicks
    /\ pc = [t \in AllThread |-> pc[t]]
    /\ pc[Idle] = "user"

-----------------------------------------------------------------------------
(* What a step does to a thread *)

CountAsleep(l) == WithState(l, l.state \cup {"SLEEPING", "COUNTSLEEP"})
Delayed(l) == WithTimer(Asleep(l), "DELAY")

\* What other threads, DSRs and the clock make of the life l of a thread.
Affected(l, m) ==
    \/ m \in {l, Unsuspended(l), Released(l), CountWoken(l), Readied(l)}
    \/ "suspend" \in Ops /\ m = Suspended(l)
    \/ "kill" \in Ops /\ m = Killed(l)
    \/ l.timer /\ m = Alarmed(l)

\* What a thread with life l that is at p makes of itself.
Acts(l, p, m, r) ==
    /\ l.state = {}
    /\ \/ p = "user" /\ r = "user" /\ m = Exited(l)
       \/ p = "user" /\ r = "delay" /\ m \in {Delayed(l), Alarmed(Delayed(l))}
       \/ /\ p = "user" /\ r = "csleep"
          /\ m \in {l, CountAsleep(SetsSleep(l, "WAIT")), Alarmed(WithTimer(l, "TIMEOUT"))}
       \/ /\ p = "user" /\ r = "ctsleep"
          /\ m = CountAsleep(SetsSleep(WithTimer(l, "TIMEOUT"), "TIMEOUT"))
       \/ p = "ctsleep" /\ r = "csleep" /\ m = TimerOff(l)
       \/ /\ p \in {"delay", "csleep"} /\ r = "user"
          /\ LET l1 == IF p = "delay" THEN TimerOff(l) ELSE l
             IN  m = IF l.wake \in {"DESTRUCT", "EXIT"} THEN Exited(l1) ELSE l1

\* A step changes the life of thread t, and of no other, to m, and its
\* continuation to r.
Turn(t, m, r) ==
    /\ Only(k', k, t, m)
    /\ pc' = [pc EXCEPT ![t] = r]

\* What a step of Threads does to the one thread it touches.
Moves(t) ==
    LET l == Life(k, t)
        m == Life(k', t)
    IN  /\ Turn(t, m, pc'[t])
        /\ \/ Affected(l, m) /\ pc'[t] = pc[t]
           \/ t # Idle /\ Acts(l, pc[t], m, pc'[t])

-----------------------------------------------------------------------------
(* The pieces actions are made of *)

\* unlock() with DSRs still to come is of no concern to the scheduler.
LEMMA UnlockFacts ==
    ASSUME NEW n, KernelInv(n)
    PROVE  /\ KernelInv(Unlock(n))
           /\ CurrentOK(Unlock(n))
           /\ Unlock(n).timer = n.timer
<1> DEFINE u == Unlock(n)
<1>1. u \in KernelState
  BY DEF KernelInv, KernelState, Unlock, SchedLock
<1>2. SameScheduling(u, n) /\ u.timer = n.timer /\ u.sched_lock = "unlock"
  BY DEF KernelInv, KernelState, Unlock, SameScheduling
<1> HIDE DEF u
<1>3. KernelInv(u)
  BY <1>1, <1>2, SameSchedulingInv
<1> QED BY <1>2, <1>3 DEF u, CurrentOK, KernelInv, ReschedulePending

\* Neither is the entry to reschedule().
LEMMA RescheduleFacts ==
    ASSUME NEW n, KernelInv(n)
    PROVE  /\ KernelInv(Reschedule(n))
           /\ CurrentOK(Reschedule(n))
           /\ Reschedule(n).timer = n.timer
<1> DEFINE u == Reschedule(n)
<1>1. u \in KernelState
  BY DEF KernelInv, KernelState, Reschedule, SchedLock
<1>2. SameScheduling(u, n) /\ u.timer = n.timer /\ u.sched_lock = "resched"
  BY DEF KernelInv, KernelState, Reschedule, SameScheduling
<1> HIDE DEF u
<1>3. KernelInv(u)
  BY <1>1, <1>2, SameSchedulingInv
<1> QED BY <1>2, <1>3 DEF u, CurrentOK, KernelInv, ReschedulePending

\* Neither is the counted sleep's wakeup count.
LEMMA WakeupCountFacts ==
    ASSUME NEW n, KernelInv(n), NEW t \in AllThread, NEW c \in Nat
    PROVE  /\ KernelInv([n EXCEPT !.wakeup_count[t] = c])
           /\ Keeps([n EXCEPT !.wakeup_count[t] = c], n)
<1> DEFINE u == [n EXCEPT !.wakeup_count[t] = c]
<1>1. u \in KernelState
  BY DEF KernelInv, KernelState
<1>2. SameScheduling(u, n) /\ Keeps(u, n)
  BY DEF KernelInv, KernelState, SameScheduling, Keeps
<1> HIDE DEF u
<1> QED BY <1>1, <1>2, SameSchedulingInv DEF u

\* Nor a part of a thread's life.
LEMMA WakeupCountLife ==
    ASSUME NEW n, KernelInv(n), QueuesDistinct(n), NEW t \in AllThread, NEW c
    PROVE  Same([n EXCEPT !.wakeup_count[t] = c], n)
<1> DEFINE u == [n EXCEPT !.wakeup_count[t] = c]
<1>1. /\ u.state = n.state
      /\ u.sleep_reason = n.sleep_reason
      /\ u.wake_reason = n.wake_reason
      /\ u.timer = n.timer
      /\ u.wait_queue = n.wait_queue
  BY DEF KernelInv, KernelState
<1> HIDE DEF u
<1> QED BY <1>1, SameFields DEF u

\* counted_sleep() removes the thread from its run queue before it marks it.
LEMMA CountSleepFacts ==
    ASSUME NEW n, KernelInv(n), n.current # Idle
    PROVE  KernelInv(CountSleep(n)) /\ Keeps(CountSleep(n), n)
<1> DEFINE t == n.current
           k1 == Sleep(n)
           s == k1.state[t] \cup {"COUNTSLEEP"}
           u == [k1 EXCEPT !.state[t] = s]
<1>1. t \in AllThread
  BY DEF KernelInv, KernelState
<1>2. KernelInv(k1) /\ Keeps(k1, n) /\ ~Runnable(k1, t)
  BY SleepInv
<1>3. CountSleep(n) = u
  BY DEF CountSleep
<1> HIDE DEF k1, t
<1>4. u \in KernelState
  BY <1>1, <1>2 DEF KernelInv, KernelState, StateBit
<1>5. /\ u.run_queue = k1.run_queue
      /\ u.queue_map = k1.queue_map
      /\ u.state = [k1.state EXCEPT ![t] = s]
      /\ u.suspend_count = k1.suspend_count
      /\ u.priority = k1.priority
      /\ u.original_priority = k1.original_priority
      /\ u.current = k1.current
      /\ u.need_reschedule = k1.need_reschedule
      /\ u.sched_lock = k1.sched_lock
      /\ u.timer = k1.timer
      /\ k1.state \in [AllThread -> SUBSET StateBit]
  BY <1>2 DEF KernelInv, KernelState
<1> HIDE DEF u
<1>6. OnlyState(u, k1, t)
  BY <1>1, <1>2, <1>5 DEF OnlyState, KernelInv, SuspendOK
<1>7. ~Runnable(u, t)
  BY <1>1, <1>5 DEF Runnable, RUNNING
<1>8. QueuesHold(u, RunnableSet(k1) \ {t})
  <2>1. RunnableSet(k1) \ {t} = RunnableSet(k1)
    BY <1>2 DEF RunnableSet
  <2> QED BY <1>2, <1>5, <2>1, RunQueuesAsHold, QueuesHoldFrame DEF KernelInv
<1>9. KernelInv(u)
  BY <1>1, <1>2, <1>4, <1>6, <1>7, <1>8, StoppedInv DEF t
<1>10. Keeps(u, k1)
  BY <1>5 DEF Keeps
<1> QED BY <1>2, <1>3, <1>9, <1>10, KeepsTransitive

\* Its mark goes into the thread's life.
LEMMA CountSleepLife ==
    ASSUME NEW n, KernelInv(n), QueuesDistinct(n), n.current # Idle
    PROVE  Only(CountSleep(n), n, n.current, CountAsleep(Life(n, n.current)))
<1> DEFINE t  == n.current
           k1 == Sleep(n)
           l  == Life(n, t)
           s  == l.state \cup {"SLEEPING", "COUNTSLEEP"}
           u  == CountSleep(n)
<1>1. t \in AllThread
  BY DEF KernelInv, KernelState
<1>2. KernelInv(k1) /\ Only(k1, n, t, Asleep(l))
  BY SleepInv, SleepLife
<1>3. u = [k1 EXCEPT !.state[t] = @ \cup {"COUNTSLEEP"}]
  BY DEF CountSleep
<1>4. k1.state[t] \cup {"COUNTSLEEP"} = s
  BY <1>2 DEF Only, Life, Asleep, WithState
<1> HIDE DEF k1, t, u, l
<1>5. /\ u.state = [k1.state EXCEPT ![t] = s]
      /\ u.sleep_reason = k1.sleep_reason
      /\ u.wake_reason = k1.wake_reason
      /\ u.timer = k1.timer
      /\ u.wait_queue = k1.wait_queue
      /\ k1 \in KernelState
  BY <1>1, <1>2, <1>3, <1>4 DEF KernelInv, KernelState
<1> HIDE DEF s
<1>6. QueuesDistinct(k1) /\ Life(k1, t) = Asleep(l)
  BY <1>2 DEF Only
<1>7. Only(u, k1, t, WithState(Life(k1, t), s))
  BY <1>1, <1>5, <1>6, StateLife
<1>8. WithState(Life(k1, t), s) = CountAsleep(l)
  BY <1>6 DEF WithState, Asleep, CountAsleep, s
<1> QED BY <1>1, <1>2, <1>7, <1>8, OnlyTransitive DEF u, t, l

\* unlock() and reschedule() change no life.
LEMMA LockLife ==
    ASSUME NEW n, KernelInv(n), QueuesDistinct(n)
    PROVE  Same(Unlock(n), n) /\ Same(Reschedule(n), n)
<1> DEFINE u == Unlock(n)
           r == Reschedule(n)
<1>1. /\ u.state = n.state /\ r.state = n.state
      /\ u.sleep_reason = n.sleep_reason /\ r.sleep_reason = n.sleep_reason
      /\ u.wake_reason = n.wake_reason /\ r.wake_reason = n.wake_reason
      /\ u.timer = n.timer /\ r.timer = n.timer
      /\ u.wait_queue = n.wait_queue /\ r.wait_queue = n.wait_queue
  BY DEF KernelInv, KernelState, Unlock, Reschedule
<1> HIDE DEF u, r
<1> QED BY <1>1, SameFields DEF u, r

\* What the steps below use of the invariant.
LEMMA KInvFacts ==
    ASSUME KInv
    PROVE  /\ KernelInv(k) /\ QueuesDistinct(k) /\ k \in KernelState
           /\ self \in AllThread /\ self = k.current
           /\ pc[self] # "user" => self # Idle
           /\ k.sched_lock \in {"thread", "inner"} => Life(k, self).state = {}
           /\ \A t \in AllThread : Life(k, t) \in LifeType
           /\ \A t \in Thread : t \in AllThread /\ t # Idle
<1>1. self \in AllThread /\ self = k.current /\ k \in KernelState
  BY DEF KInv, KernelInv, KernelState, self
<1>2. \A t \in Thread : t \in AllThread /\ t # Idle
  BY KernelAssumption DEF AllThread
<1>3. k.sched_lock \in {"thread", "inner"} => Life(k, self).state = {}
  BY <1>1, LifeRunnable DEF KInv, CurrentOK
<1>4. \A t \in AllThread : Life(k, t) \in LifeType
  BY <1>1, LifeTyped
<1> QED BY <1>1, <1>2, <1>3, <1>4 DEF KInv

\* An operation that ends in unlock() or in reschedule(), changes the life of
\* one thread and moves that thread to continuation c, is a turn of it.
LEMMA TurnStep ==
    ASSUME KInv, NEW n, KernelInv(n), NEW t \in AllThread, NEW m, Only(n, k, t, m),
           k' = Unlock(n) \/ k' = Reschedule(n),
           NEW c, pc' = [pc EXCEPT ![t] = c], t # Idle, UNCHANGED ticks
    PROVE  KInv' /\ Turn(t, m, c) /\ Life(k', t) = m /\ pc'[t] = c
<1>1. KernelInv(k') /\ CurrentOK(k')
  BY UnlockFacts, RescheduleFacts
<1>2. QueuesDistinct(n)
  BY DEF Only
<1>3. Only(k', k, t, m)
  BY <1>2, LockLife, OnlySame
<1>4. pc' = [u \in AllThread |-> pc'[u]] /\ pc'[Idle] = "user" /\ pc'[t] = c
  BY DEF KInv, AllThread
<1> QED BY <1>1, <1>3, <1>4 DEF KInv, Turn, Only

\* The same for one that leaves the continuations alone.
LEMMA PlainTurn ==
    ASSUME KInv, NEW n, KernelInv(n), NEW t \in AllThread, NEW m, Only(n, k, t, m),
           k' = Unlock(n) \/ k' = Reschedule(n), UNCHANGED <<pc, ticks>>
    PROVE  KInv' /\ Turn(t, m, pc[t]) /\ Life(k', t) = m /\ pc'[t] = pc[t]
<1>1. KernelInv(k') /\ CurrentOK(k')
  BY UnlockFacts, RescheduleFacts
<1>2. QueuesDistinct(n)
  BY DEF Only
<1>3. Only(k', k, t, m)
  BY <1>2, LockLife, OnlySame
<1>4. pc' = [pc EXCEPT ![t] = pc[t]]
  BY DEF KInv
<1> QED BY <1>1, <1>3, <1>4 DEF KInv, Turn, Only

\* The same for one that changes no life.
LEMMA IdleTurn ==
    ASSUME KInv, NEW n, KernelInv(n), Same(n, k),
           k' = Unlock(n) \/ k' = Reschedule(n), UNCHANGED <<pc, ticks>>
    PROVE  KInv' /\ \E t \in AllThread : Moves(t)
<1>1. Idle \in AllThread
  BY DEF AllThread
<1>2. Only(n, k, Idle, Life(k, Idle))
  BY <1>1, SameIsOnly
<1>3. KInv' /\ Turn(Idle, Life(k, Idle), pc[Idle]) /\ Life(k', Idle) = Life(k, Idle)
      /\ pc'[Idle] = pc[Idle]
  BY <1>1, <1>2, PlainTurn
<1> QED BY <1>1, <1>3 DEF Moves, Affected

-----------------------------------------------------------------------------
(* Every step keeps the kernel's invariant and is a move of one thread *)

\* The operations one thread, or a DSR, calls on another.
LEMMA OperationOnMoves ==
    ASSUME KInv, NEW t \in Thread, OperationOn(t)
    PROVE  KInv' /\ \E u \in AllThread : Moves(u)
<1> DEFINE l == Life(k, t)
<1>1. KernelInv(k) /\ QueuesDistinct(k) /\ t \in AllThread /\ t # Idle
  BY KInvFacts
<1>2. ASSUME NEW n, KernelInv(n), NEW m, Only(n, k, t, m), Affected(l, m),
             k' = Unlock(n), UNCHANGED <<pc, ticks>>
      PROVE  KInv' /\ \E u \in AllThread : Moves(u)
  <2>1. KInv' /\ Turn(t, m, pc[t]) /\ Life(k', t) = m /\ pc'[t] = pc[t]
    BY <1>1, <1>2, PlainTurn
  <2> QED BY <1>1, <1>2, <2>1 DEF Moves
<1>3. CASE ThreadSuspend(t)
  <2>1. KernelInv(Suspend(k, t)) /\ Only(Suspend(k, t), k, t, Suspended(l))
    BY <1>1, SuspendInv, SuspendLife
  <2>2. Affected(l, Suspended(l))
    BY <1>3 DEF Affected, ThreadSuspend
  <2> QED BY <1>2, <1>3, <2>1, <2>2 DEF ThreadSuspend
<1>4. CASE ThreadResume(t)
  <2>1. KernelInv(Resume(k, t))
    BY <1>1, ResumeInv
  <2>2. PICK m \in {l, Unsuspended(l)} : Only(Resume(k, t), k, t, m)
    BY <1>1, ResumeLife, SameIsOnly
  <2>3. Affected(l, m)
    BY <2>2 DEF Affected
  <2> QED BY <1>2, <1>4, <2>1, <2>2, <2>3 DEF ThreadResume
<1>5. CASE ThreadRelease(t)
  <2>1. KernelInv(Release(k, t)) /\ Only(Release(k, t), k, t, Released(l))
    BY <1>1, ReleaseInv, ReleaseLife
  <2>2. Affected(l, Released(l))
    BY DEF Affected
  <2> QED BY <1>2, <1>5, <2>1, <2>2 DEF ThreadRelease
<1>6. CASE ThreadCountedWake(t)
  <2>1. KernelInv(CountedWake(k, t)) /\ Only(CountedWake(k, t), k, t, CountWoken(l))
    BY <1>1, CountedWakeInv, CountedWakeLife
  <2>2. Affected(l, CountWoken(l))
    BY DEF Affected
  <2> QED BY <1>2, <1>6, <2>1, <2>2 DEF ThreadCountedWake
<1>7. CASE ThreadCancelCountedWake(t)
  <2> DEFINE n == [k EXCEPT !.wakeup_count[t] = 0]
  <2>1. KernelInv(n) /\ Same(n, k)
    BY <1>1, WakeupCountFacts, WakeupCountLife, 0 \in Nat
  <2> QED BY <1>7, <2>1, IdleTurn DEF ThreadCancelCountedWake
<1>8. CASE ThreadKill(t)
  <2>1. KernelInv(Kill(k, t)) /\ Only(Kill(k, t), k, t, Killed(l))
    BY <1>1, KillInv, KillLife
  <2>2. Affected(l, Killed(l))
    BY <1>8 DEF Affected, ThreadKill
  <2> QED BY <1>2, <1>8, <2>1, <2>2 DEF ThreadKill
<1>9. ASSUME NEW p \in UserPriority, ThreadSetPriority(t, p)
      PROVE  KInv' /\ \E u \in AllThread : Moves(u)
  <2>1. KernelInv(SetPriority(k, t, p)) /\ Only(SetPriority(k, t, p), k, t, Readied(l))
    BY <1>1, SetPriorityInv, SetPriorityLife
  <2>2. Affected(l, Readied(l))
    BY DEF Affected
  <2> QED BY <1>2, <1>9, <2>1, <2>2 DEF ThreadSetPriority
<1> QED BY <1>3, <1>4, <1>5, <1>6, <1>7, <1>8, <1>9 DEF OperationOn

\* A thread at application level runs, and is not the idle thread.
LEMMA InThreadFacts ==
    ASSUME KInv, InThread
    PROVE  /\ KernelInv(k) /\ QueuesDistinct(k) /\ k \in KernelState
           /\ self \in AllThread /\ self # Idle /\ self = k.current
           /\ pc[self] = "user"
           /\ Life(k, self).state = {}
BY KInvFacts DEF InThread

\* A turn of the current thread that is one of its acts.
LEMMA ActStep ==
    ASSUME KInv, self # Idle, NEW n, KernelInv(n), NEW m, Only(n, k, self, m),
           k' = Unlock(n) \/ k' = Reschedule(n),
           NEW c, pc' = [pc EXCEPT ![self] = c], UNCHANGED ticks,
           Acts(Life(k, self), pc[self], m, c)
    PROVE  KInv' /\ \E t \in AllThread : Moves(t)
<1>1. self \in AllThread
  BY KInvFacts
<1>2. KInv' /\ Turn(self, m, c) /\ Life(k', self) = m /\ pc'[self] = c
  BY <1>1, TurnStep
<1> DEFINE t == self
<1>3. t \in AllThread /\ t # Idle /\ Turn(t, m, c) /\ Life(k', t) = m /\ pc'[t] = c
      /\ Acts(Life(k, t), pc[t], m, c)
  BY <1>1, <1>2
<1> HIDE DEF t
<1>4. Moves(t)
  BY <1>3 DEF Moves
<1> QED BY <1>2, <1>3, <1>4

\* exit() moves the current thread only.
LEMMA ExitMoves ==
    ASSUME KInv, ThreadExit
    PROVE  KInv' /\ \E t \in AllThread : Moves(t)
<1> DEFINE n == Exit(k)
           m == Exited(Life(k, self))
<1>1. /\ KernelInv(k) /\ QueuesDistinct(k)
      /\ self \in AllThread /\ self # Idle /\ self = k.current
      /\ pc[self] = "user" /\ Life(k, self).state = {}
      /\ k' = Reschedule(n) /\ UNCHANGED <<pc, ticks>>
  BY InThreadFacts DEF ThreadExit
<1>2. KernelInv(n) /\ Only(n, k, self, m)
  BY <1>1, LifeRunnable, ExitInv, ExitLife
<1>3. Acts(Life(k, self), pc[self], m, "user")
  BY <1>1 DEF Acts
<1>4. pc' = [pc EXCEPT ![self] = "user"]
  BY <1>1 DEF KInv
<1> HIDE DEF n, m
<1> QED BY <1>1, <1>2, <1>3, <1>4, ActStep

\* delay() moves the current thread only.
LEMMA DelayMoves ==
    ASSUME KInv, NEW past \in BOOLEAN, ThreadDelay(past)
    PROVE  KInv' /\ \E t \in AllThread : Moves(t)
<1> DEFINE l  == Life(k, self)
           k1 == Sleep(k)
           n  == SetTimer(k1, "DELAY", past)
           m  == IF past THEN Alarmed(Delayed(l)) ELSE Delayed(l)
<1>1. /\ KernelInv(k) /\ QueuesDistinct(k)
      /\ self \in AllThread /\ self # Idle /\ self = k.current
      /\ pc[self] = "user" /\ l.state = {}
      /\ k' = Unlock(n) /\ pc' = [pc EXCEPT ![self] = "delay"] /\ UNCHANGED ticks
  BY InThreadFacts DEF ThreadDelay
<1>2. KernelInv(k1) /\ k1.current = self /\ Only(k1, k, self, Asleep(l))
  BY <1>1, SleepInv, SleepLife DEF Keeps
<1> HIDE DEF k1
<1>3. QueuesDistinct(k1) /\ Life(k1, self) = Asleep(l) /\ "DELAY" \in SleepReason
  BY <1>2 DEF Only, SleepReason
<1>4. KernelInv(n) /\ Only(n, k1, self, m)
  BY <1>2, <1>3, SetTimerInv, SetTimerLife DEF Delayed
<1> HIDE DEF n
<1>5. Only(n, k, self, m)
  BY <1>1, <1>2, <1>4, OnlyTransitive
<1>6. Acts(l, pc[self], m, "delay")
  BY <1>1 DEF Acts
<1> HIDE DEF m
<1> QED BY <1>1, <1>4, <1>5, <1>6, ActStep

\* counted_sleep() moves the current thread only.
LEMMA CountedSleepMoves ==
    ASSUME KInv, ThreadCountedSleep
    PROVE  KInv' /\ \E t \in AllThread : Moves(t)
<1> DEFINE l  == Life(k, self)
           k1 == SetSleepReason(k, "WAIT")
           ks == CountSleep(k1)
           ms == CountAsleep(SetsSleep(l, "WAIT"))
           c  == k.wakeup_count[self] - 1
           kc == [k EXCEPT !.wakeup_count[self] = c]
<1>1. /\ KernelInv(k) /\ QueuesDistinct(k) /\ k \in KernelState
      /\ self \in AllThread /\ self # Idle /\ self = k.current
      /\ pc[self] = "user" /\ l.state = {}
      /\ pc' = [pc EXCEPT ![self] = "csleep"] /\ UNCHANGED ticks
  BY InThreadFacts DEF ThreadCountedSleep
<1>2. k' = Unlock(IF k.wakeup_count[self] = 0 THEN ks ELSE kc)
  BY DEF ThreadCountedSleep
<1>3. CASE k.wakeup_count[self] = 0
  <2>1. KernelInv(k1) /\ k1.current = self /\ Only(k1, k, self, SetsSleep(l, "WAIT"))
    BY <1>1, SetSleepReasonInv, SetSleepReasonLife DEF SleepReason, Keeps
  <2> HIDE DEF k1
  <2>2. QueuesDistinct(k1) /\ Life(k1, self) = SetsSleep(l, "WAIT")
    BY <2>1 DEF Only
  <2>3. KernelInv(ks) /\ Only(ks, k1, self, ms)
    BY <1>1, <2>1, <2>2, CountSleepFacts, CountSleepLife
  <2>4. k' = Unlock(ks)
    BY <1>2, <1>3
  <2> HIDE DEF ks
  <2>5. Only(ks, k, self, ms)
    BY <1>1, <2>1, <2>3, OnlyTransitive
  <2>6. Acts(l, pc[self], ms, "csleep")
    BY <1>1 DEF Acts
  <2> HIDE DEF ms
  <2> QED BY <1>1, <2>3, <2>4, <2>5, <2>6, ActStep
<1>4. CASE k.wakeup_count[self] # 0
  <2>1. k.wakeup_count[self] \in Nat
    BY <1>1 DEF KernelState
  <2>2. c \in Nat
    BY <1>4, <2>1
  <2> HIDE DEF c
  <2>3. KernelInv(kc) /\ Only(kc, k, self, l)
    BY <1>1, <2>2, WakeupCountFacts, WakeupCountLife, SameIsOnly
  <2>4. k' = Unlock(kc)
    BY <1>2, <1>4
  <2> HIDE DEF kc
  <2>5. Acts(l, pc[self], l, "csleep")
    BY <1>1 DEF Acts
  <2> QED BY <1>1, <2>3, <2>4, <2>5, ActStep
<1> QED BY <1>3, <1>4

\* counted_sleep(delay) moves the current thread only.
LEMMA CountedSleepTimedMoves ==
    ASSUME KInv, NEW past \in BOOLEAN, ThreadCountedSleepTimed(past)
    PROVE  KInv' /\ \E t \in AllThread : Moves(t)
<1> DEFINE l  == Life(k, self)
           l1 == WithTimer(l, "TIMEOUT")
           k1 == SetTimer(k, "TIMEOUT", past)
           k2 == SetSleepReason(k1, "TIMEOUT")
           ks == CountSleep(k2)
           ms == CountAsleep(SetsSleep(l1, "TIMEOUT"))
           c  == k.wakeup_count[self] - 1
           kc == [k EXCEPT !.wakeup_count[self] = c]
<1>1. /\ KernelInv(k) /\ QueuesDistinct(k) /\ k \in KernelState
      /\ self \in AllThread /\ self # Idle /\ self = k.current
      /\ pc[self] = "user" /\ l.state = {}
      /\ UNCHANGED ticks
  BY InThreadFacts DEF ThreadCountedSleepTimed
<1>2. /\ KernelInv(k1) /\ k1.current = self
      /\ Only(k1, k, self, IF past THEN Alarmed(l1) ELSE l1)
  BY <1>1, SetTimerInv, SetTimerLife DEF SleepReason
<1>3. \/ /\ k.wakeup_count[self] > 0
         /\ k' = Unlock(kc)
         /\ pc' = [pc EXCEPT ![self] = "csleep"]
      \/ /\ k1.wake_reason[self] # "NONE"
         /\ k' = Unlock(k1)
         /\ pc' = [pc EXCEPT ![self] = "csleep"]
      \/ /\ k1.wake_reason[self] = "NONE"
         /\ k' = Reschedule(ks)
         /\ pc' = [pc EXCEPT ![self] = "ctsleep"]
  BY DEF ThreadCountedSleepTimed
<1> HIDE DEF k1
<1>4. Life(k1, self).wake = k1.wake_reason[self]
  BY DEF Life
<1>5. past <=> k1.wake_reason[self] # "NONE"
  <2>1. CASE past
    <3>1. Life(k1, self) = Alarmed(l1)
      BY <1>2, <2>1 DEF Only
    <3>2. Alarmed(l1).wake = "TIMEOUT"
      BY DEF Alarmed, Woken, SetsWake, TimerOff, WithTimer, Unqueued, WithState
    <3> QED BY <1>4, <2>1, <3>1, <3>2
  <2>2. CASE ~past
    <3>1. Life(k1, self) = l1
      BY <1>2, <2>2 DEF Only
    <3> QED BY <1>4, <2>2, <3>1 DEF WithTimer
  <2> QED BY <2>1, <2>2
<1>6. CASE /\ k.wakeup_count[self] > 0
           /\ k' = Unlock(kc)
           /\ pc' = [pc EXCEPT ![self] = "csleep"]
  <2>1. k.wakeup_count[self] \in Nat
    BY <1>1 DEF KernelState
  <2>2. c \in Nat
    BY <1>6, <2>1
  <2> HIDE DEF c
  <2>3. KernelInv(kc) /\ Only(kc, k, self, l)
    BY <1>1, <2>2, WakeupCountFacts, WakeupCountLife, SameIsOnly
  <2> HIDE DEF kc
  <2>4. Acts(l, pc[self], l, "csleep")
    BY <1>1 DEF Acts
  <2> QED BY <1>1, <1>6, <2>3, <2>4, ActStep
<1>7. CASE /\ k1.wake_reason[self] # "NONE"
           /\ k' = Unlock(k1)
           /\ pc' = [pc EXCEPT ![self] = "csleep"]
  <2>1. Only(k1, k, self, Alarmed(l1))
    BY <1>2, <1>5, <1>7
  <2>2. Acts(l, pc[self], Alarmed(l1), "csleep")
    BY <1>1 DEF Acts
  <2> HIDE DEF l1
  <2> QED BY <1>1, <1>2, <1>7, <2>1, <2>2, ActStep
<1>8. CASE /\ k1.wake_reason[self] = "NONE"
           /\ k' = Reschedule(ks)
           /\ pc' = [pc EXCEPT ![self] = "ctsleep"]
  <2>1. Only(k1, k, self, l1) /\ QueuesDistinct(k1) /\ Life(k1, self) = l1
    BY <1>2, <1>5, <1>8 DEF Only
  <2>2. KernelInv(k2) /\ k2.current = self /\ Only(k2, k1, self, SetsSleep(l1, "TIMEOUT"))
    BY <1>2, <2>1, SetSleepReasonInv, SetSleepReasonLife DEF SleepReason, Keeps, KernelInv
  <2> HIDE DEF k2
  <2>3. QueuesDistinct(k2) /\ Life(k2, self) = SetsSleep(l1, "TIMEOUT")
    BY <2>2 DEF Only
  <2>4. KernelInv(ks) /\ Only(ks, k2, self, ms)
    BY <1>1, <2>2, <2>3, CountSleepFacts, CountSleepLife
  <2> HIDE DEF ks
  <2>5. Only(ks, k, self, ms)
    BY <1>1, <2>1, <2>2, <2>4, OnlyTransitive
  <2>6. Acts(l, pc[self], ms, "ctsleep")
    BY <1>1 DEF Acts
  <2> HIDE DEF ms
  <2> QED BY <1>1, <1>8, <2>4, <2>5, <2>6, ActStep
<1> QED BY <1>3, <1>6, <1>7, <1>8

\* Back from its reschedule() it clears the timer of the current thread.
LEMMA CountedSleepTimedWokenMoves ==
    ASSUME KInv, CountedSleepTimedWoken
    PROVE  KInv' /\ \E t \in AllThread : Moves(t)
<1> DEFINE l == Life(k, self)
           n == ClearTimer(k, self)
<1>1. /\ KernelInv(k) /\ QueuesDistinct(k) /\ k \in KernelState
      /\ self \in AllThread /\ self # Idle
      /\ pc[self] = "ctsleep" /\ l.state = {}
      /\ k' = Unlock(n) /\ pc' = [pc EXCEPT ![self] = "csleep"] /\ UNCHANGED ticks
  BY KInvFacts DEF CountedSleepTimedWoken
<1>2. KernelInv(n) /\ Only(n, k, self, TimerOff(l))
  BY <1>1, ClearTimerInv, ClearTimerLife
<1>3. Acts(l, pc[self], TimerOff(l), "csleep")
  BY <1>1 DEF Acts
<1> HIDE DEF n
<1> QED BY <1>1, <1>2, <1>3, ActStep

\* The end of a sleep moves the current thread only.
LEMMA SleepReturnMoves ==
    ASSUME KInv, SleepReturn
    PROVE  KInv' /\ \E t \in AllThread : Moves(t)
<1> DEFINE l  == Life(k, self)
           l1 == IF pc[self] = "delay" THEN TimerOff(l) ELSE l
           k1 == IF pc[self] = "delay" THEN ClearTimer(k, self) ELSE k
           dies == l.wake \in {"DESTRUCT", "EXIT"}
           m  == IF dies THEN Exited(l1) ELSE l1
           n  == IF dies THEN Exit(k1) ELSE k1
<1>1. /\ KernelInv(k) /\ QueuesDistinct(k) /\ k \in KernelState
      /\ self \in AllThread /\ self # Idle /\ self = k.current
      /\ pc[self] \in {"delay", "csleep"} /\ l.state = {}
      /\ pc' = [pc EXCEPT ![self] = "user"] /\ UNCHANGED ticks
  BY KInvFacts DEF SleepReturn
<1>2. /\ KernelInv(k1) /\ k1.current = self
      /\ Only(k1, k, self, l1)
  <2>1. CASE pc[self] = "delay"
    BY <1>1, <2>1, ClearTimerInv, ClearTimerLife DEF Keeps
  <2>2. CASE pc[self] # "delay"
    BY <1>1, <2>2 DEF Only
  <2> QED BY <2>1, <2>2
<1>3. QueuesDistinct(k1) /\ Life(k1, self) = l1 /\ l1.state = {}
  BY <1>1, <1>2 DEF Only, TimerOff
<1>4. l.wake = k.wake_reason[self]
  BY DEF Life
<1>5. k' = Unlock(n) \/ k' = Reschedule(n)
  BY <1>4 DEF SleepReturn
<1>6. Acts(l, pc[self], m, "user")
  BY <1>1 DEF Acts
<1> HIDE DEF k1, l1
<1>7. KernelInv(n) /\ Only(n, k, self, m)
  <2>1. CASE dies
    <3>1. KernelInv(n) /\ Only(n, k1, self, m)
      BY <1>1, <1>2, <1>3, <2>1, LifeRunnable, ExitInv, ExitLife
    <3> QED BY <1>1, <1>2, <3>1, OnlyTransitive
  <2>2. CASE ~dies
    BY <1>2, <2>2
  <2> QED BY <2>1, <2>2
<1> HIDE DEF n, m
<1> QED BY <1>1, <1>5, <1>6, <1>7, ActStep

\* Steps of the kernel itself.
LEMMA SchedulerMoves ==
    ASSUME KInv,
           \/ \E t \in Thread : StartResume(t) \/ ClockDsrAlarm(t)
           \/ SchedulerStart \/ ClockDsr \/ ClockDsrTimeslice \/ RescheduleOrReturn
    PROVE  KInv' /\ \E t \in AllThread : Moves(t)
<1>1. KernelInv(k) /\ QueuesDistinct(k) /\ k \in KernelState
      /\ \A t \in Thread : t \in AllThread
  BY KInvFacts
<1>2. ticks \in 0..MaxTicks /\ 0 \in 0..MaxTicks /\ Idle \in AllThread
  BY ThreadsAssumption DEF KInv, AllThread
<1>3. ASSUME NEW t \in AllThread, NEW m, Only(k', k, t, m), Affected(Life(k, t), m),
             KernelInv(k'), CurrentOK(k'), UNCHANGED pc, ticks' \in 0..MaxTicks
      PROVE  KInv' /\ \E u \in AllThread : Moves(u)
  <2>1. QueuesDistinct(k') /\ Life(k', t) = m /\ pc'[t] = pc[t]
        /\ pc' = [pc EXCEPT ![t] = pc[t]]
    BY <1>3 DEF Only, KInv
  <2>2. KInv'
    BY <1>3, <2>1 DEF KInv
  <2>3. Moves(t)
    BY <1>3, <2>1 DEF Moves, Turn
  <2> QED BY <2>2, <2>3
<1>4. ASSUME Same(k', k), KernelInv(k'), CurrentOK(k'), UNCHANGED pc,
             ticks' \in 0..MaxTicks
      PROVE  KInv' /\ \E u \in AllThread : Moves(u)
  <2>1. Only(k', k, Idle, Life(k, Idle)) /\ Affected(Life(k, Idle), Life(k, Idle))
    BY <1>2, <1>4, SameIsOnly DEF Affected
  <2> QED BY <1>2, <1>3, <1>4, <2>1
<1>5. ASSUME NEW t \in Thread, StartResume(t)
      PROVE  KInv' /\ \E u \in AllThread : Moves(u)
  <2>1. KernelInv(Resume(k, t)) /\ Keeps(Resume(k, t), k)
    BY <1>1, ResumeInv
  <2>2. CurrentOK(Resume(k, t))
    BY <1>5, <2>1 DEF StartResume, Keeps, KernelInv, CurrentOK, ReschedulePending
  <2>3. PICK m \in {Life(k, t), Unsuspended(Life(k, t))} : Only(Resume(k, t), k, t, m)
    BY <1>1, ResumeLife, SameIsOnly
  <2>4. Affected(Life(k, t), m)
    BY <2>3 DEF Affected
  <2> QED BY <1>1, <1>2, <1>3, <1>5, <2>1, <2>2, <2>3, <2>4 DEF StartResume
<1>6. ASSUME NEW t \in Thread, ClockDsrAlarm(t)
      PROVE  KInv' /\ \E u \in AllThread : Moves(u)
  <2> DEFINE n == ThreadTimerAlarm(k, t)
             m == Alarmed(Life(k, t))
  <2>1. KernelInv(n) /\ Keeps(n, k) /\ Only(n, k, t, m)
    BY <1>1, ThreadTimerAlarmInv, ThreadTimerAlarmLife
  <2>2. k' = n /\ k.timer[t] /\ k.sched_lock = "tick" /\ UNCHANGED <<pc, ticks>>
    BY <1>6 DEF ClockDsrAlarm
  <2>3. CurrentOK(n)
    BY <2>1, <2>2 DEF Keeps, KernelInv, CurrentOK, ReschedulePending
  <2>4. Affected(Life(k, t), m)
    BY <2>2 DEF Affected, Life
  <2> HIDE DEF n, m
  <2> QED BY <1>1, <1>2, <1>3, <2>1, <2>2, <2>3, <2>4
<1>7. CASE SchedulerStart
  BY <1>1, <1>2, <1>4, <1>7, StartCpuInv, StartCpuLife DEF SchedulerStart
<1>8. CASE ClockDsr
  <2> DEFINE n == [k EXCEPT !.sched_lock = "tick"]
  <2>1. n \in KernelState
    BY <1>1 DEF KernelState, SchedLock
  <2>2. SameScheduling(n, k) /\ n.sched_lock = "tick"
    BY <1>1 DEF KernelState, SameScheduling
  <2>3. k' = n /\ UNCHANGED pc /\ ticks' = ticks + 1 /\ ticks < MaxTicks
    BY <1>8 DEF ClockDsr
  <2>4. /\ n.state = k.state
        /\ n.sleep_reason = k.sleep_reason
        /\ n.wake_reason = k.wake_reason
        /\ n.timer = k.timer
        /\ n.wait_queue = k.wait_queue
    BY <1>1 DEF KernelState
  <2> HIDE DEF n
  <2>5. KernelInv(n) /\ Same(n, k)
    BY <1>1, <2>1, <2>2, <2>4, SameSchedulingInv, SameFields
  <2>6. CurrentOK(n)
    BY <2>2, <2>5 DEF KernelInv, CurrentOK, ReschedulePending
  <2>7. ticks' \in 0..MaxTicks
    BY <1>2, <2>3, ThreadsAssumption
  <2> QED BY <1>4, <2>3, <2>5, <2>6, <2>7
<1>9. CASE ClockDsrTimeslice
  BY <1>1, <1>9, TimesliceInv, TimesliceLife, IdleTurn DEF ClockDsrTimeslice
<1>10. CASE RescheduleOrReturn
  BY <1>1, <1>2, <1>4, <1>10, UnlockInnerInv, UnlockInnerLife DEF RescheduleOrReturn
<1> QED BY <1>5, <1>6, <1>7, <1>8, <1>9, <1>10

\* Every step of Threads keeps the kernel's invariant and touches one thread.
LEMMA NextMoves ==
    ASSUME KInv, Next
    PROVE  KInv' /\ \E t \in AllThread : Moves(t)
<1>1. KernelInv(k) /\ QueuesDistinct(k) /\ k \in KernelState
  BY KInvFacts
<1>2. ASSUME NEW t \in Thread, OperationOn(t)
      PROVE  KInv' /\ \E u \in AllThread : Moves(u)
  BY <1>2, OperationOnMoves
<1>3. CASE ThreadExit
  BY <1>3, ExitMoves
<1>4. CASE ThreadYield
  BY <1>1, <1>4, YieldInv, YieldLife, IdleTurn DEF ThreadYield
<1>5. ASSUME NEW p \in UserPriority, ThreadRotateQueue(p)
      PROVE  KInv' /\ \E u \in AllThread : Moves(u)
  <2>1. p \in Priority
    BY KernelAssumption DEF UserPriority, Priority
  <2> QED BY <1>1, <1>5, <2>1, RotateQueueInv, RotateQueueLife, IdleTurn
          DEF ThreadRotateQueue
<1>6. ASSUME NEW past \in BOOLEAN, ThreadDelay(past)
      PROVE  KInv' /\ \E u \in AllThread : Moves(u)
  BY <1>6, DelayMoves
<1>7. CASE ThreadCountedSleep
  BY <1>7, CountedSleepMoves
<1>8. ASSUME NEW past \in BOOLEAN, ThreadCountedSleepTimed(past)
      PROVE  KInv' /\ \E u \in AllThread : Moves(u)
  BY <1>8, CountedSleepTimedMoves
<1>9. CASE CountedSleepTimedWoken
  BY <1>9, CountedSleepTimedWokenMoves
<1>10. CASE SleepReturn
  BY <1>10, SleepReturnMoves
<1>11. CASE \/ \E t \in Thread : StartResume(t) \/ ClockDsrAlarm(t)
            \/ SchedulerStart \/ ClockDsr \/ ClockDsrTimeslice \/ RescheduleOrReturn
  BY <1>11, SchedulerMoves
<1> QED BY <1>2, <1>3, <1>4, <1>5, <1>6, <1>7, <1>8, <1>9, <1>10, <1>11 DEF Next

-----------------------------------------------------------------------------
(* Threads that sleep on the wait queue of a synchronization object *)

\* What is true of a thread that, when it sleeps, sleeps on the queues Q: it is
\* on no queue otherwise, it has a sleep reason, and no wake reason yet.
SleeperOK(l, Q) ==
    /\ "COUNTSLEEP" \in l.state => "SLEEPING" \in l.state
    /\ "SLEEPING" \in l.state => l.sleep # "NONE"
    /\ l.sleep # "NONE" => l.wake = "NONE"
    /\ l.on = IF "SLEEPING" \in l.state THEN Q ELSE {}

\* What others do to such a thread keeps it so, puts it on no queue and does
\* not take back that it has been woken.
LEMMA AffectedSleeper ==
    ASSUME NEW l \in LifeType, NEW Q, SleeperOK(l, Q), NEW m, Affected(l, m)
    PROVE  /\ SleeperOK(m, Q)
           /\ m.on \subseteq l.on
           /\ l.wake = "DONE" => m.wake = "DONE"
<1>1. l.state \subseteq StateBit /\ l.timer \in BOOLEAN
  BY DEF LifeType
<1>2. CASE m = l
  BY <1>2
<1>3. CASE m = Suspended(l)
  BY <1>3 DEF SleeperOK, Suspended, WithState
<1>4. CASE m = Unsuspended(l)
  BY <1>4, UnsuspendedFields DEF SleeperOK
<1>5. CASE m = Released(l)
  <2>1. CASE l.sleep = "NONE"
    BY <1>5, <2>1, ReleasedFields
  <2>2. CASE l.sleep # "NONE"
    BY <1>5, <2>2, ReleasedFields DEF SleeperOK, SLEEPSET
  <2> QED BY <2>1, <2>2
<1>6. CASE m = CountWoken(l)
  <2>1. CASE "COUNTSLEEP" \notin l.state
    BY <1>6, <2>1, CountWokenFields
  <2>2. CASE "COUNTSLEEP" \in l.state
    BY <1>6, <2>2, CountWokenFields DEF SleeperOK, SLEEPSET
  <2> QED BY <2>1, <2>2
<1>7. CASE m = Killed(l)
  <2>1. CASE l.wake = "EXIT"
    <3>1. /\ m.state = (l.state \ {"SUSPENDED"}) \ SLEEPSET
          /\ m.sleep = "NONE" /\ m.wake = "EXIT" /\ m.on \in {l.on, {}}
      BY <1>7, <2>1, KilledFields DEF SleeperOK
    <3> QED BY <2>1, <3>1 DEF SleeperOK, SLEEPSET
  <2>2. CASE l.wake # "EXIT" /\ l.sleep = "NONE"
    <3>1. /\ m.state = {"EXITED"} /\ m.sleep = "NONE" /\ m.wake = l.wake
          /\ m.on \in {l.on, {}}
      BY <1>7, <2>2, KilledFields
    <3> QED BY <2>2, <3>1 DEF SleeperOK
  <2>3. CASE l.wake # "EXIT" /\ l.sleep # "NONE"
    <3>1. /\ m.state = (l.state \ {"SUSPENDED"}) \ SLEEPSET
          /\ m.sleep = "NONE" /\ m.wake = "EXIT" /\ m.on \in {l.on, {}}
          /\ l.state \cap SLEEPSET # {} => m.on = {}
      BY <1>7, <2>3, KilledFields
    <3> QED BY <2>3, <3>1 DEF SleeperOK, SLEEPSET
  <2> QED BY <2>1, <2>2, <2>3
<1>8. CASE m = Readied(l)
  BY <1>8 DEF SleeperOK, Readied, Unqueued
<1>9. CASE m = Alarmed(l)
  <2>1. CASE l.sleep \in {"DELAY", "TIMEOUT"}
    <3>1. /\ m.state = l.state \ SLEEPSET /\ m.sleep = "NONE"
          /\ m.on = IF l.state \cap SLEEPSET = {} THEN l.on ELSE {}
      BY <1>9, <2>1, AlarmedFields
    <3>2. l.wake = "NONE"
      BY <2>1 DEF SleeperOK
    <3> QED BY <3>1, <3>2 DEF SleeperOK, SLEEPSET
  <2>2. CASE l.sleep \notin {"DELAY", "TIMEOUT"}
    <3>1. m = TimerOff(l)
      BY <1>9, <2>2, AlarmedFields
    <3>2. /\ m.state = l.state /\ m.sleep = l.sleep /\ m.wake = l.wake
          /\ m.on = l.on
      BY <3>1 DEF TimerOff
    <3> QED BY <2>2, <3>2 DEF SleeperOK
  <2> QED BY <2>1, <2>2
<1> QED BY <1>2, <1>3, <1>4, <1>5, <1>6, <1>7, <1>8, <1>9 DEF Affected

\* delay(), counted_sleep() and exit() use no wait queue.
LEMMA ActsSleeper ==
    ASSUME NEW l \in LifeType, SleeperOK(l, {}), NEW p, NEW m, NEW r, Acts(l, p, m, r)
    PROVE  SleeperOK(m, {}) /\ p \in PC /\ r \in PC
<1>1. l.state = {} /\ l.on = {} /\ (l.sleep # "NONE" => l.wake = "NONE")
  BY DEF Acts, SleeperOK
<1>2. p \in PC /\ r \in PC
  BY DEF Acts, PC
<1> SUFFICES SleeperOK(m, {})
  BY <1>2
<1>3. CASE m = l
  BY <1>3
<1>4. CASE m = Exited(l)
  BY <1>1, <1>4 DEF SleeperOK, Exited, TimerOff, WithState
<1>5. CASE m \in {Delayed(l), Alarmed(Delayed(l))}
  <2> DEFINE d == Delayed(l)
  <2>1. d.state = {"SLEEPING"} /\ d.sleep = "DELAY" /\ d.wake = "NONE" /\ d.on = {}
    BY <1>1 DEF Delayed, WithTimer, Asleep, WithState
  <2> HIDE DEF d
  <2>2. m \in {d, Alarmed(d)}
    BY <1>5 DEF d
  <2> QED BY <2>1, <2>2, AlarmedFields DEF SleeperOK, SLEEPSET
<1>6. CASE m = CountAsleep(SetsSleep(l, "WAIT"))
  BY <1>1, <1>6 DEF SleeperOK, CountAsleep, SetsSleep, WithState
<1>7. CASE m = Alarmed(WithTimer(l, "TIMEOUT"))
  <2> DEFINE d == WithTimer(l, "TIMEOUT")
  <2>1. d.state = {} /\ d.sleep = "TIMEOUT" /\ d.wake = "NONE" /\ d.on = {}
    BY <1>1 DEF WithTimer
  <2>2. m = Alarmed(d)
    BY <1>7
  <2> HIDE DEF d
  <2> QED BY <2>1, <2>2, AlarmedFields DEF SleeperOK, SLEEPSET
<1>8. CASE m = CountAsleep(SetsSleep(WithTimer(l, "TIMEOUT"), "TIMEOUT"))
  BY <1>1, <1>8 DEF SleeperOK, CountAsleep, SetsSleep, WithState, WithTimer
<1>9. CASE m = TimerOff(l)
  BY <1>1, <1>9 DEF SleeperOK, TimerOff
<1>10. CASE m = Exited(TimerOff(l))
  BY <1>1, <1>10 DEF SleeperOK, Exited, TimerOff, WithState
<1> QED BY <1>2, <1>3, <1>4, <1>5, <1>6, <1>7, <1>8, <1>9, <1>10 DEF Acts

\* A running thread that sleeps on a queue, and one that is woken there.
LEMMA BlockedSleeper ==
    ASSUME NEW l, SleeperOK(l, {}), l.state = {}, NEW r \in SleepReason \ {"NONE"}, NEW q
    PROVE  SleeperOK(Blocked(l, r, q), {q}) /\ Blocked(l, r, q).on = {q}
BY DEF SleeperOK, Blocked

\* A thread taken off a wait queue no longer sleeps.
LEMMA DequeuedSleeper ==
    ASSUME NEW l, NEW r, NEW Q
    PROVE  SleeperOK(Dequeued(l, r), Q)
BY DEF SleeperOK, Dequeued, SLEEPSET

\* set_timer() of a thread that runs: it is on no queue and runs on, and a
\* deadline that has passed leaves a wake reason.
LEMMA TimerStarts ==
    ASSUME KInv, InThread, NEW past \in BOOLEAN, SleeperOK(Life(k, self), {})
    PROVE  LET k1 == SetTimer(k, "TIMEOUT", past)
               m  == Life(k1, self)
           IN  /\ KernelInv(k1) /\ k1.current = self
               /\ Only(k1, k, self, m)
               /\ SleeperOK(m, {}) /\ m.state = {}
               /\ m.wake = k1.wake_reason[self]
<1> DEFINE l  == Life(k, self)
           d  == WithTimer(l, "TIMEOUT")
           k1 == SetTimer(k, "TIMEOUT", past)
           m  == Life(k1, self)
<1>1. /\ KernelInv(k) /\ QueuesDistinct(k)
      /\ self \in AllThread /\ self # Idle /\ self = k.current
      /\ l.state = {}
  BY InThreadFacts
<1>2. KernelInv(k1) /\ k1.current = self /\ Only(k1, k, self, IF past THEN Alarmed(d) ELSE d)
  BY <1>1, SetTimerInv, SetTimerLife DEF SleepReason
<1> HIDE DEF k1
<1>3. Only(k1, k, self, m) /\ m = IF past THEN Alarmed(d) ELSE d
  BY <1>2 DEF Only
<1>4. d.state = {} /\ d.sleep = "TIMEOUT" /\ d.wake = "NONE" /\ d.on = {}
  BY <1>1 DEF WithTimer, SleeperOK
<1>5. m.wake = k1.wake_reason[self]
  BY DEF Life
<1> HIDE DEF d, m
<1>6. SleeperOK(m, {}) /\ m.state = {}
  <2>1. CASE past
    BY <1>3, <1>4, <2>1, AlarmedFields DEF SleeperOK, SLEEPSET
  <2>2. CASE ~past
    BY <1>3, <1>4, <2>2 DEF SleeperOK
  <2> QED BY <2>1, <2>2
<1> QED BY <1>2, <1>3, <1>5, <1>6 DEF k1, m

\* clear_timer() of the current thread, at once or on the way out of a wait.
LEMMA TimerEnds ==
    ASSUME NEW n, KernelInv(n), n.current \in AllThread, NEW t \in AllThread,
           NEW l, Only(n, k, t, l), SleeperOK(l, {}), l.state = {}
    PROVE  /\ KernelInv(ClearTimer(n, t))
           /\ ClearTimer(n, t).current = n.current
           /\ Only(ClearTimer(n, t), k, t, TimerOff(l))
           /\ SleeperOK(TimerOff(l), {}) /\ TimerOff(l).state = {}
           /\ TimerOff(l).wake = l.wake
<1>1. n \in KernelState /\ QueuesDistinct(n) /\ Life(n, t) = l
  BY DEF KernelInv, Only
<1>2. KernelInv(ClearTimer(n, t)) /\ Only(ClearTimer(n, t), n, t, TimerOff(l))
      /\ ClearTimer(n, t).current = n.current
  BY <1>1, ClearTimerInv, ClearTimerLife DEF Keeps
<1>3. SleeperOK(TimerOff(l), {}) /\ TimerOff(l).state = {} /\ TimerOff(l).wake = l.wake
  BY DEF SleeperOK, TimerOff
<1> QED BY <1>2, <1>3, OnlyTransitive

-----------------------------------------------------------------------------
(* What is true of each thread *)

\* A thread with life l that is at p: it has a sleep reason exactly while it
\* sleeps, so that set_timer(), release() and kill() tell a sleeping thread
\* from others; no wake reason is then pending, and the timer of a sleep with
\* a deadline runs; it does not sleep in application code; a killed thread does
\* not get back there alive; and a timer belongs to a sleep in progress.
ThreadOK(l, p) ==
    /\ p \in PC
    /\ "COUNTSLEEP" \in l.state => "SLEEPING" \in l.state
    /\ "SLEEPING" \in l.state <=> l.sleep # "NONE"
    /\ "SLEEPING" \in l.state =>
         /\ l.wake = "NONE"
         /\ l.sleep \in {"DELAY", "TIMEOUT"} => l.timer
         /\ "EXITED" \notin l.state
         /\ p # "user"
    /\ l.wake = "EXIT" /\ p = "user" => "EXITED" \in l.state
    /\ l.timer => p \in {"delay", "ctsleep"}

\* The inductive invariant.
Inv == KInv /\ \A t \in AllThread : ThreadOK(Life(k, t), pc[t])

\* Death is not undone.
StillDead(l, m) ==
    /\ "EXITED" \in l.state => "EXITED" \in m.state
    /\ l.wake = "EXIT" => m.wake = "EXIT"

\* What others do to a thread keeps it right, dead or alive.
LEMMA AffectedOK ==
    ASSUME NEW l \in LifeType, NEW p, ThreadOK(l, p), NEW m, Affected(l, m)
    PROVE  ThreadOK(m, p) /\ StillDead(l, m)
<1>1. l.state \subseteq StateBit
  BY DEF LifeType
<1>2. CASE m = l
  BY <1>2 DEF StillDead
<1>3. CASE m = Suspended(l)
  BY <1>3 DEF ThreadOK, StillDead, Suspended, WithState
<1>4. CASE m = Unsuspended(l)
  BY <1>4, UnsuspendedFields DEF ThreadOK, StillDead
<1>5. CASE m = Released(l)
  BY <1>1, <1>5, ReleasedFields DEF ThreadOK, StillDead, SLEEPSET
<1>6. CASE m = CountWoken(l)
  BY <1>1, <1>6, CountWokenFields DEF ThreadOK, StillDead, SLEEPSET
<1>7. CASE m = Killed(l)
  <2>1. CASE l.wake = "EXIT"
    <3>1. /\ m.state = (l.state \ {"SUSPENDED"}) \ SLEEPSET
          /\ m.sleep = "NONE" /\ m.wake = "EXIT" /\ m.timer = FALSE
      BY <1>7, <2>1, KilledFields DEF ThreadOK
    <3> QED BY <2>1, <3>1 DEF ThreadOK, StillDead, SLEEPSET
  <2>2. CASE l.wake # "EXIT" /\ l.sleep = "NONE"
    <3>1. m.state = {"EXITED"} /\ m.sleep = "NONE" /\ m.wake = l.wake /\ m.timer = FALSE
      BY <1>7, <2>2, KilledFields
    <3> QED BY <2>2, <3>1 DEF ThreadOK, StillDead
  <2>3. CASE l.wake # "EXIT" /\ l.sleep # "NONE"
    <3>1. /\ m.state = (l.state \ {"SUSPENDED"}) \ SLEEPSET
          /\ m.sleep = "NONE" /\ m.wake = "EXIT" /\ m.timer = FALSE
      BY <1>7, <2>3, KilledFields
    <3> QED BY <2>3, <3>1 DEF ThreadOK, StillDead, SLEEPSET
  <2> QED BY <2>1, <2>2, <2>3
<1>8. CASE m = Readied(l)
  BY <1>8 DEF ThreadOK, StillDead, Readied, Unqueued
<1>9. CASE m = Alarmed(l)
  <2>1. CASE l.sleep \in {"DELAY", "TIMEOUT"}
    <3>1. /\ m.state = l.state \ SLEEPSET /\ m.sleep = "NONE"
          /\ m.wake # "EXIT" /\ m.timer = FALSE
      BY <1>9, <2>1, AlarmedFields
    <3>2. l.wake = "NONE"
      BY <2>1 DEF ThreadOK
    <3> QED BY <3>1, <3>2 DEF ThreadOK, StillDead, SLEEPSET
  <2>2. CASE l.sleep \notin {"DELAY", "TIMEOUT"}
    <3>1. m = TimerOff(l)
      BY <1>9, <2>2, AlarmedFields
    <3>2. /\ m.state = l.state /\ m.sleep = l.sleep /\ m.wake = l.wake
          /\ m.timer = FALSE
      BY <3>1 DEF TimerOff
    <3> QED BY <2>2, <3>2 DEF ThreadOK, StillDead
  <2> QED BY <2>1, <2>2
<1> QED BY <1>2, <1>3, <1>4, <1>5, <1>6, <1>7, <1>8, <1>9 DEF Affected

\* So does what it does itself.
LEMMA ActsOK ==
    ASSUME NEW l \in LifeType, NEW p, ThreadOK(l, p), NEW m, NEW r, Acts(l, p, m, r)
    PROVE  ThreadOK(m, r) /\ StillDead(l, m)
<1>1. /\ l.state = {} /\ l.sleep = "NONE" /\ (p = "user" => ~l.timer /\ l.wake # "EXIT")
      /\ \A x \in {"user", "delay", "csleep", "ctsleep"} : x \in PC
  BY DEF Acts, ThreadOK, PC
<1>2. CASE p = "user" /\ r = "user" /\ m = Exited(l)
  BY <1>1, <1>2 DEF ThreadOK, StillDead, Exited, TimerOff, WithState
<1>3. CASE p = "user" /\ r = "delay" /\ m \in {Delayed(l), Alarmed(Delayed(l))}
  <2> DEFINE d == Delayed(l)
  <2>1. d.state = {"SLEEPING"} /\ d.sleep = "DELAY" /\ d.wake = "NONE" /\ d.timer = TRUE
    BY <1>1 DEF Delayed, WithTimer, Asleep, WithState
  <2> HIDE DEF d
  <2>2. m \in {d, Alarmed(d)}
    BY <1>3 DEF d
  <2> QED BY <1>1, <1>3, <2>1, <2>2, AlarmedFields DEF ThreadOK, StillDead, SLEEPSET
<1>4. CASE p = "user" /\ r = "csleep" /\ m = l
  BY <1>1, <1>4 DEF ThreadOK, StillDead
<1>5. CASE p = "user" /\ r = "csleep" /\ m = CountAsleep(SetsSleep(l, "WAIT"))
  BY <1>1, <1>5 DEF ThreadOK, StillDead, CountAsleep, SetsSleep, WithState
<1>6. CASE p = "user" /\ r = "csleep" /\ m = Alarmed(WithTimer(l, "TIMEOUT"))
  <2> DEFINE d == WithTimer(l, "TIMEOUT")
  <2>1. d.state = {} /\ d.sleep = "TIMEOUT" /\ d.wake = "NONE" /\ d.timer = TRUE
    BY <1>1 DEF WithTimer
  <2>2. m = Alarmed(d)
    BY <1>6
  <2> HIDE DEF d
  <2> QED BY <1>1, <1>6, <2>1, <2>2, AlarmedFields DEF ThreadOK, StillDead, SLEEPSET
<1>7. CASE /\ p = "user" /\ r = "ctsleep"
           /\ m = CountAsleep(SetsSleep(WithTimer(l, "TIMEOUT"), "TIMEOUT"))
  BY <1>1, <1>7 DEF ThreadOK, StillDead, CountAsleep, SetsSleep, WithState, WithTimer
<1>8. CASE p = "ctsleep" /\ r = "csleep" /\ m = TimerOff(l)
  BY <1>1, <1>8 DEF ThreadOK, StillDead, TimerOff
<1>9. CASE /\ p \in {"delay", "csleep"} /\ r = "user"
           /\ LET l1 == IF p = "delay" THEN TimerOff(l) ELSE l
              IN  m = IF l.wake \in {"DESTRUCT", "EXIT"} THEN Exited(l1) ELSE l1
  <2> DEFINE l1 == IF p = "delay" THEN TimerOff(l) ELSE l
  <2>1. l1.state = {} /\ l1.sleep = "NONE" /\ l1.wake = l.wake /\ ~l1.timer
    BY <1>1, <1>9 DEF TimerOff, ThreadOK
  <2>2. m = IF l.wake \in {"DESTRUCT", "EXIT"} THEN Exited(l1) ELSE l1
    BY <1>9
  <2> HIDE DEF l1
  <2> QED BY <1>1, <1>9, <2>1, <2>2 DEF ThreadOK, StillDead, Exited, TimerOff, WithState
<1> QED BY <1>2, <1>3, <1>4, <1>5, <1>6, <1>7, <1>8, <1>9 DEF Acts

-----------------------------------------------------------------------------
(* The invariant is inductive *)

\* The kernel as it starts, before any constructor of an application thread
\* has been followed by resume().
LEMMA InitKInv ==
    ASSUME Init
    PROVE  /\ KInv
           /\ \A t \in AllThread :
                 /\ pc[t] = "user"
                 /\ Life(k, t) = [state |-> IF t = Idle THEN {} ELSE {"SUSPENDED"},
                                  sleep |-> "NONE", wake |-> "NONE",
                                  timer |-> FALSE, on |-> {}]
<1> DEFINE prio == [t \in AllThread |->
                      IF t = Idle THEN MinPriority ELSE BasePriority[t]]
<1>1. prio \in [AllThread -> Priority]
  BY KernelAssumption, ThreadsAssumption DEF AllThread, Priority, UserPriority
<1>2. \A t \in AllThread : t = Idle <=> prio[t] = MinPriority
  BY KernelAssumption, ThreadsAssumption DEF AllThread, UserPriority
<1>3. k = KernelInit(prio)
  BY DEF Init
<1> HIDE DEF prio
<1>4. KernelInv(k) /\ CurrentOK(k)
  BY <1>1, <1>2, <1>3, KernelInitInv
<1>5. /\ QueuesDistinct(k)
      /\ \A t \in AllThread :
           Life(k, t) = [state |-> IF t = Idle THEN {} ELSE {"SUSPENDED"},
                         sleep |-> "NONE", wake |-> "NONE",
                         timer |-> FALSE, on |-> {}]
  BY <1>3, KernelInitLife
<1>6. pc = [t \in AllThread |-> pc[t]] /\ \A t \in AllThread : pc[t] = "user"
  BY DEF Init
<1>7. ticks \in 0..MaxTicks /\ Idle \in AllThread
  BY ThreadsAssumption DEF Init, AllThread
<1> QED BY <1>4, <1>5, <1>6, <1>7 DEF KInv

\* The invariant holds initially.
LEMMA InitInv == Init => Inv
<1> SUFFICES ASSUME Init PROVE Inv
  OBVIOUS
<1>1. KInv
  BY InitKInv
<1>2. ASSUME NEW t \in AllThread PROVE ThreadOK(Life(k, t), pc[t])
  <2> DEFINE l == Life(k, t)
  <2>1. /\ "SLEEPING" \notin l.state /\ "COUNTSLEEP" \notin l.state
        /\ l.sleep = "NONE" /\ l.wake = "NONE" /\ ~l.timer /\ pc[t] = "user"
    BY InitKInv
  <2> HIDE DEF l
  <2> QED BY <2>1 DEF ThreadOK, PC, l
<1> QED BY <1>1, <1>2 DEF Inv

\* Every step keeps the invariant and undoes no death.
LEMMA NextInv ==
    ASSUME Inv, [Next]_vars
    PROVE  Inv' /\ \A t \in AllThread : StillDead(Life(k, t), Life(k', t))
<1>1. KInv /\ \A t \in AllThread : Life(k, t) \in LifeType /\ ThreadOK(Life(k, t), pc[t])
  BY KInvFacts DEF Inv
<1>2. CASE Next
  <2>1. KInv'
    BY <1>1, <1>2, NextMoves
  <2>2. PICK t \in AllThread : Moves(t)
    BY <1>1, <1>2, NextMoves
  <2>3. ThreadOK(Life(k', t), pc'[t]) /\ StillDead(Life(k, t), Life(k', t))
    BY <1>1, <2>2, AffectedOK, ActsOK DEF Moves
  <2>4. ASSUME NEW u \in AllThread, u # t
        PROVE  ThreadOK(Life(k', u), pc'[u]) /\ StillDead(Life(k, u), Life(k', u))
    <3>1. Life(k', u) = Life(k, u) /\ pc'[u] = pc[u]
      BY <1>1, <2>2, <2>4 DEF Moves, Turn, Only, KInv
    <3> QED BY <1>1, <3>1 DEF StillDead
  <2> QED BY <2>1, <2>3, <2>4 DEF Inv
<1>3. CASE UNCHANGED vars
  <2>1. k' = k /\ pc' = pc /\ ticks' = ticks
    BY <1>3 DEF vars
  <2> QED BY <1>1, <2>1 DEF Inv, KInv, StillDead
<1> QED BY <1>2, <1>3

-----------------------------------------------------------------------------
(* The theorems *)

\* The inductive invariant holds in every reachable state.
THEOREM InvTheorem == Spec => []Inv
<1>1. Inv /\ [Next]_vars => Inv'
  BY NextInv
<1> QED BY <1>1, InitInv, PTL DEF Spec

\* The kernel state keeps its type: no step reads the head of an empty run
\* queue, lets a suspend count or a wakeup count go below zero, or leaves the
\* timeslice count outside its 32 bits.
THEOREM TypeTheorem == Spec => []TypeOK
<1>1. Inv => TypeOK
  BY DEF Inv, KInv, ThreadOK, KernelInv, TypeOK
<1> QED BY <1>1, InvTheorem, PTL

\* The run queues and queue_map agree with the thread states, and the idle
\* thread stays runnable, through all that threads, DSRs and the clock do.
THEOREM RunQueuesTheorem == Spec => []RunQueuesConsistent
<1>1. Inv => RunQueuesConsistent
  BY DEF Inv, KInv, KernelInv, RunQueuesConsistent
<1> QED BY <1>1, InvTheorem, PTL

\* Application code is always that of a runnable, unsuspended thread of the
\* best priority: strict priority scheduling, no lost reschedule.
THEOREM BestThreadTheorem == Spec => []BestThreadRuns
<1>1. Inv => BestThreadRuns
  <2> SUFFICES ASSUME Inv, k.sched_lock = "thread"
               PROVE  /\ Runnable(k, self)
                      /\ k.suspend_count[self] = 0
                      /\ \A t \in AllThread :
                            Runnable(k, t) => k.priority[self] <= k.priority[t]
    BY DEF BestThreadRuns
  <2>1. self \in AllThread /\ Runnable(k, self)
    BY KInvFacts DEF Inv, KInv, CurrentOK
  <2>2. k.suspend_count[self] \in Nat /\ ~(k.suspend_count[self] > 0)
    BY <2>1 DEF Inv, KInv, KernelInv, KernelState, SuspendOK, Runnable, RUNNING
  <2>3. \A t \in AllThread : Runnable(k, t) => k.priority[self] <= k.priority[t]
    BY DEF Inv, KInv, CurrentOK, self
  <2> QED BY <2>1, <2>2, <2>3
<1> QED BY <1>1, InvTheorem, PTL

\* The SUSPENDED bit and the suspend count agree along every sequence of
\* suspend(), resume(), kill() and exit().
THEOREM SuspendTheorem == Spec => []SuspendCountAgrees
<1>1. Inv => SuspendCountAgrees
  BY DEF Inv, KInv, KernelInv, SuspendCountAgrees
<1> QED BY <1>1, InvTheorem, PTL

\* A sleeping thread can always be woken: by its timer, by release() and by
\* kill(), which act on the sleep reason it keeps while it sleeps.
THEOREM SleepersTheorem == Spec => []SleepersCanBeWoken
<1>1. Inv => SleepersCanBeWoken
  BY DEF Inv, ThreadOK, Life, SleepersCanBeWoken, SleepersOK
<1> QED BY <1>1, InvTheorem, PTL

\* No timer outlives the delay() or counted_sleep() that armed it.
THEOREM TimerTheorem == Spec => []NoStaleTimer
<1>1. Inv => NoStaleTimer
  BY DEF Inv, ThreadOK, Life, NoStaleTimer, AllThread
<1> QED BY <1>1, InvTheorem, PTL

\* A thread that kill() found asleep exits on its way out of the sleep: it
\* never runs application code again.
THEOREM KilledTheorem == Spec => []KilledNeverReturns
<1>1. Inv => KilledNeverReturns
  BY DEF Inv, ThreadOK, Life, KilledNeverReturns, AllThread
<1> QED BY <1>1, InvTheorem, PTL

\* No step revives an exited thread or cancels a death that kill() has left
\* for the thread itself to carry out.
THEOREM DeathTheorem == Spec => DeathIsFinal
<1> DEFINE Final == \A t \in Thread :
                       /\ "EXITED" \in k.state[t] => "EXITED" \in k'.state[t]
                       /\ k.wake_reason[t] = "EXIT" => k'.wake_reason[t] = "EXIT"
<1>1. Inv /\ [Next]_vars => Final
  BY NextInv DEF StillDead, Life, AllThread
<1> HIDE DEF Final
<1>2. Spec => [][Final]_vars
  BY <1>1, InvTheorem, PTL DEF Spec
<1> QED BY <1>2 DEF DeathIsFinal, Final

=============================================================================
