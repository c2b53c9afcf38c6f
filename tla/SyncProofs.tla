----------------------------- MODULE SyncProofs -----------------------------
(***************************************************************************)
(* Theorems about the counting semaphore (module Semaphore) and the event  *)
(* flag (module Flag), for any number of threads and any of the operations.*)
(*                                                                         *)
(* The queue of the semaphore holds exactly the threads asleep in wait(),  *)
(* and no post is lost to them.                                            *)
(*                                                                         *)
(* No thread sleeps on a flag that satisfies it, a wait ends with a value  *)
(* or a break and never with both, and of the waiters that clear only one  *)
(* is given the events.                                                    *)
(***************************************************************************)
EXTENDS Semaphore, Flag, ThreadsProofs

-----------------------------------------------------------------------------
(* The counting semaphore *)

\* The queues that a thread at p sleeps on.
SemQueue(p) == IF p \in {"wait", "twait"} THEN {sem} ELSE {}

SemOK(l, p) == p \in SemPC /\ SleeperOK(l, SemQueue(p))

AtWait == {"wait", "twait"}

\* A thread that post() has woken and that has not taken the event yet.
Heir(l, p) == IsHeir(l, p, AtWait)

\* The inductive invariant.  That no thread is on the queue that does not
\* sleep there is what makes a wake-up by post() reach a waiter that is not an
\* heir yet, so that the heirs keep up with the count.
SemInv ==
    /\ KInv
    /\ count \in 0..MaxCount
    /\ \A t \in AllThread : SemOK(Life(k, t), pc[t])
    /\ NoLostPost

-----------------------------------------------------------------------------
(* The invariant is inductive *)

\* NoLostPost says that the sleepers are served.
LEMMA LostPostIsServed ==
    /\ NoLostPost <=> Served(k, pc, sem, AtWait, count)
    /\ NoLostPost' <=> Served(k', pc', sem, AtWait, count')
BY DEF NoLostPost, Served, Heirs, HeirsAt, InWait, AtWait

\* A turn that leaves its thread right keeps the invariant if the sleepers
\* stay served.
LEMMA SemTurn ==
    ASSUME SemInv, KInv', NEW t \in AllThread, NEW m, NEW r, Turn(t, m, r), SemOK(m, r),
           t # Idle \/ r = "user", count' \in 0..MaxCount,
           KeepsServed(sem, AtWait, Life(k, t), pc[t], m, r, count, count')
    PROVE  SemInv'
<1>1. \A u \in AllThread : SemOK(Life(k', u), pc'[u])
  BY DEF SemInv, Turn, Only, KInv
<1>2. /\ k \in KernelState /\ k' \in KernelState /\ sem \in WaitQueue
      /\ pc = [u \in AllThread |-> pc[u]]
      /\ count \in Nat /\ count' \in Nat
      /\ t # Idle \/ ~IsHeir(m, r, AtWait)
  BY SemaphoreAssumption DEF SemInv, KInv, KernelInv, IsHeir, AtWait
<1>3. Served(k, pc, sem, AtWait, count)
  BY LostPostIsServed DEF SemInv
<1>4. Served(k', pc', sem, AtWait, count')
  BY <1>2, <1>3, ServedStep DEF Turn
<1> QED BY <1>1, <1>4, LostPostIsServed DEF SemInv

\* The current thread blocks on the semaphore, which it does when the count is
\* zero.
LEMMA SemBlocks ==
    ASSUME SemInv, self # Idle, NEW n, KernelInv(n), n.current = self,
           NEW l, Only(n, k, self, l), SleeperOK(l, {}), l.state = {},
           NEW r \in {"WAIT", "TIMEOUT"}, k' = Block(n, r),
           NEW c \in {"wait", "twait"}, pc' = [pc EXCEPT ![self] = c],
           UNCHANGED ticks, count = 0, count' = 0
    PROVE  SemInv'
<1> DEFINE n1 == Enqueue(Sleep(SetSleepReason(n, r)), sem, self)
           m  == Blocked(l, r, sem)
<1>1. KInv /\ self \in AllThread /\ sem \in WaitQueue /\ r \in SleepReason \ {"NONE"}
  BY KInvFacts, SemaphoreAssumption DEF SemInv, SleepReason
<1>2. QueuesDistinct(n) /\ Life(n, self) = l /\ l.on = {}
  BY DEF Only, SleeperOK
<1>3. KernelInv(n1) /\ Only(n1, n, self, m)
  BY <1>1, <1>2, BlockLife
<1>4. k' = Reschedule(n1)
  BY DEF Block
<1> HIDE DEF n1
<1>5. Only(n1, k, self, m)
  BY <1>1, <1>3, OnlyTransitive
<1>6. SemOK(m, c)
  BY <1>1, BlockedSleeper DEF SemOK, SemQueue, SemPC
<1> HIDE DEF m
<1>7. KInv' /\ Turn(self, m, c)
  BY <1>1, <1>3, <1>4, <1>5, TurnStep
<1>8. count' \in 0..MaxCount
  BY SemaphoreAssumption
<1>9. KeepsServed(sem, AtWait, Life(k, self), pc[self], m, c, count, count')
  BY DEF KeepsServed
<1> QED BY <1>1, <1>6, <1>7, <1>8, <1>9, SemTurn

\* The current thread goes back to its caller, with the event or without.
LEMMA SemReturns ==
    ASSUME SemInv, self # Idle, NEW n, KernelInv(n),
           NEW l, Only(n, k, self, l), SleeperOK(l, {}), l.state # {"SLEEPING"},
           k' = Unlock(n) \/ k' = Reschedule(n),
           pc' = [pc EXCEPT ![self] = "user"], UNCHANGED ticks,
           \/ count > 0 /\ count' = count - 1
           \/ count' = count /\ ~Heir(Life(k, self), pc[self])
    PROVE  SemInv'
<1>1. KInv /\ self \in AllThread
  BY KInvFacts DEF SemInv
<1>2. KInv' /\ Turn(self, l, "user")
  BY <1>1, TurnStep
<1>3. SemOK(l, "user") /\ sem \notin l.on
  BY DEF SemOK, SemQueue, SemPC, PC, SleeperOK
<1>4. count' \in 0..MaxCount /\ count \in Int
  BY SemaphoreAssumption DEF SemInv
<1>5. KeepsServed(sem, AtWait, Life(k, self), pc[self], l, "user", count, count')
  BY <1>3, <1>4 DEF KeepsServed, Heir
<1> QED BY <1>1, <1>2, <1>3, <1>4, <1>5, SemTurn

\* A thread that calls the semaphore is on no queue.
LEMMA CallerOK ==
    ASSUME SemInv, InThread
    PROVE  /\ KInv /\ KernelInv(k) /\ QueuesDistinct(k)
           /\ self \in AllThread /\ self # Idle /\ self = k.current
           /\ Life(k, self).state = {} /\ SleeperOK(Life(k, self), {})
           /\ ~Heir(Life(k, self), pc[self])
           /\ pc = [pc EXCEPT ![self] = "user"]
           /\ Only(k, k, self, Life(k, self))
<1>1. KInv /\ pc[self] = "user" /\ self \in AllThread
  BY InThreadFacts DEF SemInv
<1>2. SemOK(Life(k, self), pc[self])
  BY <1>1 DEF SemInv
<1>3. pc = [pc EXCEPT ![self] = "user"]
  BY <1>1 DEF KInv
<1>4. Only(k, k, self, Life(k, self))
  BY <1>1 DEF Only, KInv
<1> QED BY <1>1, <1>2, <1>3, <1>4, InThreadFacts DEF SemOK, SemQueue, Heir, IsHeir, AtWait

\* So is one that comes back from the reschedule() of its waiting loop.
LEMMA WokenOK ==
    ASSUME SemInv, k.sched_lock = "inner", pc[self] \in {"wait", "twait"}
    PROVE  /\ KInv /\ KernelInv(k) /\ QueuesDistinct(k)
           /\ self \in AllThread /\ self # Idle /\ self = k.current
           /\ Life(k, self).state = {} /\ SleeperOK(Life(k, self), {})
           /\ Life(k, self).wake = k.wake_reason[self]
           /\ Only(k, k, self, Life(k, self))
<1>1. /\ KInv /\ KernelInv(k) /\ QueuesDistinct(k)
      /\ self \in AllThread /\ self # Idle /\ self = k.current
      /\ Life(k, self).state = {}
  BY KInvFacts DEF SemInv
<1>2. SemOK(Life(k, self), pc[self])
  BY <1>1 DEF SemInv
<1>3. SleeperOK(Life(k, self), {})
  BY <1>1, <1>2 DEF SemOK, SleeperOK
<1> QED BY <1>1, <1>3 DEF Only, Life

\* wait() takes a unit or joins the queue.
LEMMA SemWaitInv ==
    ASSUME SemInv, SemWait
    PROVE  SemInv'
<1>1. InThread /\ UNCHANGED ticks
  BY DEF SemWait
<1>2. CASE /\ count = 0 /\ k' = Block(k, "WAIT")
           /\ pc' = [pc EXCEPT ![self] = "wait"] /\ UNCHANGED count
  <2>1. count' = 0
    BY <1>2
  <2> QED BY <1>1, <1>2, <2>1, CallerOK, SemBlocks
<1>3. CASE count > 0 /\ k' = Unlock(k) /\ count' = count - 1 /\ UNCHANGED pc
  <2>1. pc' = [pc EXCEPT ![self] = "user"]
    BY <1>1, <1>3, CallerOK
  <2>2. Life(k, self).state # {"SLEEPING"}
    BY <1>1, CallerOK
  <2> QED BY <1>1, <1>3, <2>1, <2>2, CallerOK, SemReturns
<1> QED BY <1>2, <1>3 DEF SemWait

\* wait() back from its reschedule() tests the count again.
LEMMA SemWaitWokenInv ==
    ASSUME SemInv, SemWaitWoken
    PROVE  SemInv'
<1> DEFINE l == Life(k, self)
<1>1. /\ k.sched_lock = "inner" /\ pc[self] = "wait" /\ UNCHANGED ticks
  BY DEF SemWaitWoken
<1>2. /\ KInv /\ KernelInv(k) /\ QueuesDistinct(k)
      /\ self \in AllThread /\ self # Idle /\ self = k.current
      /\ l.state = {} /\ SleeperOK(l, {})
      /\ l.wake = k.wake_reason[self] /\ Only(k, k, self, l)
  BY <1>1, WokenOK
<1>3. CASE /\ k.wake_reason[self] = "EXIT" /\ k' = Reschedule(Exit(k))
           /\ pc' = [pc EXCEPT ![self] = "user"] /\ UNCHANGED count
  <2>1. KernelInv(Exit(k)) /\ Only(Exit(k), k, self, Exited(l))
    BY <1>2, LifeRunnable, ExitInv, ExitLife
  <2>2. SleeperOK(Exited(l), {}) /\ Exited(l).state # {"SLEEPING"}
    BY <1>2 DEF Exited, TimerOff, WithState, SleeperOK
  <2>3. ~Heir(l, pc[self]) /\ count' = count
    BY <1>2, <1>3 DEF Heir, IsHeir, AtWait
  <2> QED BY <1>1, <1>2, <1>3, <2>1, <2>2, <2>3, SemReturns
<1>4. CASE /\ k.wake_reason[self] \in {"DESTRUCT", "BREAK"} /\ k' = Unlock(k)
           /\ pc' = [pc EXCEPT ![self] = "user"] /\ UNCHANGED count
  <2>1. ~Heir(l, pc[self]) /\ l.state # {"SLEEPING"}
    BY <1>2, <1>4 DEF Heir, IsHeir, AtWait
  <2> QED BY <1>1, <1>2, <1>4, <2>1, SemReturns
<1>5. CASE /\ count > 0 /\ k' = Unlock(k)
           /\ pc' = [pc EXCEPT ![self] = "user"] /\ count' = count - 1
  <2>1. l.state # {"SLEEPING"}
    BY <1>2
  <2> QED BY <1>1, <1>2, <1>5, <2>1, SemReturns
<1>6. CASE count = 0 /\ k' = Block(k, "WAIT") /\ UNCHANGED <<pc, count>>
  <2>1. pc' = [pc EXCEPT ![self] = "wait"] /\ count' = 0
    BY <1>1, <1>2, <1>6 DEF KInv
  <2> QED BY <1>1, <1>2, <1>6, <2>1, SemBlocks
<1> QED BY <1>3, <1>4, <1>5, <1>6 DEF SemWaitWoken

\* wait(timeout) takes a unit, gives up or joins the queue.
LEMMA SemTimedWaitInv ==
    ASSUME SemInv, NEW past \in BOOLEAN, SemTimedWait(past)
    PROVE  SemInv'
<1> DEFINE k1 == SetTimer(k, "TIMEOUT", past)
           l  == Life(k1, self)
           n  == ClearTimer(k1, self)
           m  == TimerOff(l)
<1>1. InThread /\ UNCHANGED ticks
  BY DEF SemTimedWait
<1>2. /\ KInv /\ self \in AllThread /\ self # Idle /\ SleeperOK(Life(k, self), {})
      /\ ~Heir(Life(k, self), pc[self])
      /\ pc = [pc EXCEPT ![self] = "user"]
  BY <1>1, CallerOK
<1>3. /\ KernelInv(k1) /\ k1.current = self /\ Only(k1, k, self, l)
      /\ SleeperOK(l, {}) /\ l.state = {} /\ l.wake = k1.wake_reason[self]
  BY <1>1, <1>2, TimerStarts
<1>4. \/ /\ k' = Unlock(n) /\ UNCHANGED <<pc, count>>
      \/ /\ count = 0 /\ k' = Block(k1, "TIMEOUT")
         /\ pc' = [pc EXCEPT ![self] = "twait"] /\ UNCHANGED count
      \/ /\ count > 0 /\ k' = Unlock(n)
         /\ count' = count - 1 /\ UNCHANGED pc
  BY DEF SemTimedWait
<1> HIDE DEF k1, l
<1>5. KernelInv(n) /\ Only(n, k, self, m) /\ SleeperOK(m, {}) /\ m.state = {}
  BY <1>2, <1>3, TimerEnds
<1>6. m.state # {"SLEEPING"}
  BY <1>5
<1> HIDE DEF n, m
<1>7. CASE /\ k' = Unlock(n) /\ UNCHANGED <<pc, count>>
  <2>1. pc' = [pc EXCEPT ![self] = "user"] /\ count' = count
    BY <1>2, <1>7
  <2> QED BY <1>1, <1>2, <1>5, <1>6, <1>7, <2>1, SemReturns
<1>8. CASE /\ count = 0 /\ k' = Block(k1, "TIMEOUT")
           /\ pc' = [pc EXCEPT ![self] = "twait"] /\ UNCHANGED count
  <2>1. count' = 0
    BY <1>8
  <2> QED BY <1>1, <1>2, <1>3, <1>8, <2>1, SemBlocks
<1>9. CASE count > 0 /\ k' = Unlock(n) /\ count' = count - 1 /\ UNCHANGED pc
  <2>1. pc' = [pc EXCEPT ![self] = "user"]
    BY <1>2, <1>9
  <2> QED BY <1>1, <1>2, <1>5, <1>6, <1>9, <2>1, SemReturns
<1> QED BY <1>4, <1>7, <1>8, <1>9

\* wait(timeout) back from its reschedule(), by a unit, a timeout or a kill.
LEMMA SemTimedWaitWokenInv ==
    ASSUME SemInv, SemTimedWaitWoken
    PROVE  SemInv'
<1> DEFINE l == Life(k, self)
           n == ClearTimer(k, self)
           m == TimerOff(l)
<1>1. /\ k.sched_lock = "inner" /\ pc[self] = "twait" /\ UNCHANGED ticks
  BY DEF SemTimedWaitWoken
<1>2. /\ KInv /\ KernelInv(k) /\ QueuesDistinct(k)
      /\ self \in AllThread /\ self # Idle /\ self = k.current
      /\ l.state = {} /\ SleeperOK(l, {})
      /\ l.wake = k.wake_reason[self] /\ Only(k, k, self, l)
  BY <1>1, WokenOK
<1>3. \/ /\ k.wake_reason[self] = "EXIT" /\ k' = Reschedule(Exit(k))
         /\ pc' = [pc EXCEPT ![self] = "user"] /\ UNCHANGED count
      \/ /\ k.wake_reason[self] \in {"TIMEOUT", "DESTRUCT", "BREAK"}
         /\ k' = Unlock(n)
         /\ pc' = [pc EXCEPT ![self] = "user"] /\ UNCHANGED count
      \/ /\ count > 0 /\ k' = Unlock(n)
         /\ pc' = [pc EXCEPT ![self] = "user"] /\ count' = count - 1
      \/ count = 0 /\ k' = Block(k, "TIMEOUT") /\ UNCHANGED <<pc, count>>
  BY DEF SemTimedWaitWoken
<1>4. KernelInv(n) /\ Only(n, k, self, m) /\ SleeperOK(m, {}) /\ m.state = {}
  BY <1>2, TimerEnds
<1>5. m.state # {"SLEEPING"}
  BY <1>4
<1> HIDE DEF n, m
<1>6. CASE /\ k.wake_reason[self] = "EXIT" /\ k' = Reschedule(Exit(k))
           /\ pc' = [pc EXCEPT ![self] = "user"] /\ UNCHANGED count
  <2>1. KernelInv(Exit(k)) /\ Only(Exit(k), k, self, Exited(l))
    BY <1>2, LifeRunnable, ExitInv, ExitLife
  <2>2. SleeperOK(Exited(l), {}) /\ Exited(l).state # {"SLEEPING"}
    BY <1>2 DEF Exited, TimerOff, WithState, SleeperOK
  <2>3. ~Heir(l, pc[self]) /\ count' = count
    BY <1>2, <1>6 DEF Heir, IsHeir, AtWait
  <2> QED BY <1>1, <1>2, <1>6, <2>1, <2>2, <2>3, SemReturns
<1>7. CASE /\ k.wake_reason[self] \in {"TIMEOUT", "DESTRUCT", "BREAK"}
           /\ k' = Unlock(n)
           /\ pc' = [pc EXCEPT ![self] = "user"] /\ UNCHANGED count
  <2>1. ~Heir(l, pc[self]) /\ count' = count
    BY <1>2, <1>7 DEF Heir, IsHeir, AtWait
  <2> QED BY <1>1, <1>2, <1>4, <1>5, <1>7, <2>1, SemReturns
<1>8. CASE /\ count > 0 /\ k' = Unlock(n)
           /\ pc' = [pc EXCEPT ![self] = "user"] /\ count' = count - 1
  BY <1>1, <1>2, <1>4, <1>5, <1>8, SemReturns
<1>9. CASE count = 0 /\ k' = Block(k, "TIMEOUT") /\ UNCHANGED <<pc, count>>
  <2>1. pc' = [pc EXCEPT ![self] = "twait"] /\ count' = 0
    BY <1>1, <1>2, <1>9 DEF KInv
  <2> QED BY <1>1, <1>2, <1>9, <2>1, SemBlocks
<1> QED BY <1>3, <1>6, <1>7, <1>8, <1>9

\* A change of the count alone, never upwards.
LEMMA SemTrywaitInv ==
    ASSUME SemInv, SemTrywait
    PROVE  SemInv'
<1> DEFINE l == Life(k, Idle)
<1>1. /\ KInv /\ KernelInv(k) /\ QueuesDistinct(k) /\ Idle \in AllThread
      /\ k' = Unlock(k) /\ UNCHANGED <<pc, ticks>>
      /\ count' = IF count > 0 THEN count - 1 ELSE count
  BY KInvFacts DEF SemInv, SemTrywait, AllThread
<1>2. Only(k, k, Idle, l)
  BY <1>1 DEF Only
<1>3. KInv' /\ Turn(Idle, l, pc[Idle])
  BY <1>1, <1>2, PlainTurn
<1>4. SemOK(l, pc[Idle])
  BY <1>1 DEF SemInv
<1>5. count' \in 0..MaxCount /\ count' \in {count, count - 1} /\ pc[Idle] = "user"
  BY <1>1, SemaphoreAssumption DEF SemInv, KInv
<1>6. KeepsServed(sem, AtWait, l, pc[Idle], l, pc[Idle], count, count')
  BY <1>5 DEF KeepsServed
<1> QED BY <1>1, <1>3, <1>4, <1>5, <1>6, SemTurn

\* post() wakes the head of the queue, which becomes an heir.
LEMMA SemPostInv ==
    ASSUME SemInv, SemPost
    PROVE  SemInv'
<1>1. /\ KInv /\ KernelInv(k) /\ QueuesDistinct(k) /\ k \in KernelState
      /\ Idle \in AllThread /\ sem \in WaitQueue
      /\ UNCHANGED <<pc, ticks>>
      /\ count' = count + 1 /\ count < MaxCount
  BY KInvFacts, SemaphoreAssumption DEF SemInv, SemPost, AllThread
<1>2. count' \in 0..MaxCount
  BY <1>1, SemaphoreAssumption DEF SemInv
<1>3. CASE k.wait_queue[sem] = <<>>
  <2> DEFINE l == Life(k, Idle)
  <2>1. Only(k, k, Idle, l) /\ k' = Unlock(k)
    BY <1>1, <1>3 DEF Only, SemPost
  <2>2. KInv' /\ Turn(Idle, l, pc[Idle])
    BY <1>1, <2>1, PlainTurn
  <2>3. \A t \in AllThread : Life(k', t) = Life(k, t) /\ pc'[t] = pc[t]
    BY <1>1, <2>2 DEF Turn, Only
  <2>4. k' \in KernelState
    BY <2>2 DEF KInv, KernelInv
  <2>5. k'.wait_queue[sem] = <<>>
    BY <1>1, <1>3, <2>3, <2>4, QueueLife
  <2> QED BY <1>2, <2>2, <2>3, <2>5 DEF SemInv, NoLostPost
<1>4. CASE k.wait_queue[sem] # <<>>
  <2> DEFINE t == Head(k.wait_queue[sem])
             l == Life(k, t)
             n == Wake(SetWakeReason(LeaveQueue(k, t), t, "DONE"), t)
             m == Dequeued(l, "DONE")
  <2>1. t \in AllThread /\ sem \in l.on
    BY <1>1, <1>4, QueueLife
  <2>2. k' = Unlock(n)
    BY <1>4 DEF SemPost, WakeHead
  <2> HIDE DEF t
  <2>3. SemOK(l, pc[t])
    BY <2>1 DEF SemInv
  <2>4. pc[t] \in {"wait", "twait"} /\ l.wake = "NONE" /\ pc[t] \in SemPC
    BY <2>1, <2>3 DEF SemOK, SleeperOK, SemQueue
  <2>5. t # Idle
    BY <1>1, <2>4 DEF KInv
  <2>6. KernelInv(n) /\ Only(n, k, t, m)
    BY <1>1, <2>1, DequeueLife DEF WakeReason
  <2> HIDE DEF n
  <2>7. KInv' /\ Turn(t, m, pc[t])
    BY <1>1, <2>1, <2>2, <2>6, PlainTurn
  <2>8. SemOK(m, pc[t])
    BY <2>4, DequeuedSleeper DEF SemOK
  <2>9. ~Heir(l, pc[t]) /\ Heir(m, pc[t])
    BY <2>4 DEF Heir, IsHeir, AtWait, Dequeued
  <2>10. KeepsServed(sem, AtWait, l, pc[t], m, pc[t], count, count')
    BY <1>1, <2>1, <2>9 DEF KeepsServed, Heir
  <2> HIDE DEF m
  <2> QED BY <1>1, <1>2, <2>1, <2>5, <2>7, <2>8, <2>10, SemTurn
<1> QED BY <1>3, <1>4

\* What Threads does to a waiter keeps its event.
LEMMA SemOtherInv ==
    ASSUME SemInv, Next, UNCHANGED count
    PROVE  SemInv'
<1>1. KInv /\ KInv' /\ \A t \in AllThread : Life(k, t) \in LifeType
  BY NextMoves, KInvFacts DEF SemInv
<1>2. PICK t \in AllThread : Moves(t)
  BY <1>1, NextMoves
<1> DEFINE l == Life(k, t)
           m == Life(k', t)
<1>3. /\ Turn(t, m, pc'[t]) /\ l \in LifeType /\ SemOK(l, pc[t])
      /\ \/ Affected(l, m) /\ pc'[t] = pc[t]
         \/ Acts(l, pc[t], m, pc'[t])
  BY <1>1, <1>2 DEF Moves, SemInv
<1> HIDE DEF l, m
<1>4. /\ SemOK(m, pc'[t]) /\ (sem \in m.on => sem \in l.on)
      /\ Heir(l, pc[t]) => Heir(m, pc'[t])
  <2>1. CASE Affected(l, m) /\ pc'[t] = pc[t]
    BY <1>3, <2>1, AffectedSleeper DEF SemOK, Heir, IsHeir
  <2>2. CASE Acts(l, pc[t], m, pc'[t])
    <3>1. pc[t] \in PC /\ pc'[t] \in PC
      BY <2>2 DEF Acts, PC
    <3>2. SemQueue(pc[t]) = {} /\ SemQueue(pc'[t]) = {} /\ ~Heir(l, pc[t])
      BY <3>1 DEF PC, SemQueue, Heir, IsHeir, AtWait
    <3>3. SleeperOK(m, {})
      BY <1>3, <2>2, <3>2, ActsSleeper DEF SemOK
    <3> QED BY <3>1, <3>2, <3>3 DEF SemOK, SemPC, SleeperOK
  <2> QED BY <1>3, <2>1, <2>2
<1>5. count' \in 0..MaxCount /\ count' = count
  BY DEF SemInv
<1>6. KeepsServed(sem, AtWait, l, pc[t], m, pc'[t], count, count')
  BY <1>4, <1>5 DEF KeepsServed, Heir
<1>7. t # Idle \/ pc'[t] = "user"
  BY <1>1 DEF KInv
<1> QED BY <1>1, <1>3, <1>4, <1>5, <1>6, <1>7, SemTurn DEF l

\* The invariant holds initially.
LEMMA SemInitInv == SemInit => SemInv
<1> SUFFICES ASSUME SemInit PROVE SemInv
  OBVIOUS
<1>1. KInv /\ Init /\ sem \in WaitQueue
  BY InitKInv, SemaphoreAssumption DEF SemInit
<1>2. \A t \in AllThread : /\ pc[t] = "user" /\ Life(k, t).on = {}
                           /\ Life(k, t).sleep = "NONE"
                           /\ "SLEEPING" \notin Life(k, t).state
                           /\ "COUNTSLEEP" \notin Life(k, t).state
  BY <1>1, InitKInv
<1>3. \A t \in AllThread : SemOK(Life(k, t), pc[t])
  BY <1>2 DEF SemOK, SemPC, PC, SleeperOK
<1>4. count \in 0..MaxCount
  BY SemaphoreAssumption DEF SemInit
<1>5. k.wait_queue[sem] = <<>>
  BY <1>1, <1>2, QueueLife DEF KInv, KernelInv
<1> QED BY <1>1, <1>3, <1>4, <1>5 DEF SemInv, NoLostPost

\* Every step keeps the invariant.
LEMMA SemNextInv == SemInv /\ [SemNext]_semVars => SemInv'
<1> SUFFICES ASSUME SemInv, [SemNext]_semVars PROVE SemInv'
  OBVIOUS
<1>1. CASE UNCHANGED semVars
  <2>1. k' = k /\ pc' = pc /\ ticks' = ticks /\ count' = count
    BY <1>1 DEF semVars
  <2> QED BY <2>1 DEF SemInv, KInv, NoLostPost, Heirs, InWait
<1> QED BY <1>1, SemWaitInv, SemWaitWokenInv, SemTimedWaitInv, SemTimedWaitWokenInv,
           SemTrywaitInv, SemPostInv, SemOtherInv DEF SemNext

-----------------------------------------------------------------------------
(* The theorems *)

\* The inductive invariant holds in every reachable state.
THEOREM SemInvTheorem == SemSpec => []SemInv
BY SemInitInv, SemNextInv, PTL DEF SemSpec

\* The count stays within its bounds: no path through the waiting loops takes
\* an event that is not there.
THEOREM SemTypeTheorem == SemSpec => []SemTypeOK
<1>1. SemInv => SemTypeOK
  BY DEF SemInv, KInv, KernelInv, SemOK, SemTypeOK
<1> QED BY <1>1, SemInvTheorem, PTL

\* Exactly the threads asleep in wait() are on the queue, whatever timeouts,
\* release(), suspend(), kill() and priority changes have done to them.
THEOREM SleepersQueuedTheorem == SemSpec => []SleepersAreQueued
<1>1. SemInv => SleepersAreQueued
  <2> SUFFICES ASSUME SemInv PROVE SleepersAreQueued
    OBVIOUS
  <2>1. /\ k \in KernelState /\ QueuesDistinct(k) /\ sem \in WaitQueue
        /\ \A t \in AllThread : SemOK(Life(k, t), pc[t])
    BY SemaphoreAssumption DEF SemInv, KInv, KernelInv
  <2>2. ASSUME NEW t \in AllThread
        PROVE  /\ Life(k, t).on = IF InWait(t) /\ "SLEEPING" \in k.state[t]
                                  THEN {sem} ELSE {}
    BY <2>1 DEF SemOK, SleeperOK, SemQueue, InWait, Life
  <2>3. ASSUME NEW q \in WaitQueue, NEW t \in Range(k.wait_queue[q])
        PROVE  t \in AllThread /\ q \in Life(k, t).on
    <3>1. k.wait_queue[q] \in Seq(AllThread)
      BY <2>1 DEF KernelState
    <3>2. t \in AllThread
      BY <3>1, ElementOfSeq, LenProperties DEF Range
    <3> QED BY <2>1, <3>2, QueueLife
  <2>4. WaitQueuesOK(k)
    BY <2>1, <2>2, <2>3 DEF WaitQueuesOK, QueuesDistinct
  <2>5. \A t \in Thread : t \in Range(k.wait_queue[sem]) <=>
                             InWait(t) /\ "SLEEPING" \in k.state[t]
    BY <2>1, <2>2, QueueLife DEF AllThread
  <2> QED BY <2>4, <2>5 DEF SleepersAreQueued
<1> QED BY <1>1, SemInvTheorem, PTL

\* No post is lost while a thread sleeps on the semaphore: as many threads as
\* there are events have been woken for them.
THEOREM NoLostPostTheorem == SemSpec => []NoLostPost
<1>1. SemInv => NoLostPost
  BY DEF SemInv
<1> QED BY <1>1, SemInvTheorem, PTL

-----------------------------------------------------------------------------
(* The event flag *)

WaitInfo == [allmask : SUBSET Bits, anymask : SUBSET Bits, do_clear : BOOLEAN,
             value_out : SUBSET Bits]

\* The sleep reason of the two waiting loops.
WaitReason(p) == IF p = "fwait" THEN "WAIT" ELSE "TIMEOUT"

\* A thread with life l in the loop at p, whose wait information is i, when the
\* value is v.  A thread that does not sleep has a wake reason, and one that
\* ends this loop: the loop never turns twice.
Waiter(l, p, i, v) ==
    /\ SleeperOK(l, {flagq})
    /\ "COUNTSLEEP" \notin l.state
    /\ "SLEEPING" \in l.state => l.sleep = WaitReason(p) /\ ~Matches(i, v)
    /\ "SLEEPING" \notin l.state =>
         l.sleep = "NONE" /\ l.wake # "NONE" /\ (p = "fwait" => l.wake # "TIMEOUT")
    /\ i.value_out # {} <=> l.wake = "DONE"

FlagOK(l, p, i, v) ==
    \/ p \in PC /\ SleeperOK(l, {})
    \/ p \in InFlag /\ Waiter(l, p, i, v)

\* The inductive invariant.
FlagInv ==
    /\ KInv
    /\ value \subseteq Bits
    /\ info \in [Thread -> WaitInfo]
    /\ \A t \in AllThread : FlagOK(Life(k, t), pc[t], info[t], value)

\* A step leaves the wait information of the threads on the queue alone.
Quiet ==
    \A t \in AllThread :
        flagq \in Life(k, t).on => pc'[t] = pc[t] /\ info'[t] = info[t]

-----------------------------------------------------------------------------
(* Waiters *)

\* Clearing bits satisfies nobody.
LEMMA MatchesMonotone ==
    ASSUME NEW i, NEW v, NEW w, w \subseteq v, Matches(i, w)
    PROVE  Matches(i, v)
BY DEF Matches

\* No pattern matches a value without bits, and what is matched has some.
LEMMA MatchesNothing ==
    ASSUME NEW i
    PROVE  ~Matches(i, {})
BY DEF Matches

\* So a thread stays right when bits are cleared.
LEMMA FlagOKMonotone ==
    ASSUME NEW l, NEW p, NEW i, NEW v, NEW w, w \subseteq v, FlagOK(l, p, i, v)
    PROVE  FlagOK(l, p, i, w)
BY MatchesMonotone DEF FlagOK, Waiter

\* What is on the queue is asleep in a waiting loop; what runs is not.
LEMMA OnFlagQueue ==
    ASSUME NEW l, NEW p, NEW i, NEW v, FlagOK(l, p, i, v)
    PROVE  /\ flagq \in l.on <=> p \in InFlag /\ "SLEEPING" \in l.state
           /\ l.on = IF p \in InFlag /\ "SLEEPING" \in l.state THEN {flagq} ELSE {}
<1>1. PC \cap InFlag = {}
  BY DEF PC, InFlag
<1> QED BY <1>1 DEF FlagOK, Waiter, SleeperOK

\* What others do to a waiter keeps it right: they give it a wake reason that
\* ends its loop, and none of them gives it a value.
LEMMA AffectedWaiter ==
    ASSUME NEW l \in LifeType, NEW p \in InFlag, NEW i, NEW v, Waiter(l, p, i, v),
           NEW m, Affected(l, m)
    PROVE  Waiter(m, p, i, v)
<1>1. SleeperOK(m, {flagq})
  BY AffectedSleeper DEF Waiter
<1>2. /\ "COUNTSLEEP" \notin l.state /\ SLEEPSET = {"SLEEPING", "COUNTSLEEP"}
      /\ p \in {"fwait", "ftimed"} /\ WaitReason(p) \in {"WAIT", "TIMEOUT"}
      /\ SleeperOK(l, {flagq})
  BY DEF Waiter, SLEEPSET, InFlag, WaitReason
<1>3. CASE m = l
  BY <1>3
<1>4. CASE m = Suspended(l)
  BY <1>1, <1>2, <1>4 DEF Waiter, Suspended, WithState
<1>5. CASE m = Unsuspended(l)
  BY <1>1, <1>2, <1>5, UnsuspendedFields DEF Waiter
<1>6. CASE m = Released(l)
  <2>1. CASE l.sleep = "NONE"
    BY <1>6, <2>1, ReleasedFields
  <2>2. CASE l.sleep # "NONE"
    <3>1. l.wake = "NONE" /\ i.value_out = {}
      BY <2>2 DEF Waiter, SleeperOK
    <3>2. m.state = l.state \ SLEEPSET /\ m.sleep = "NONE" /\ m.wake = "BREAK"
      BY <1>6, <2>2, ReleasedFields
    <3> QED BY <1>1, <1>2, <3>1, <3>2 DEF Waiter
  <2> QED BY <2>1, <2>2
<1>7. CASE m = CountWoken(l)
  BY <1>2, <1>7, CountWokenFields
<1>8. CASE m = Killed(l)
  <2>1. CASE l.wake = "EXIT"
    <3>1. /\ m.state = (l.state \ {"SUSPENDED"}) \ SLEEPSET
          /\ m.sleep = "NONE" /\ m.wake = "EXIT"
      BY <1>2, <1>8, <2>1, KilledFields DEF SleeperOK
    <3> QED BY <1>1, <1>2, <2>1, <3>1 DEF Waiter
  <2>2. CASE l.wake # "EXIT" /\ l.sleep = "NONE"
    <3>1. m.state = {"EXITED"} /\ m.sleep = "NONE" /\ m.wake = l.wake
      BY <1>8, <2>2, KilledFields
    <3>2. "SLEEPING" \notin l.state
      BY <1>2, <2>2 DEF SleeperOK
    <3> QED BY <1>1, <3>1, <3>2 DEF Waiter
  <2>3. CASE l.wake # "EXIT" /\ l.sleep # "NONE"
    <3>1. /\ m.state = (l.state \ {"SUSPENDED"}) \ SLEEPSET
          /\ m.sleep = "NONE" /\ m.wake = "EXIT"
      BY <1>8, <2>3, KilledFields
    <3>2. l.wake = "NONE" /\ i.value_out = {}
      BY <2>3 DEF Waiter, SleeperOK
    <3> QED BY <1>1, <1>2, <3>1, <3>2 DEF Waiter
  <2> QED BY <2>1, <2>2, <2>3
<1>9. CASE m = Readied(l)
  <2>1. m.state = l.state /\ m.sleep = l.sleep /\ m.wake = l.wake
    BY <1>9 DEF Readied, Unqueued
  <2> QED BY <1>1, <2>1 DEF Waiter
<1>10. CASE m = Alarmed(l)
  <2>1. CASE l.sleep = "TIMEOUT"
    <3>1. l.sleep \in {"DELAY", "TIMEOUT"} /\ l.sleep # "DELAY"
      BY <2>1
    <3>2. m.state = l.state \ SLEEPSET /\ m.sleep = "NONE" /\ m.wake = "TIMEOUT"
      BY <1>10, <3>1, AlarmedFields
    <3>3. l.wake = "NONE" /\ i.value_out = {} /\ p # "fwait"
      BY <2>1 DEF Waiter, SleeperOK, WaitReason
    <3> QED BY <1>1, <1>2, <3>2, <3>3 DEF Waiter
  <2>2. CASE l.sleep # "TIMEOUT"
    <3>1. l.sleep \notin {"DELAY", "TIMEOUT"}
      BY <1>2, <2>2 DEF Waiter
    <3>2. m = TimerOff(l)
      BY <1>10, <3>1, AlarmedFields
    <3>3. m.state = l.state /\ m.sleep = l.sleep /\ m.wake = l.wake
      BY <3>2 DEF TimerOff
    <3> QED BY <1>1, <3>3 DEF Waiter
  <2> QED BY <2>1, <2>2
<1> QED BY <1>3, <1>4, <1>5, <1>6, <1>7, <1>8, <1>9, <1>10 DEF Affected

\* A step of Threads by thread t, or on it, keeps it right and puts it on no
\* queue.
LEMMA MovesFlag ==
    ASSUME NEW l \in LifeType, NEW p, NEW i, NEW v, FlagOK(l, p, i, v), NEW m, NEW r,
           \/ Affected(l, m) /\ r = p
           \/ Acts(l, p, m, r)
    PROVE  FlagOK(m, r, i, v) /\ (flagq \in l.on => r = p)
<1>1. CASE Affected(l, m) /\ r = p /\ p \in InFlag
  <2>1. Waiter(l, p, i, v)
    BY <1>1 DEF FlagOK, PC, InFlag
  <2> QED BY <1>1, <2>1, AffectedWaiter DEF FlagOK
<1>2. CASE Affected(l, m) /\ r = p /\ p \notin InFlag
  BY <1>2, AffectedSleeper DEF FlagOK
<1>3. CASE Acts(l, p, m, r)
  <2>1. p \in PC /\ p \notin InFlag
    BY <1>3 DEF Acts, PC, InFlag
  <2>2. SleeperOK(l, {})
    BY <2>1 DEF FlagOK
  <2> QED BY <1>3, <2>1, <2>2, ActsSleeper DEF FlagOK, SleeperOK
<1> QED BY <1>1, <1>2, <1>3

-----------------------------------------------------------------------------
(* Steps on one thread *)

\* A turn that leaves its thread right, sets no bit and touches nobody else's
\* wait information keeps the invariant.
LEMMA FlagTurn ==
    ASSUME FlagInv, KInv', NEW t \in AllThread, NEW m, NEW r, Turn(t, m, r),
           FlagOK(m, r, info'[t], value'), value' \subseteq value,
           info' \in [Thread -> WaitInfo],
           \A u \in AllThread \ {t} : info'[u] = info[u],
           flagq \in Life(k, t).on => r = pc[t] /\ info'[t] = info[t]
    PROVE  FlagInv' /\ Quiet
<1>1. /\ pc = [u \in AllThread |-> pc[u]] /\ value \subseteq Bits
      /\ \A u \in AllThread : FlagOK(Life(k, u), pc[u], info[u], value)
  BY DEF FlagInv, KInv
<1>2. /\ pc'[t] = r /\ Life(k', t) = m
      /\ \A u \in AllThread \ {t} : Life(k', u) = Life(k, u) /\ pc'[u] = pc[u]
  BY <1>1 DEF Turn, Only
<1>3. ASSUME NEW u \in AllThread PROVE FlagOK(Life(k', u), pc'[u], info'[u], value')
  <2>1. CASE u = t
    BY <1>2, <2>1
  <2>2. CASE u # t
    <3>1. /\ Life(k', u) = Life(k, u) /\ pc'[u] = pc[u] /\ info'[u] = info[u]
          /\ FlagOK(Life(k, u), pc[u], info[u], value)
      BY <1>1, <1>2, <2>2
    <3> QED BY <3>1, FlagOKMonotone
  <2> QED BY <2>1, <2>2
<1>4. Quiet
  BY <1>2 DEF Quiet
<1>5. value' \subseteq Bits
  BY <1>1
<1> QED BY <1>3, <1>4, <1>5 DEF FlagInv

\* The value has been tested and does not match: the current thread sleeps.
LEMMA FlagBlocks ==
    ASSUME FlagInv, self # Idle, NEW n, KernelInv(n), n.current = self,
           NEW l, Only(n, k, self, l), SleeperOK(l, {}), l.state = {},
           Life(k, self).on = {},
           NEW c \in InFlag, k' = FlagBlock(n, WaitReason(c)),
           pc' = [pc EXCEPT ![self] = c], UNCHANGED ticks, value' \subseteq value,
           NEW i \in WaitInfo, info' = [info EXCEPT ![self] = i],
           i.value_out = {}, ~Matches(i, value)
    PROVE  FlagInv' /\ Quiet
<1> DEFINE r  == WaitReason(c)
           n1 == Enqueue(Sleep(SetSleepReason(n, r)), flagq, self)
           m  == Blocked(l, r, flagq)
<1>1. /\ KInv /\ self \in AllThread /\ self \in Thread /\ flagq \in WaitQueue
      /\ r \in SleepReason \ {"NONE"} /\ info \in [Thread -> WaitInfo]
  BY KInvFacts, FlagAssumption DEF FlagInv, SleepReason, WaitReason, AllThread
<1>2. QueuesDistinct(n) /\ Life(n, self) = l /\ l.on = {}
  BY DEF Only, SleeperOK
<1>3. KernelInv(n1) /\ Only(n1, n, self, m)
  BY <1>1, <1>2, BlockLife
<1>4. k' = Reschedule(n1)
  BY DEF FlagBlock
<1> HIDE DEF n1
<1>5. Only(n1, k, self, m)
  BY <1>1, <1>3, OnlyTransitive
<1>6. m.state = {"SLEEPING"} /\ m.sleep = r /\ m.wake = "NONE" /\ SleeperOK(m, {flagq})
  BY <1>1, BlockedSleeper DEF Blocked
<1>7. Waiter(m, c, i, value)
  BY <1>6 DEF Waiter
<1>8. FlagOK(m, c, i, value')
  BY <1>7, FlagOKMonotone DEF FlagOK
<1> HIDE DEF m
<1>9. KInv' /\ Turn(self, m, c)
  BY <1>1, <1>3, <1>4, <1>5, TurnStep
<1>10. /\ info'[self] = i /\ info' \in [Thread -> WaitInfo]
       /\ \A u \in AllThread \ {self} : info'[u] = info[u]
  BY <1>1
<1> QED BY <1>1, <1>8, <1>9, <1>10, FlagTurn

\* The current thread goes back to its caller or exits.
LEMMA FlagReturns ==
    ASSUME FlagInv, self # Idle, NEW n, KernelInv(n),
           NEW l, Only(n, k, self, l), SleeperOK(l, {}), Life(k, self).on = {},
           k' = Unlock(n) \/ k' = Reschedule(n),
           pc' = [pc EXCEPT ![self] = "user"], UNCHANGED ticks, value' \subseteq value,
           info' \in {info, [info EXCEPT ![self] = NoInfo]}
    PROVE  FlagInv' /\ Quiet
<1>1. KInv /\ self \in AllThread /\ info \in [Thread -> WaitInfo] /\ self \in Thread
  BY KInvFacts DEF FlagInv, AllThread
<1>2. KInv' /\ Turn(self, l, "user")
  BY <1>1, TurnStep
<1>3. FlagOK(l, "user", info'[self], value')
  BY DEF FlagOK, PC
<1>4. NoInfo \in WaitInfo
  BY DEF NoInfo, WaitInfo
<1>5. /\ info' \in [Thread -> WaitInfo]
      /\ \A u \in AllThread \ {self} : info'[u] = info[u]
  <2>1. CASE info' = info
    BY <1>1, <2>1
  <2>2. CASE info' = [info EXCEPT ![self] = NoInfo]
    BY <1>1, <1>4, <2>2
  <2> QED BY <2>1, <2>2
<1> QED BY <1>1, <1>2, <1>3, <1>5, FlagTurn

\* A thread that calls the flag is on no queue.
LEMMA FlagCaller ==
    ASSUME FlagInv, InThread
    PROVE  /\ KInv /\ KernelInv(k) /\ QueuesDistinct(k)
           /\ self \in AllThread /\ self # Idle /\ self = k.current
           /\ Life(k, self).state = {} /\ SleeperOK(Life(k, self), {})
           /\ Life(k, self).on = {}
           /\ pc = [pc EXCEPT ![self] = "user"]
           /\ Only(k, k, self, Life(k, self))
<1>1. KInv /\ pc[self] = "user" /\ self \in AllThread
  BY InThreadFacts DEF FlagInv
<1>2. FlagOK(Life(k, self), "user", info[self], value)
  BY <1>1 DEF FlagInv
<1>3. SleeperOK(Life(k, self), {}) /\ Life(k, self).on = {}
  BY <1>2 DEF FlagOK, InFlag, SleeperOK
<1>4. pc = [pc EXCEPT ![self] = "user"]
  BY <1>1 DEF KInv
<1>5. Only(k, k, self, Life(k, self))
  BY <1>1 DEF Only, KInv
<1> QED BY <1>1, <1>3, <1>4, <1>5, InThreadFacts

\* The pattern and mode of a wait make its wait information, and if poll()
\* fails the value does not match it.
LEMMA PollFails ==
    ASSUME FlagInv, NEW pattern \in Patterns, NEW mode \in WaitMode
    PROVE  /\ saveme(pattern, mode) \in WaitInfo
           /\ saveme(pattern, mode).value_out = {}
           /\ poll(pattern, mode) = {} => ~Matches(saveme(pattern, mode), value)
           /\ ValueAfterPoll(pattern, mode) \subseteq value
<1> DEFINE i == saveme(pattern, mode)
<1>1. i \in WaitInfo /\ i.value_out = {}
  BY DEF saveme, WaitInfo, Patterns
<1> HIDE DEF i
<1>2. poll(pattern, mode) = IF Matches(i, value) THEN value ELSE {}
  BY DEF poll, i
<1>3. ~Matches(i, {})
  BY MatchesNothing
<1>4. poll(pattern, mode) = {} => ~Matches(i, value)
  BY <1>2, <1>3
<1> QED BY <1>1, <1>4 DEF i, ValueAfterPoll

\* wait() returns the value or joins the queue.
LEMMA FlagWaitInv ==
    ASSUME FlagInv, NEW pattern \in Patterns, NEW mode \in WaitMode,
           FlagWait(pattern, mode)
    PROVE  FlagInv' /\ Quiet
<1> DEFINE l == Life(k, self)
           i == saveme(pattern, mode)
<1>1. InThread /\ UNCHANGED ticks /\ value' = ValueAfterPoll(pattern, mode)
  BY DEF FlagWait
<1>2. /\ KInv /\ KernelInv(k) /\ QueuesDistinct(k)
      /\ self \in AllThread /\ self # Idle /\ self = k.current
      /\ l.state = {} /\ SleeperOK(l, {}) /\ l.on = {}
      /\ pc = [pc EXCEPT ![self] = "user"] /\ Only(k, k, self, l)
  BY <1>1, FlagCaller
<1>3. /\ i \in WaitInfo /\ i.value_out = {}
      /\ poll(pattern, mode) = {} => ~Matches(i, value)
      /\ value' \subseteq value
  BY <1>1, PollFails
<1>4. \/ k' = Unlock(k) /\ UNCHANGED <<pc, info>>
      \/ /\ poll(pattern, mode) = {}
         /\ info' = [info EXCEPT ![self] = i]
         /\ k' = FlagBlock(k, "WAIT")
         /\ pc' = [pc EXCEPT ![self] = "fwait"]
  BY DEF FlagWait
<1> HIDE DEF l, i
<1>5. CASE k' = Unlock(k) /\ UNCHANGED <<pc, info>>
  <2>1. pc' = [pc EXCEPT ![self] = "user"]
    BY <1>2, <1>5
  <2> QED BY <1>1, <1>2, <1>3, <1>5, <2>1, FlagReturns DEF l
<1>6. CASE /\ poll(pattern, mode) = {}
           /\ info' = [info EXCEPT ![self] = i]
           /\ k' = FlagBlock(k, "WAIT")
           /\ pc' = [pc EXCEPT ![self] = "fwait"]
  <2>1. "fwait" \in InFlag /\ WaitReason("fwait") = "WAIT"
    BY DEF InFlag, WaitReason
  <2> QED BY <1>1, <1>2, <1>3, <1>6, <2>1, FlagBlocks DEF l
<1> QED BY <1>4, <1>5, <1>6

\* wait(timeout) returns the value, gives up or joins the queue.
LEMMA FlagTimedWaitInv ==
    ASSUME FlagInv, NEW pattern \in Patterns, NEW mode \in WaitMode,
           NEW past \in BOOLEAN, FlagTimedWait(pattern, mode, past)
    PROVE  FlagInv' /\ Quiet
<1> DEFINE i  == saveme(pattern, mode)
           k1 == SetTimer(k, "TIMEOUT", past)
           l  == Life(k1, self)
           n  == ClearTimer(k1, self)
           m  == TimerOff(l)
<1>1. InThread /\ UNCHANGED ticks /\ value' = ValueAfterPoll(pattern, mode)
  BY DEF FlagTimedWait
<1>2. /\ KInv /\ KernelInv(k) /\ self \in AllThread /\ self # Idle
      /\ SleeperOK(Life(k, self), {}) /\ Life(k, self).on = {}
      /\ pc = [pc EXCEPT ![self] = "user"] /\ Only(k, k, self, Life(k, self))
  BY <1>1, FlagCaller
<1>3. /\ i \in WaitInfo /\ i.value_out = {}
      /\ poll(pattern, mode) = {} => ~Matches(i, value)
      /\ value' \subseteq value
  BY <1>1, PollFails
<1>4. \/ k' = Unlock(k) /\ UNCHANGED <<pc, info>>
      \/ k' = Unlock(n) /\ UNCHANGED <<pc, info>>
      \/ /\ poll(pattern, mode) = {}
         /\ info' = [info EXCEPT ![self] = i]
         /\ k' = FlagBlock(k1, "TIMEOUT")
         /\ pc' = [pc EXCEPT ![self] = "ftimed"]
  BY DEF FlagTimedWait
<1>5. /\ KernelInv(k1) /\ k1.current = self /\ Only(k1, k, self, l)
      /\ SleeperOK(l, {}) /\ l.state = {}
  BY <1>1, <1>2, TimerStarts
<1> HIDE DEF k1, l, i
<1>6. KernelInv(n) /\ Only(n, k, self, m) /\ SleeperOK(m, {})
  BY <1>2, <1>5, TimerEnds
<1> HIDE DEF n, m
<1>7. CASE (k' = Unlock(k) \/ k' = Unlock(n)) /\ UNCHANGED <<pc, info>>
  <2>1. pc' = [pc EXCEPT ![self] = "user"] /\ info' = info
    BY <1>2, <1>7
  <2>2. CASE k' = Unlock(k)
    BY <1>1, <1>2, <1>3, <2>1, <2>2, FlagReturns
  <2>3. CASE k' = Unlock(n)
    BY <1>1, <1>2, <1>3, <1>6, <2>1, <2>3, FlagReturns
  <2> QED BY <1>7, <2>2, <2>3
<1>8. CASE /\ poll(pattern, mode) = {}
           /\ info' = [info EXCEPT ![self] = i]
           /\ k' = FlagBlock(k1, "TIMEOUT")
           /\ pc' = [pc EXCEPT ![self] = "ftimed"]
  <2>1. "ftimed" \in InFlag /\ WaitReason("ftimed") = "TIMEOUT"
    BY DEF InFlag, WaitReason
  <2> QED BY <1>1, <1>2, <1>3, <1>5, <1>8, <2>1, FlagBlocks
<1> QED BY <1>4, <1>7, <1>8

\* A wait that is back from reschedule() is over: each way to wake it leaves
\* a reason that ends the loop or a value.
LEMMA FlagWokenInv ==
    ASSUME FlagInv, FlagWoken
    PROVE  FlagInv' /\ Quiet
<1> DEFINE l == Life(k, self)
           n == ClearTimer(k, self)
           m == TimerOff(l)
<1>1. /\ k.sched_lock = "inner" /\ pc[self] \in InFlag
      /\ UNCHANGED <<ticks, value>>
  BY DEF FlagWoken
<1>2. /\ KInv /\ KernelInv(k) /\ QueuesDistinct(k)
      /\ self \in AllThread /\ self = k.current /\ l.state = {}
      /\ self # Idle /\ k \in KernelState
  BY <1>1, KInvFacts DEF FlagInv, InFlag
<1>3. FlagOK(l, pc[self], info[self], value)
  BY <1>2 DEF FlagInv
<1>4. /\ SleeperOK(l, {}) /\ l.on = {} /\ l.wake # "NONE"
      /\ pc[self] = "fwait" => l.wake # "TIMEOUT"
      /\ info[self].value_out # {} <=> l.wake = "DONE"
  BY <1>1, <1>2, <1>3 DEF FlagOK, PC, InFlag, Waiter, SleeperOK
<1>5. l.wake = k.wake_reason[self] /\ Only(k, k, self, l) /\ l.wake \in WakeReason
  BY <1>2, KInvFacts DEF Life, Only, LifeType
<1>6. KernelInv(n) /\ Only(n, k, self, m) /\ SleeperOK(m, {})
  BY <1>2, <1>4, <1>5, TimerEnds
<1>7. KernelInv(Exit(k)) /\ Only(Exit(k), k, self, Exited(l)) /\ SleeperOK(Exited(l), {})
  <2>1. KernelInv(Exit(k)) /\ Only(Exit(k), k, self, Exited(l))
    BY <1>2, LifeRunnable, ExitInv, ExitLife
  <2>2. SleeperOK(Exited(l), {})
    BY <1>4 DEF Exited, TimerOff, WithState, SleeperOK
  <2> QED BY <2>1, <2>2
<1>8. \/ k.wake_reason[self] \in {"EXIT", "DESTRUCT", "BREAK"}
      \/ pc[self] = "ftimed" /\ k.wake_reason[self] = "TIMEOUT"
      \/ info[self].value_out # {}
  BY <1>1, <1>4, <1>5 DEF WakeReason, InFlag
<1>9. /\ pc' = [pc EXCEPT ![self] = "user"]
      /\ info' = [info EXCEPT ![self] = NoInfo]
      /\ \/ k' = Reschedule(Exit(k))
         \/ k' = Unlock(k)
         \/ k' = Unlock(n)
  BY <1>8 DEF FlagWoken
<1> HIDE DEF l, n, m
<1>10. CASE k' = Reschedule(Exit(k))
  BY <1>1, <1>2, <1>4, <1>7, <1>9, <1>10, FlagReturns DEF l
<1>11. CASE k' = Unlock(k)
  BY <1>1, <1>2, <1>4, <1>5, <1>9, <1>11, FlagReturns DEF l
<1>12. CASE k' = Unlock(n)
  BY <1>1, <1>2, <1>4, <1>6, <1>9, <1>12, FlagReturns DEF l
<1> QED BY <1>9, <1>10, <1>11, <1>12

\* maskbits() and poll() clear bits or none, and wake nobody.
LEMMA FlagClears ==
    ASSUME FlagInv, k' = Unlock(k), UNCHANGED <<pc, ticks, info>>, value' \subseteq value
    PROVE  FlagInv' /\ Quiet
<1> DEFINE l == Life(k, Idle)
<1>1. /\ KInv /\ KernelInv(k) /\ QueuesDistinct(k) /\ Idle \in AllThread
      /\ info \in [Thread -> WaitInfo]
  BY KInvFacts DEF FlagInv, AllThread
<1>2. Only(k, k, Idle, l)
  BY <1>1 DEF Only
<1>3. KInv' /\ Turn(Idle, l, pc[Idle])
  BY <1>1, <1>2, PlainTurn
<1>4. FlagOK(l, pc[Idle], info[Idle], value)
  BY <1>1 DEF FlagInv
<1>5. FlagOK(l, pc[Idle], info'[Idle], value')
  BY <1>4, FlagOKMonotone
<1> QED BY <1>1, <1>3, <1>5, FlagTurn

\* What Threads does to a waiter gives it no value and leaves its wait
\* information alone.
LEMMA FlagOtherInv ==
    ASSUME FlagInv, Next, UNCHANGED <<value, info>>
    PROVE  FlagInv' /\ Quiet
<1>1. /\ KInv /\ KInv' /\ \A t \in AllThread : Life(k, t) \in LifeType
      /\ info \in [Thread -> WaitInfo]
  BY NextMoves, KInvFacts DEF FlagInv
<1>2. PICK t \in AllThread : Moves(t)
  BY <1>1, NextMoves
<1> DEFINE l == Life(k, t)
           m == Life(k', t)
<1>3. /\ Turn(t, m, pc'[t]) /\ l \in LifeType
      /\ FlagOK(l, pc[t], info[t], value)
      /\ \/ Affected(l, m) /\ pc'[t] = pc[t]
         \/ Acts(l, pc[t], m, pc'[t])
  BY <1>1, <1>2 DEF Moves, FlagInv
<1> HIDE DEF l, m
<1>4. FlagOK(m, pc'[t], info[t], value) /\ (flagq \in l.on => pc'[t] = pc[t])
  BY <1>3, MovesFlag
<1> QED BY <1>1, <1>3, <1>4, FlagTurn DEF l

-----------------------------------------------------------------------------
(* setbits(): the walk over the queue *)

\* The states the walk over s goes through, from its first state.
LEMMA WalkStates ==
    ASSUME NEW w, NEW s, NEW n \in Nat
    PROVE  \E f : f = [i \in 0..n |-> IF i = 0 THEN w ELSE SetbitsVisit(f[i - 1], s[i])]
<1> DEFINE S == {m \in Nat : \E f :
                   f = [i \in 0..m |-> IF i = 0 THEN w ELSE SetbitsVisit(f[i - 1], s[i])]}
<1>1. 0 \in S
  <2> DEFINE f == [i \in 0..0 |-> w]
  <2>1. f = [i \in 0..0 |-> IF i = 0 THEN w ELSE SetbitsVisit(f[i - 1], s[i])]
    OBVIOUS
  <2> QED BY <2>1
<1>2. ASSUME NEW m \in Nat, m \in S PROVE m + 1 \in S
  <2>1. PICK f : f = [i \in 0..m |-> IF i = 0 THEN w ELSE SetbitsVisit(f[i - 1], s[i])]
    BY <1>2
  <2> DEFINE g == [i \in 0..(m + 1) |-> IF i <= m THEN f[i] ELSE SetbitsVisit(f[m], s[m + 1])]
  <2>2. ASSUME NEW i \in 0..(m + 1)
        PROVE  g[i] = IF i = 0 THEN w ELSE SetbitsVisit(g[i - 1], s[i])
    <3>1. CASE i = 0
      BY <2>1, <3>1
    <3>2. CASE i # 0 /\ i <= m
      <4>1. i \in 0..m /\ i - 1 \in 0..m /\ i - 1 \in 0..(m + 1) /\ i - 1 <= m
        BY <3>2
      <4>2. g[i] = f[i] /\ g[i - 1] = f[i - 1]
        BY <4>1, <3>2
      <4>3. f[i] = SetbitsVisit(f[i - 1], s[i])
        BY <4>1, <3>2, <2>1
      <4> QED BY <4>2, <4>3, <3>2
    <3>3. CASE i = m + 1
      <4>1. m \in 0..m /\ m \in 0..(m + 1) /\ i # 0 /\ i - 1 = m /\ ~(m + 1 <= m)
        BY <3>3
      <4>2. g[i] = SetbitsVisit(f[m], s[m + 1]) /\ g[m] = f[m]
        BY <4>1, <3>3
      <4> QED BY <4>1, <4>2, <3>3
    <3> QED BY <3>1, <3>2, <3>3
  <2>3. g = [i \in 0..(m + 1) |-> g[i]]
    OBVIOUS
  <2> HIDE DEF g
  <2>4. g = [i \in 0..(m + 1) |-> IF i = 0 THEN w ELSE SetbitsVisit(g[i - 1], s[i])]
    BY <2>2, <2>3
  <2>5. m + 1 \in Nat
    OBVIOUS
  <2> QED BY <2>4, <2>5
<1> HIDE DEF S
<1>3. n \in S
  BY <1>1, <1>2, SetInduction
<1> QED BY <1>3 DEF S

\* The walk over s from state w, as SetbitsWalk defines it.
WalkOver(w, s) ==
    LET after[i \in 0..Len(s)] == IF i = 0 THEN w ELSE SetbitsVisit(after[i - 1], s[i])
    IN  after[Len(s)]

\* It goes from state to state by turns.
LEMMA WalkFunction ==
    ASSUME NEW w, NEW s, Len(s) \in Nat
    PROVE  \E f : /\ WalkOver(w, s) = f[Len(s)] /\ f[0] = w
                 /\ \A i \in 1..Len(s) : f[i] = SetbitsVisit(f[i - 1], s[i])
<1> DEFINE f == CHOOSE f : f = [i \in 0..Len(s) |->
                                  IF i = 0 THEN w ELSE SetbitsVisit(f[i - 1], s[i])]
<1>1. WalkOver(w, s) = f[Len(s)]
  BY DEF WalkOver
<1>2. f = [i \in 0..Len(s) |-> IF i = 0 THEN w ELSE SetbitsVisit(f[i - 1], s[i])]
  BY WalkStates
<1> HIDE DEF f
<1>3. f[0] = w /\ \A i \in 1..Len(s) : f[i] = SetbitsVisit(f[i - 1], s[i])
  BY <1>2
<1> QED BY <1>1, <1>3

\* A state of the walk.
IsWalk(w) ==
    /\ w = [k |-> w.k, value |-> w.value, info |-> w.info, holding |-> w.holding]
    /\ KernelInv(w.k) /\ QueuesDistinct(w.k)
    /\ w.value \subseteq Bits
    /\ w.info \in [Thread -> WaitInfo]
    /\ w.holding \in Seq(AllThread) /\ IsInjective(w.holding)

\* The turn of the walk that wakes thread t.
Wakes(n, w, t) ==
    /\ Matches(w.info[t], w.value)
    /\ Only(n.k, w.k, t, Dequeued(Life(w.k, t), "DONE"))
    /\ n.value = IF w.info[t].do_clear THEN {} ELSE w.value
    /\ n.info[t].value_out = w.value
    /\ \A u \in AllThread \ {t} : n.info[u] = w.info[u]
    /\ n.holding = w.holding

\* The turn that keeps it.
Holds(n, w, t) ==
    /\ ~Matches(w.info[t], w.value)
    /\ Only(n.k, w.k, t, Unqueued(Life(w.k, t)))
    /\ n.value = w.value
    /\ n.info = w.info
    /\ Range(n.holding) = Range(w.holding) \cup {t}

\* One turn of the walk.
LEMMA VisitTurn ==
    ASSUME NEW w, IsWalk(w), NEW t \in Thread, t \notin Range(w.holding),
           NEW n, n = SetbitsVisit(w, t)
    PROVE  IsWalk(n) /\ (Wakes(n, w, t) \/ Holds(n, w, t))
<1> DEFINE p  == w.info[t]
           k1 == LeaveQueue(w.k, t)
           k2 == Wake(SetWakeReason(k1, t, "DONE"), t)
           q  == [p EXCEPT !.value_out = w.value]
           ni == [w.info EXCEPT ![t] = q]
           h  == Append(w.holding, t)
<1>1. /\ t \in AllThread /\ p \in WaitInfo /\ w.k \in KernelState
      /\ w = [k |-> w.k, value |-> w.value, info |-> w.info, holding |-> w.holding]
  BY DEF IsWalk, KernelInv, AllThread
<1>2. n = IF Matches(p, w.value)
          THEN [w EXCEPT !.k = k2, !.info[t].value_out = w.value,
                         !.value = IF p.do_clear THEN {} ELSE w.value]
          ELSE [w EXCEPT !.k = k1, !.holding = h]
  BY DEF SetbitsVisit
<1>3. KernelInv(k2) /\ Only(k2, w.k, t, Dequeued(Life(w.k, t), "DONE"))
  BY <1>1, DequeueLife DEF IsWalk, WakeReason
<1>4. KernelInv(k1) /\ Only(k1, w.k, t, Unqueued(Life(w.k, t)))
  <2>1. k1 \in KernelState /\ SameScheduling(k1, w.k)
    BY <1>1, LeaveQueueFacts DEF SameScheduling, SameThreads
  <2> QED BY <1>1, <2>1, SameSchedulingInv, LeaveQueueLife DEF IsWalk
<1>5. QueuesDistinct(k1) /\ QueuesDistinct(k2)
  BY <1>3, <1>4 DEF Only
<1>6. q \in WaitInfo /\ q.value_out = w.value
  BY <1>1 DEF WaitInfo, IsWalk
<1>7. CASE Matches(p, w.value)
  <2>1. n = [k |-> k2, value |-> IF p.do_clear THEN {} ELSE w.value, info |-> ni,
             holding |-> w.holding]
    <3>1. n = [w EXCEPT !.k = k2, !.info[t].value_out = w.value,
                        !.value = IF p.do_clear THEN {} ELSE w.value]
      BY <1>2, <1>7
    <3> HIDE DEF k2
    <3> QED BY <1>1, <3>1
  <2> HIDE DEF k2, q, p
  <2>2. /\ ni \in [Thread -> WaitInfo] /\ ni[t] = q
        /\ \A u \in AllThread \ {t} : ni[u] = w.info[u]
    BY <1>6 DEF IsWalk
  <2> HIDE DEF ni
  <2>3. /\ n.k = k2 /\ n.value = (IF p.do_clear THEN {} ELSE w.value)
        /\ n.info = ni /\ n.holding = w.holding
        /\ n = [k |-> n.k, value |-> n.value, info |-> n.info, holding |-> n.holding]
    BY <2>1
  <2>4. IsWalk(n)
    BY <1>3, <1>5, <2>2, <2>3 DEF IsWalk
  <2>5. Wakes(n, w, t)
    BY <1>3, <1>6, <1>7, <2>2, <2>3 DEF Wakes, p
  <2> QED BY <2>4, <2>5
<1>8. CASE ~Matches(p, w.value)
  <2>1. n = [k |-> k1, value |-> w.value, info |-> w.info, holding |-> h]
    <3>1. n = [w EXCEPT !.k = k1, !.holding = h]
      BY <1>2, <1>8
    <3> HIDE DEF k1, h
    <3> QED BY <1>1, <3>1
  <2> HIDE DEF k1, k2, q, p
  <2>2. /\ h \in Seq(AllThread) /\ IsInjective(h) /\ Range(h) = Range(w.holding) \cup {t}
    BY <1>1, AppendFacts DEF IsWalk
  <2> HIDE DEF h
  <2>3. /\ n.k = k1 /\ n.value = w.value /\ n.info = w.info /\ n.holding = h
        /\ n = [k |-> n.k, value |-> n.value, info |-> n.info, holding |-> n.holding]
    BY <2>1
  <2>4. IsWalk(n)
    BY <1>4, <1>5, <2>2, <2>3 DEF IsWalk
  <2>5. Holds(n, w, t)
    BY <1>4, <1>8, <2>2, <2>3 DEF Holds, p
  <2> QED BY <2>4, <2>5
<1> QED BY <1>7, <1>8

\* What the walk has made of a thread that it has passed, when the bits were v
\* at its start: it is awake with that value, or held and not satisfied.
Passed(w, u, v) ==
    \/ /\ u \notin Range(w.holding)
       /\ Life(w.k, u) = Dequeued(Life(k, u), "DONE")
       /\ w.info[u].value_out = v
       /\ info[u].do_clear => w.value = {}
    \/ /\ u \in Range(w.holding)
       /\ Life(w.k, u) = Unqueued(Life(k, u))
       /\ w.info[u] = info[u]
       /\ ~Matches(info[u], w.value)

\* The walk with the first i threads of s behind it.
Walked(w, s, i, v) ==
    LET Past == {s[j] : j \in 1..i}
    IN  /\ IsWalk(w) /\ w.value \in {v, {}}
        /\ Range(w.holding) \subseteq Past
        /\ \A u \in AllThread :
             IF u \in Past THEN Passed(w, u, v)
             ELSE Life(w.k, u) = Life(k, u) /\ w.info[u] = info[u]
        /\ \A j \in 1..i : s[j] \notin Range(w.holding) /\ info[s[j]].do_clear =>
             \A m \in (j + 1)..i : s[m] \in Range(w.holding)

\* A turn goes on from one thread of the queue to the next.
LEMMA WalkedTurn ==
    ASSUME NEW s, s \in Seq(Thread), IsInjective(s), NEW i \in Nat, i + 1 <= Len(s),
           NEW v, NEW w, Walked(w, s, i, v), NEW n, n = SetbitsVisit(w, s[i + 1])
    PROVE  Walked(n, s, i + 1, v)
<1> DEFINE t == s[i + 1]
           P == {s[j] : j \in 1..i}
           Q == {s[j] : j \in 1..(i + 1)}
<1>1. /\ DOMAIN s = 1..Len(s) /\ Len(s) \in Nat /\ i + 1 \in 1..Len(s)
      /\ t \in Thread /\ t \in AllThread
  BY LenProperties, ElementOfSeq DEF AllThread
<1>2. t \notin P
  <2> SUFFICES ASSUME NEW j \in 1..i, s[j] = s[i + 1] PROVE FALSE
    OBVIOUS
  <2>1. j \in 1..Len(s) /\ j # i + 1
    BY <1>1
  <2> QED BY <1>1, <2>1 DEF IsInjective
<1>3. Q = P \cup {t}
  <2>1. 1..(i + 1) = (1..i) \cup {i + 1}
    OBVIOUS
  <2> QED BY <2>1
<1>4. /\ IsWalk(w) /\ w.value \in {v, {}} /\ Range(w.holding) \subseteq P
      /\ \A u \in AllThread :
           IF u \in P THEN Passed(w, u, v)
           ELSE Life(w.k, u) = Life(k, u) /\ w.info[u] = info[u]
  BY DEF Walked
<1>5. \A j \in 1..i : s[j] \notin Range(w.holding) /\ info[s[j]].do_clear =>
             \A m \in (j + 1)..i : s[m] \in Range(w.holding)
  BY DEF Walked
<1>6. \A j \in 1..i : s[j] \in P /\ s[j] \in AllThread /\ s[j] # t
  <2>1. ASSUME NEW j \in 1..i PROVE s[j] \in P /\ s[j] \in AllThread /\ s[j] # t
    <3>1. j \in 1..Len(s) /\ s[j] \in P
      BY <1>1
    <3> QED BY <1>2, <3>1, ElementOfSeq DEF AllThread
  <2> QED BY <2>1
<1> HIDE DEF P, t
<1>7. IsWalk(n) /\ (Wakes(n, w, t) \/ Holds(n, w, t))
  BY <1>1, <1>2, <1>4, VisitTurn DEF t
<1>8. w.info[t] = info[t] /\ Life(w.k, t) = Life(k, t)
  BY <1>1, <1>2, <1>4
<1>9. CASE Wakes(n, w, t)
  <2>1. /\ Matches(info[t], w.value) /\ n.holding = w.holding
        /\ n.value = IF info[t].do_clear THEN {} ELSE w.value
        /\ n.info[t].value_out = w.value
        /\ Life(n.k, t) = Dequeued(Life(k, t), "DONE")
        /\ \A u \in AllThread \ {t} : Life(n.k, u) = Life(w.k, u) /\ n.info[u] = w.info[u]
    BY <1>8, <1>9 DEF Wakes, Only
  <2>2. w.value = v /\ n.value \in {v, {}}
    BY <1>4, <2>1, MatchesNothing
  <2>3. Passed(n, t, v) /\ t \notin Range(w.holding)
    BY <1>2, <1>4, <2>1, <2>2 DEF Passed
  <2>4. ASSUME NEW u \in P, u \in AllThread PROVE Passed(n, u, v)
    <3>1. Passed(w, u, v) /\ u # t
      BY <1>2, <1>4, <2>4
    <3>2. ~Matches(info[u], w.value) => ~Matches(info[u], n.value)
      BY <2>1, MatchesNothing
    <3>3. w.value = {} => n.value = {}
      BY <2>1
    <3> QED BY <2>1, <2>4, <3>1, <3>2, <3>3 DEF Passed
  <2>5. ASSUME NEW u \in AllThread
        PROVE  IF u \in Q THEN Passed(n, u, v)
               ELSE Life(n.k, u) = Life(k, u) /\ n.info[u] = info[u]
    BY <1>3, <1>4, <2>1, <2>3, <2>4
  <2>6. ASSUME NEW j \in 1..(i + 1), s[j] \notin Range(n.holding), info[s[j]].do_clear,
               NEW m \in (j + 1)..(i + 1)
        PROVE  s[m] \in Range(n.holding)
    <3>1. j \in 1..i
      BY <2>6
    <3>2. Passed(w, s[j], v)
      BY <1>4, <1>6, <3>1
    <3>3. w.value = {}
      BY <2>1, <2>6, <3>2 DEF Passed
    <3> QED BY <2>1, <3>3, MatchesNothing
  <2>7. Range(n.holding) \subseteq Q
    BY <1>3, <1>4, <2>1
  <2> QED BY <1>7, <2>2, <2>5, <2>6, <2>7 DEF Walked
<1>10. CASE Holds(n, w, t)
  <2>1. /\ ~Matches(info[t], w.value) /\ Range(n.holding) = Range(w.holding) \cup {t}
        /\ n.value = w.value /\ n.info = w.info
        /\ Life(n.k, t) = Unqueued(Life(k, t))
        /\ \A u \in AllThread \ {t} : Life(n.k, u) = Life(w.k, u)
    BY <1>8, <1>10 DEF Holds, Only
  <2>2. Passed(n, t, v)
    BY <1>8, <2>1 DEF Passed
  <2>3. ASSUME NEW u \in P, u \in AllThread PROVE Passed(n, u, v)
    <3>1. Passed(w, u, v) /\ u # t
      BY <1>2, <1>4, <2>3
    <3> QED BY <2>1, <2>3, <3>1 DEF Passed
  <2>4. ASSUME NEW u \in AllThread
        PROVE  IF u \in Q THEN Passed(n, u, v)
               ELSE Life(n.k, u) = Life(k, u) /\ n.info[u] = info[u]
    BY <1>3, <1>4, <2>1, <2>2, <2>3
  <2>5. ASSUME NEW j \in 1..(i + 1), s[j] \notin Range(n.holding), info[s[j]].do_clear,
               NEW m \in (j + 1)..(i + 1)
        PROVE  s[m] \in Range(n.holding)
    <3>1. CASE m = i + 1
      BY <2>1, <3>1 DEF t
    <3>2. CASE m # i + 1
      <4>1. j \in 1..i /\ m \in (j + 1)..i
        BY <3>2
      <4> QED BY <1>5, <2>1, <2>5, <4>1
    <3> QED BY <3>1, <3>2
  <2>6. Range(n.holding) \subseteq Q
    BY <1>3, <1>4, <2>1
  <2> QED BY <1>4, <1>7, <2>1, <2>4, <2>5, <2>6 DEF Walked
<1> QED BY <1>7, <1>9, <1>10

\* The threads of the queue are threads of the application, each once.
LEMMA FlagQueueThreads ==
    ASSUME FlagInv
    PROVE  /\ queue \in Seq(Thread) /\ IsInjective(queue)
           /\ \A u \in AllThread : u \in Range(queue) <=> flagq \in Life(k, u).on
<1>1. /\ KInv /\ k \in KernelState /\ QueuesDistinct(k) /\ flagq \in WaitQueue
      /\ \A u \in AllThread : FlagOK(Life(k, u), pc[u], info[u], value)
  BY KInvFacts, FlagAssumption DEF FlagInv
<1>2. queue \in Seq(AllThread) /\ IsInjective(queue)
  BY <1>1 DEF queue, KernelState, QueuesDistinct
<1>3. \A u : u \in Range(queue) <=> flagq \in Life(k, u).on
  BY <1>1, QueueLife DEF queue
<1>4. ASSUME NEW j \in 1..Len(queue) PROVE queue[j] \in Thread
  <2>1. queue[j] \in AllThread /\ queue[j] \in Range(queue)
    BY <1>2, LenProperties, ElementOfSeq DEF Range
  <2>2. pc[queue[j]] \in InFlag
    BY <1>1, <1>3, <2>1, OnFlagQueue
  <2>3. pc[Idle] \notin InFlag
    BY <1>1 DEF KInv, InFlag
  <2> QED BY <2>1, <2>2, <2>3 DEF AllThread
<1>5. queue \in Seq(Thread)
  <2>1. queue = [j \in 1..Len(queue) |-> queue[j]] /\ Len(queue) \in Nat
    BY <1>2, LenProperties
  <2> QED BY <1>4, <2>1, IsASeq
<1> QED BY <1>2, <1>3, <1>5

\* The walk passes every thread of the queue.
LEMMA WalkEnds ==
    ASSUME FlagInv, NEW arg \in Patterns
    PROVE  Walked(SetbitsWalk(arg), queue, Len(queue), value \cup arg)
<1> DEFINE s == queue
           v == value \cup arg
           w == [k |-> k, value |-> v, info |-> info, holding |-> <<>>]
<1>1. s \in Seq(Thread) /\ IsInjective(s) /\ Len(s) \in Nat
  BY FlagQueueThreads, LenProperties
<1> HIDE DEF s, v, w
<1>2. SetbitsWalk(arg) = WalkOver(w, s)
  BY DEF SetbitsWalk, WalkOver, w, s, v, queue
<1>3. PICK f : /\ WalkOver(w, s) = f[Len(s)] /\ f[0] = w
               /\ \A i \in 1..Len(s) : f[i] = SetbitsVisit(f[i - 1], s[i])
  BY <1>1, WalkFunction
<1> DEFINE S == {i \in Nat : i <= Len(s) => Walked(f[i], s, i, v)}
<1>5. Walked(w, s, 0, v)
  <2>1. {s[j] : j \in 1..0} = {}
    OBVIOUS
  <2>2. /\ KernelInv(k) /\ QueuesDistinct(k) /\ v \subseteq Bits
        /\ info \in [Thread -> WaitInfo]
    BY KInvFacts DEF FlagInv, Patterns, v
  <2>3. <<>> \in Seq(AllThread) /\ IsInjective(<<>>) /\ Range(<<>>) = {}
    BY DEF IsInjective, Range
  <2>4. w.k = k /\ w.value = v /\ w.info = info /\ w.holding = <<>>
    BY DEF w
  <2>5. IsWalk(w)
    BY <2>2, <2>3 DEF IsWalk, w
  <2> QED BY <2>1, <2>3, <2>4, <2>5 DEF Walked
<1>6. ASSUME NEW i \in Nat, i \in S PROVE i + 1 \in S
  <2> SUFFICES ASSUME i + 1 <= Len(s) PROVE Walked(f[i + 1], s, i + 1, v)
    OBVIOUS
  <2>1. i + 1 \in 1..Len(s) /\ (i + 1) - 1 = i /\ i <= Len(s)
    BY <1>1
  <2>2. f[i + 1] = SetbitsVisit(f[i], s[i + 1]) /\ Walked(f[i], s, i, v)
    BY <1>3, <1>6, <2>1
  <2> QED BY <1>1, <2>2, WalkedTurn
<1>7. 0 \in S
  BY <1>3, <1>5
<1> HIDE DEF S
<1>8. Len(s) \in S
  BY <1>1, <1>6, <1>7, SetInduction
<1>9. Walked(f[Len(s)], s, Len(s), v)
  BY <1>1, <1>8 DEF S
<1> QED BY <1>2, <1>3, <1>9 DEF s, v

\* The held threads are put back on the queue of the flag, which is empty.
LEMMA PutBack ==
    ASSUME NEW n, KernelInv(n), QueuesDistinct(n), NEW h \in Seq(AllThread),
           IsInjective(h), \A u \in Range(h) : flagq \notin Life(n, u).on,
           \A u \in AllThread : flagq \notin Life(n, u).on,
           NEW m, m = [n EXCEPT !.wait_queue[flagq] = h]
    PROVE  /\ KernelInv(m) /\ QueuesDistinct(m)
           /\ \A u \in AllThread :
                Life(m, u) = IF u \in Range(h) THEN Queued(Life(n, u), flagq) ELSE Life(n, u)
<1>1. n \in KernelState /\ flagq \in WaitQueue
  BY FlagAssumption DEF KernelInv
<1>2. /\ m \in KernelState
      /\ m.wait_queue = [n.wait_queue EXCEPT ![flagq] = h]
      /\ n.wait_queue \in [WaitQueue -> Seq(AllThread)]
  BY <1>1 DEF KernelState
<1>3. SameThreads(m, n) /\ SameScheduling(m, n)
  BY <1>1 DEF KernelState, SameThreads, SameScheduling
<1>4. \A q \in WaitQueue : m.wait_queue[q] = IF q = flagq THEN h ELSE n.wait_queue[q]
  BY <1>1, <1>2
<1>5. KernelInv(m) /\ QueuesDistinct(m)
  BY <1>2, <1>3, <1>4, SameSchedulingInv DEF QueuesDistinct
<1>6. ASSUME NEW u \in AllThread
      PROVE  Life(m, u) = IF u \in Range(h) THEN Queued(Life(n, u), flagq) ELSE Life(n, u)
  <2>1. flagq \notin OnQueue(n, u)
    BY DEF Life
  <2>2. OnQueue(m, u) = IF u \in Range(h) THEN OnQueue(n, u) \cup {flagq} ELSE OnQueue(n, u)
    BY <1>1, <1>4, <2>1 DEF OnQueue
  <2> QED BY <1>3, <2>2 DEF Life, SameThreads, Queued
<1> QED BY <1>5, <1>6

\* An operation that ends in unlock() and may have changed many lives.
LEMMA UnlockStep ==
    ASSUME KInv, NEW n, KernelInv(n), QueuesDistinct(n), k' = Unlock(n),
           UNCHANGED <<pc, ticks>>
    PROVE  KInv' /\ \A u \in AllThread : Life(k', u) = Life(n, u)
<1>1. Same(k', n) /\ KernelInv(k') /\ CurrentOK(k')
  BY UnlockFacts, LockLife
<1> QED BY <1>1 DEF KInv, Same

\* setbits() wakes the satisfied waiters, each with the value, and puts the
\* others back, none of which the value it leaves satisfies.
LEMMA FlagSetbitsInv ==
    ASSUME FlagInv, NEW arg \in Patterns, FlagSetbits(arg)
    PROVE  /\ FlagInv'
           /\ \A i, j \in DOMAIN queue :
                i <= j /\ Awoken(queue[i]) /\ info[queue[i]].do_clear =>
                    value' = {} /\ (i < j => ~Awoken(queue[j]))
<1> DEFINE w == SetbitsWalk(arg)
           v == value \cup arg
           s == queue
           h == w.holding
           m == [w.k EXCEPT !.wait_queue[flagq] = w.holding]
<1>1. /\ value' = w.value /\ info' = w.info /\ k' = Unlock(m)
      /\ UNCHANGED <<pc, ticks>>
  BY DEF FlagSetbits
<1>2. /\ KInv /\ flagq \in WaitQueue /\ v # {}
      /\ \A u \in AllThread : FlagOK(Life(k, u), pc[u], info[u], value)
  <2>1. arg # {}
    BY DEF Patterns
  <2> QED BY <2>1, FlagAssumption DEF FlagInv
<1>3. /\ s \in Seq(Thread) /\ IsInjective(s)
      /\ DOMAIN s = 1..Len(s) /\ Len(s) \in Nat
      /\ \A u \in AllThread : u \in Range(s) <=> flagq \in Life(k, u).on
      /\ Range(s) = {s[j] : j \in 1..Len(s)}
  BY FlagQueueThreads, LenProperties DEF Range
<1>4. Walked(w, s, Len(s), v)
  BY WalkEnds
<1> HIDE DEF w, v, s
<1>5. /\ IsWalk(w) /\ Range(h) \subseteq Range(s)
      /\ \A u \in AllThread :
           IF u \in Range(s) THEN Passed(w, u, v)
           ELSE Life(w.k, u) = Life(k, u) /\ w.info[u] = info[u]
      /\ \A j \in 1..Len(s) : s[j] \notin Range(h) /\ info[s[j]].do_clear =>
             \A i \in (j + 1)..Len(s) : s[i] \in Range(h)
      /\ w.value \in {v, {}}
  BY <1>3, <1>4 DEF Walked
<1>6. ASSUME NEW u \in AllThread PROVE flagq \notin Life(w.k, u).on
  <2>1. CASE u \in Range(s)
    <3>1. Dequeued(Life(k, u), "DONE").on = {} /\ Unqueued(Life(k, u)).on = {}
      BY DEF Dequeued, Unqueued
    <3>2. Passed(w, u, v)
      BY <1>5, <2>1
    <3> QED BY <3>1, <3>2 DEF Passed
  <2>2. CASE u \notin Range(s)
    BY <1>3, <1>5, <2>2
  <2> QED BY <2>1, <2>2
<1>7. /\ KernelInv(w.k) /\ QueuesDistinct(w.k) /\ h \in Seq(AllThread) /\ IsInjective(h)
      /\ w.info \in [Thread -> WaitInfo] /\ w.value \subseteq Bits
  BY <1>5 DEF IsWalk
<1>8. Range(h) \subseteq AllThread
  BY <1>7, LenProperties, ElementOfSeq DEF Range
<1> HIDE DEF h
<1>9. /\ KernelInv(m) /\ QueuesDistinct(m)
      /\ \A u \in AllThread :
           Life(m, u) = IF u \in Range(h) THEN Queued(Life(w.k, u), flagq)
                        ELSE Life(w.k, u)
  BY <1>6, <1>7, <1>8, PutBack DEF h
<1> HIDE DEF m
<1>10. KInv' /\ \A u \in AllThread : Life(k', u) = Life(m, u)
  BY <1>1, <1>2, <1>9, UnlockStep
<1>11. ASSUME NEW u \in Range(s), u \in AllThread
       PROVE  /\ FlagOK(Life(k', u), pc'[u], info'[u], value')
              /\ u \in Range(h) => Life(k', u) = Life(k, u)
              /\ u \notin Range(h) /\ info[u].do_clear => value' = {}
  <2> DEFINE l == Life(k, u)
  <2>1. /\ pc[u] \in InFlag /\ "SLEEPING" \in l.state /\ l.on = {flagq}
        /\ FlagOK(l, pc[u], info[u], value)
    BY <1>2, <1>3, <1>11, OnFlagQueue
  <2>2. Waiter(l, pc[u], info[u], value)
    BY <2>1 DEF FlagOK, PC, InFlag
  <2>3. Passed(w, u, v) /\ pc'[u] = pc[u]
    BY <1>1, <1>5, <1>11
  <2>4. CASE u \in Range(h)
    <3>1. /\ Life(w.k, u) = Unqueued(l) /\ info'[u] = info[u]
          /\ ~Matches(info[u], value')
      BY <1>1, <2>3, <2>4 DEF Passed, h
    <3>2. Life(k', u) = Queued(Unqueued(l), flagq)
      BY <1>9, <1>10, <1>11, <2>4, <3>1
    <3>3. l = [state |-> l.state, sleep |-> l.sleep, wake |-> l.wake,
               timer |-> l.timer, on |-> l.on]
      BY DEF Life
    <3>4. Life(k', u) = l
      <4> HIDE DEF l
      <4> QED BY <2>1, <3>2, <3>3 DEF Queued, Unqueued
    <3>5. Waiter(l, pc[u], info[u], value')
      BY <2>2, <3>1 DEF Waiter
    <3> QED BY <2>1, <2>3, <2>4, <3>1, <3>4, <3>5 DEF FlagOK
  <2>5. CASE u \notin Range(h)
    <3>1. /\ Life(w.k, u) = Dequeued(l, "DONE") /\ info'[u].value_out = v
          /\ info[u].do_clear => value' = {}
      BY <1>1, <2>3, <2>5 DEF Passed, h
    <3>2. Life(k', u) = Dequeued(l, "DONE")
      BY <1>9, <1>10, <1>11, <2>5, <3>1
    <3>3. /\ Dequeued(l, "DONE").state = l.state \ {"SLEEPING", "COUNTSLEEP"}
          /\ Dequeued(l, "DONE").sleep = "NONE" /\ Dequeued(l, "DONE").wake = "DONE"
          /\ SleeperOK(Dequeued(l, "DONE"), {flagq})
      BY DequeuedSleeper DEF Dequeued, SLEEPSET
    <3>4. Waiter(Dequeued(l, "DONE"), pc[u], info'[u], value')
      BY <1>2, <3>1, <3>3 DEF Waiter
    <3> QED BY <2>1, <2>3, <2>5, <3>1, <3>2, <3>4 DEF FlagOK
  <2> QED BY <2>4, <2>5
<1>12. ASSUME NEW u \in AllThread, u \notin Range(s)
       PROVE  FlagOK(Life(k', u), pc'[u], info'[u], value')
  <2>1. Life(k', u) = Life(k, u) /\ info'[u] = info[u] /\ pc'[u] = pc[u]
    BY <1>1, <1>5, <1>9, <1>10, <1>12
  <2>2. FlagOK(Life(k, u), pc[u], info[u], value) /\ flagq \notin Life(k, u).on
    BY <1>2, <1>3, <1>12
  <2>3. ~(pc[u] \in InFlag /\ "SLEEPING" \in Life(k, u).state)
    BY <2>2, OnFlagQueue
  <2> QED BY <2>1, <2>2, <2>3 DEF FlagOK, Waiter
<1>13. FlagInv'
  BY <1>1, <1>7, <1>10, <1>11, <1>12 DEF FlagInv
<1>14. ASSUME NEW u \in Range(h) PROVE ~Awoken(u)
  <2>1. u \in AllThread /\ u \in Range(s) /\ Life(k', u) = Life(k, u)
    BY <1>5, <1>8, <1>11, <1>14 DEF h
  <2>2. k' \in KernelState
    BY <1>10 DEF KInv, KernelInv
  <2>3. u \in Range(queue')
    BY <1>2, <1>3, <2>1, <2>2, QueueLife DEF queue
  <2> QED BY <2>3 DEF Awoken, Range
<1>15. ASSUME NEW i \in DOMAIN s, NEW j \in DOMAIN s, i <= j, Awoken(s[i]),
              info[s[i]].do_clear
       PROVE  value' = {} /\ (i < j => ~Awoken(s[j]))
  <2>1. s[i] \notin Range(h) /\ s[i] \in Range(s) /\ s[i] \in AllThread
    <3>1. s[i] \in Range(s) /\ s[i] \in Thread
      BY <1>3, ElementOfSeq DEF Range
    <3> QED BY <1>14, <1>15, <3>1 DEF AllThread
  <2>2. i \in 1..Len(s) /\ j \in 1..Len(s)
    BY <1>3
  <2>3. i < j => s[j] \in Range(h)
    BY <1>3, <1>5, <1>15, <2>1, <2>2 DEF h
  <2> QED BY <1>11, <1>14, <1>15, <2>1, <2>3
<1> QED BY <1>13, <1>15 DEF s

\* The destructor gives every waiter a reason and no value.
LEMMA FlagDestroyInv ==
    ASSUME FlagInv, FlagDestroy
    PROVE  FlagInv' /\ Quiet
<1> DEFINE n == WakeAll(k, flagq, "DESTRUCT")
<1>1. k' = Unlock(n) /\ UNCHANGED <<pc, ticks, value, info>>
  BY DEF FlagDestroy
<1>2. /\ KInv /\ KernelInv(k) /\ QueuesDistinct(k) /\ flagq \in WaitQueue
      /\ \A u \in AllThread : FlagOK(Life(k, u), pc[u], info[u], value)
  BY KInvFacts, FlagAssumption DEF FlagInv
<1>3. /\ KernelInv(n) /\ QueuesDistinct(n)
      /\ \A u \in AllThread :
           Life(n, u) = IF flagq \in Life(k, u).on THEN Dequeued(Life(k, u), "DESTRUCT")
                        ELSE Life(k, u)
  BY <1>2, WakeAllLife DEF WakeReason
<1> HIDE DEF n
<1>4. KInv' /\ \A u \in AllThread : Life(k', u) = Life(n, u)
  BY <1>1, <1>2, <1>3, UnlockStep
<1>5. ASSUME NEW u \in AllThread PROVE FlagOK(Life(k', u), pc[u], info[u], value)
  <2> DEFINE l == Life(k, u)
             m == Dequeued(l, "DESTRUCT")
  <2>1. CASE flagq \notin l.on
    BY <1>2, <1>3, <1>4, <2>1
  <2>2. CASE flagq \in l.on
    <3>1. Life(k', u) = m /\ FlagOK(l, pc[u], info[u], value)
      BY <1>2, <1>3, <1>4, <2>2
    <3>2. pc[u] \in InFlag /\ "SLEEPING" \in l.state
      BY <2>2, <3>1, OnFlagQueue
    <3>3. Waiter(l, pc[u], info[u], value)
      BY <3>1, <3>2 DEF FlagOK, PC, InFlag
    <3>4. info[u].value_out = {}
      BY <3>2, <3>3 DEF Waiter, SleeperOK
    <3>5. /\ m.state = l.state \ {"SLEEPING", "COUNTSLEEP"}
          /\ m.sleep = "NONE" /\ m.wake = "DESTRUCT" /\ SleeperOK(m, {flagq})
      BY DequeuedSleeper DEF Dequeued, SLEEPSET
    <3> HIDE DEF m
    <3>6. Waiter(m, pc[u], info[u], value)
      BY <3>4, <3>5 DEF Waiter
    <3> QED BY <3>1, <3>2, <3>6 DEF FlagOK
  <2> QED BY <2>1, <2>2
<1> QED BY <1>1, <1>4, <1>5 DEF FlagInv, Quiet

-----------------------------------------------------------------------------
(* The invariant is inductive *)

\* The invariant holds initially.
LEMMA FlagInitInv == FlagInit => FlagInv
<1> SUFFICES ASSUME FlagInit PROVE FlagInv
  OBVIOUS
<1>1. KInv /\ value = {} /\ info = [t \in Thread |-> NoInfo]
  BY InitKInv DEF FlagInit
<1>2. \A t \in AllThread : /\ pc[t] = "user" /\ Life(k, t).on = {}
                           /\ Life(k, t).sleep = "NONE"
                           /\ "SLEEPING" \notin Life(k, t).state
                           /\ "COUNTSLEEP" \notin Life(k, t).state
  BY InitKInv DEF FlagInit
<1>3. \A t \in AllThread : FlagOK(Life(k, t), pc[t], info[t], value)
  BY <1>2 DEF FlagOK, PC, SleeperOK
<1>4. NoInfo \in WaitInfo
  BY DEF NoInfo, WaitInfo
<1> QED BY <1>1, <1>3, <1>4 DEF FlagInv

\* Every step keeps the invariant; steps other than setbits() leave the wait
\* information of the sleepers alone.
LEMMA FlagNextInv ==
    ASSUME FlagInv, [FlagNext]_flagVars
    PROVE  FlagInv' /\ (Quiet \/ \E arg \in Patterns : FlagSetbits(arg))
<1>1. CASE UNCHANGED flagVars
  <2>1. k' = k /\ pc' = pc /\ ticks' = ticks /\ value' = value /\ info' = info
    BY <1>1 DEF flagVars
  <2> QED BY <2>1 DEF FlagInv, KInv, Quiet
<1>2. CASE \E arg \in Patterns : FlagSetbits(arg)
  BY <1>2, FlagSetbitsInv
<1>3. CASE \E arg \in Patterns : FlagMaskbits(Bits \ arg)
  <2>1. k' = Unlock(k) /\ UNCHANGED <<pc, ticks, info>> /\ value' \subseteq value
    BY <1>3 DEF FlagMaskbits
  <2> QED BY <2>1, FlagClears
<1>4. CASE \E pattern \in Patterns, mode \in WaitMode : FlagPoll(pattern, mode)
  <2>1. k' = Unlock(k) /\ UNCHANGED <<pc, ticks, info>> /\ value' \subseteq value
    BY <1>4, PollFails DEF FlagPoll
  <2> QED BY <2>1, FlagClears
<1>5. CASE \E pattern \in Patterns, mode \in WaitMode :
             \/ FlagWait(pattern, mode)
             \/ \E past \in BOOLEAN : FlagTimedWait(pattern, mode, past)
  BY <1>5, FlagWaitInv, FlagTimedWaitInv
<1>6. CASE Next /\ UNCHANGED <<value, info, alive>>
  BY <1>6, FlagOtherInv
<1> QED BY <1>1, <1>2, <1>3, <1>4, <1>5, <1>6, FlagDestroyInv, FlagWokenInv DEF FlagNext

\* A quiet step gives no sleeper its events.
LEMMA QuietWakesNobody ==
    ASSUME FlagInv, FlagInv', Quiet, NEW u \in Range(queue)
    PROVE  ~Awoken(u)
<1>1. u \in AllThread /\ flagq \in Life(k, u).on
  <2>1. queue \in Seq(Thread)
    BY FlagQueueThreads
  <2>2. u \in AllThread
    BY <2>1, LenProperties, ElementOfSeq DEF Range, AllThread
  <2> QED BY <2>2, FlagQueueThreads
<1>2. /\ pc[u] \in InFlag /\ "SLEEPING" \in Life(k, u).state
      /\ FlagOK(Life(k, u), pc[u], info[u], value)
  BY <1>1, OnFlagQueue DEF FlagInv
<1>3. info[u].value_out = {}
  BY <1>2 DEF FlagOK, Waiter, SleeperOK, PC, InFlag
<1>4. FlagOK(Life(k', u), pc[u], info[u], value')
  <2>1. pc'[u] = pc[u] /\ info'[u] = info[u]
    BY <1>1 DEF Quiet
  <2>2. FlagOK(Life(k', u), pc'[u], info'[u], value')
    BY <1>1 DEF FlagInv
  <2> QED BY <2>1, <2>2
<1>5. Life(k', u).wake # "DONE"
  BY <1>2, <1>3, <1>4 DEF FlagOK, Waiter, PC, InFlag
<1> QED BY <1>5 DEF Awoken, Life

-----------------------------------------------------------------------------
(* The theorems *)

\* The inductive invariant holds in every reachable state.
THEOREM FlagInvTheorem == FlagSpec => []FlagInv
<1>1. FlagInv /\ [FlagNext]_flagVars => FlagInv'
  BY FlagNextInv
<1> QED BY <1>1, FlagInitInv, PTL DEF FlagSpec

\* The queue holds exactly the threads asleep in wait(), and no thread sleeps
\* on a flag whose value satisfies it: none is missed between poll and sleep,
\* nor by a walk of setbits() that the clear of another waiter cuts short.
THEOREM MatchingSleeperTheorem == FlagSpec => []NoMatchingSleeper
<1>1. FlagInv => NoMatchingSleeper
  <2> SUFFICES ASSUME FlagInv PROVE NoMatchingSleeper
    OBVIOUS
  <2>1. ASSUME NEW t \in Thread
        PROVE  /\ t \in Range(queue) <=> pc[t] \in InFlag /\ "SLEEPING" \in k.state[t]
               /\ t \in Range(queue) => ~Matches(info[t], value)
    <3>1. t \in AllThread /\ FlagOK(Life(k, t), pc[t], info[t], value)
      BY DEF FlagInv, AllThread
    <3>2. /\ t \in Range(queue) <=> flagq \in Life(k, t).on
          /\ Life(k, t).state = k.state[t]
      BY <3>1, FlagQueueThreads DEF Life
    <3>3. flagq \in Life(k, t).on <=> pc[t] \in InFlag /\ "SLEEPING" \in Life(k, t).state
      BY <3>1, OnFlagQueue
    <3>4. flagq \in Life(k, t).on => ~Matches(info[t], value)
      BY <3>1, <3>3 DEF FlagOK, Waiter, PC, InFlag
    <3> QED BY <3>2, <3>3, <3>4
  <2>2. Range(queue) \subseteq Thread
    <3>1. queue \in Seq(Thread)
      BY FlagQueueThreads
    <3> QED BY <3>1, LenProperties, ElementOfSeq DEF Range
  <2> QED BY <2>1, <2>2 DEF NoMatchingSleeper, Matches
<1> QED BY <1>1, FlagInvTheorem, PTL

\* A waiter has a value exactly if setbits() woke it: the break of a timeout,
\* of release() or of the destructor never meets a result, in whatever order
\* they and setbits() come.
THEOREM BreakXorTheorem == FlagSpec => []BreakXorResult
<1>1. FlagInv => BreakXorResult
  <2> SUFFICES ASSUME FlagInv, NEW t \in Thread, pc[t] \in InFlag
               PROVE  (info[t].value_out # {}) = (k.wake_reason[t] = "DONE")
    BY DEF BreakXorResult
  <2>1. FlagOK(Life(k, t), pc[t], info[t], value)
    BY DEF FlagInv, AllThread
  <2>2. info[t].value_out # {} <=> Life(k, t).wake = "DONE"
    BY <2>1 DEF FlagOK, Waiter, PC, InFlag
  <2> QED BY <2>2 DEF Life
<1> QED BY <1>1, FlagInvTheorem, PTL

\* A waiter that clears the events shares them with nobody behind it and
\* leaves none of them, however long the queue is.
THEOREM ClearedTheorem == FlagSpec => ClearedEventsTakenOnce
<1>1. ASSUME FlagInv, [FlagNext]_flagVars
      PROVE  \A i, j \in DOMAIN queue :
               i <= j /\ Awoken(queue[i]) /\ info[queue[i]].do_clear =>
                   value' = {} /\ (i < j => ~Awoken(queue[j]))
  <2>1. FlagInv'
    BY <1>1, FlagNextInv
  <2>2. CASE \E arg \in Patterns : FlagSetbits(arg)
    BY <1>1, <2>2, FlagSetbitsInv
  <2>3. CASE Quiet
    <3>1. \A i \in DOMAIN queue : queue[i] \in Range(queue)
      BY DEF Range
    <3> QED BY <1>1, <2>1, <2>3, <3>1, QuietWakesNobody
  <2> QED BY <1>1, <2>2, <2>3, FlagNextInv
<1> QED BY <1>1, FlagInvTheorem, PTL DEF FlagSpec, ClearedEventsTakenOnce
=============================================================================
