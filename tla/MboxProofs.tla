----------------------------- MODULE MboxProofs -----------------------------
(***************************************************************************)
(* Theorems about module Mbox: for any number of threads, of slots and of  *)
(* messages, the two queues of the mailbox hold exactly the threads that   *)
(* sleep there, no message and no free slot is stranded, and the ring      *)
(* implements the first-in first-out queue of module Fifo.                 *)
(***************************************************************************)
EXTENDS Mbox, ThreadsProofs

\* The queues that a thread at p sleeps on.
BoxQueue(p) == IF p \in Getting THEN {getq}
               ELSE IF p \in Putting THEN {putq} ELSE {}

BoxSleeperOK(l, p) == p \in MboxPC /\ SleeperOK(l, BoxQueue(p))

\* The waiting threads, in kernel state kk with continuations pp, when there
\* are c messages to get and s slots to fill.  It is stated of any kernel
\* state because get() and put() go through one that no other thread sees: a
\* message has left the ring and the thread that waits for its slot has not
\* been woken yet.
BoxOK(kk, pp, c, s) ==
    /\ KernelInv(kk)
    /\ QueuesDistinct(kk)
    /\ pp = [t \in AllThread |-> pp[t]]
    /\ pp[Idle] = "user"
    /\ \A t \in AllThread : BoxSleeperOK(Life(kk, t), pp[t])
    /\ Served(kk, pp, getq, Getting, c)
    /\ Served(kk, pp, putq, Putting, s)

\* The ring, and the messages of the threads that wait to put one.
RingOK ==
    /\ base \in 0..(Size - 1)
    /\ count \in 0..Size
    /\ itemqueue \in [0..(Size - 1) -> Item \cup {None}]
    /\ ritem \in Item \cup {None}

ItemsOK ==
    /\ item \in [Thread -> Item \cup {None}]
    /\ \A t \in Thread : pc[t] \in Putting => item[t] \in Item

\* The inductive invariant.
MboxInv == KInv /\ BoxOK(k, pc, count, Size - count) /\ RingOK /\ ItemsOK

-----------------------------------------------------------------------------
(* The waiting threads *)

\* A step on one thread keeps the waiting threads right if it leaves that
\* thread right and the sleepers served.
LEMMA BoxTurn ==
    ASSUME NEW n, NEW pp, NEW c \in Nat, NEW s \in Nat, BoxOK(n, pp, c, s),
           NEW u, KernelInv(u), NEW t \in AllThread, NEW m, Only(u, n, t, m),
           NEW r, NEW pu, pu = [pp EXCEPT ![t] = r],
           BoxSleeperOK(m, r), t # Idle \/ r = "user",
           NEW d \in Nat, NEW e \in Nat,
           KeepsServed(getq, Getting, Life(n, t), pp[t], m, r, c, d),
           KeepsServed(putq, Putting, Life(n, t), pp[t], m, r, s, e)
    PROVE  BoxOK(u, pu, d, e)
<1>1. /\ n \in KernelState /\ u \in KernelState /\ getq \in WaitQueue /\ putq \in WaitQueue
      /\ pp = [v \in AllThread |-> pp[v]] /\ Idle \in AllThread
  BY MboxAssumption DEF BoxOK, KernelInv, AllThread
<1>2. t # Idle \/ (~IsHeir(m, r, Getting) /\ ~IsHeir(m, r, Putting))
  BY DEF IsHeir, Getting, Putting
<1>3. Served(u, pu, getq, Getting, d)
  BY <1>1, <1>2, ServedStep DEF BoxOK
<1>4. Served(u, pu, putq, Putting, e)
  BY <1>1, <1>2, ServedStep DEF BoxOK
<1>5. \A v \in AllThread : BoxSleeperOK(Life(u, v), pu[v])
  BY <1>1 DEF BoxOK, Only
<1>6. pu = [v \in AllThread |-> pu[v]] /\ pu[Idle] = "user" /\ QueuesDistinct(u)
  BY <1>1 DEF BoxOK, Only
<1> QED BY <1>3, <1>4, <1>5, <1>6 DEF BoxOK

\* A step that changes no life keeps them right.
LEMMA BoxSame ==
    ASSUME NEW n, NEW pp, NEW c, NEW s, BoxOK(n, pp, c, s),
           NEW u, KernelInv(u), Same(u, n)
    PROVE  BoxOK(u, pp, c, s)
<1>1. n \in KernelState /\ u \in KernelState /\ getq \in WaitQueue /\ putq \in WaitQueue
  BY MboxAssumption DEF BoxOK, KernelInv
<1>2. Served(u, pp, getq, Getting, c) /\ Served(u, pp, putq, Putting, s)
  BY <1>1, ServedSame DEF BoxOK
<1> QED BY <1>2 DEF BoxOK, Same

\* wakeup_waiter() makes up for one event more on its queue: the thread that it
\* wakes becomes an heir, and if it wakes none there is none to serve.
LEMMA BoxWake ==
    ASSUME NEW n, NEW pp, NEW c \in Nat, NEW s \in Nat, BoxOK(n, pp, c, s),
           NEW q \in {getq, putq}
    PROVE  BoxOK(wakeup_waiter(n, q), pp, IF q = getq THEN c + 1 ELSE c,
                                          IF q = putq THEN s + 1 ELSE s)
<1> DEFINE d == IF q = getq THEN c + 1 ELSE c
           e == IF q = putq THEN s + 1 ELSE s
<1>1. /\ n \in KernelState /\ KernelInv(n) /\ QueuesDistinct(n)
      /\ q \in WaitQueue /\ d \in Nat /\ e \in Nat /\ getq # putq
      /\ pp = [v \in AllThread |-> pp[v]] /\ pp[Idle] = "user"
      /\ \A t \in AllThread : BoxSleeperOK(Life(n, t), pp[t])
  BY MboxAssumption DEF BoxOK, KernelInv
<1>2. CASE n.wait_queue[q] = <<>>
  <2>1. wakeup_waiter(n, q) = n
    BY <1>2 DEF wakeup_waiter
  <2>2. Served(n, pp, getq, Getting, d) /\ Served(n, pp, putq, Putting, e)
    BY <1>1, <1>2 DEF BoxOK, Served
  <2> HIDE DEF d, e
  <2>3. BoxOK(n, pp, d, e)
    BY <2>2 DEF BoxOK
  <2> QED BY <2>1, <2>3 DEF d, e
<1>3. CASE n.wait_queue[q] # <<>>
  <2> DEFINE t == Head(n.wait_queue[q])
             l == Life(n, t)
             u == Wake(SetWakeReason(LeaveQueue(n, t), t, "DONE"), t)
             m == Dequeued(l, "DONE")
  <2>1. t \in AllThread /\ q \in l.on
    BY <1>1, <1>3, QueueLife
  <2>2. wakeup_waiter(n, q) = u
    BY <1>3 DEF wakeup_waiter
  <2> HIDE DEF t
  <2>3. BoxSleeperOK(l, pp[t])
    BY <1>1, <2>1
  <2>4. /\ pp[t] \in (IF q = getq THEN Getting ELSE Putting) /\ pp[t] \in MboxPC
        /\ l.wake = "NONE"
    BY <1>1, <2>1, <2>3 DEF BoxSleeperOK, SleeperOK, BoxQueue
  <2>5. t # Idle
    BY <1>1, <2>4 DEF Getting, Putting
  <2>6. KernelInv(u) /\ Only(u, n, t, m)
    BY <1>1, <2>1, DequeueLife DEF WakeReason
  <2> HIDE DEF u
  <2>7. BoxSleeperOK(m, pp[t])
    BY <2>4, DequeuedSleeper DEF BoxSleeperOK
  <2>8. m.on = {} /\ m.wake = "DONE"
    BY DEF Dequeued
  <2> HIDE DEF m
  <2>9. /\ KeepsServed(getq, Getting, l, pp[t], m, pp[t], c, d)
        /\ KeepsServed(putq, Putting, l, pp[t], m, pp[t], s, e)
    BY <1>1, <2>1, <2>4, <2>8 DEF KeepsServed, IsHeir, Getting, Putting
  <2>10. pp = [pp EXCEPT ![t] = pp[t]]
    BY <1>1, <2>1
  <2> HIDE DEF d, e
  <2>11. BoxOK(u, pp, d, e)
    BY <1>1, <2>1, <2>5, <2>6, <2>7, <2>9, <2>10, BoxTurn
  <2> QED BY <2>2, <2>11 DEF d, e
<1> QED BY <1>2, <1>3

-----------------------------------------------------------------------------
(* The steps of the mailbox *)

\* What the kernel keeps true through unlock() and reschedule().
LEMMA BoxStep ==
    ASSUME KInv, NEW n, NEW c, NEW s, BoxOK(n, pc', c, s),
           k' = Unlock(n) \/ k' = Reschedule(n), UNCHANGED ticks
    PROVE  KInv' /\ BoxOK(k', pc', c, s)
<1>1. KernelInv(n) /\ QueuesDistinct(n)
  BY DEF BoxOK
<1>2. KernelInv(k') /\ CurrentOK(k')
  BY <1>1, UnlockFacts, RescheduleFacts
<1>3. BoxOK(k', pc', c, s)
  BY <1>1, <1>2, LockLife, BoxSame
<1> QED BY <1>2, <1>3 DEF KInv, BoxOK

\* What the steps below use of the invariant.
LEMMA MboxFacts ==
    ASSUME MboxInv
    PROVE  /\ KInv /\ KernelInv(k) /\ QueuesDistinct(k) /\ k \in KernelState
           /\ count \in Nat /\ Size \in Nat /\ Size - count \in Nat
           /\ BoxOK(k, pc, count, Size - count)
           /\ \A t \in AllThread : BoxSleeperOK(Life(k, t), pc[t])
           /\ \A t \in AllThread : Life(k, t) \in LifeType
           /\ self \in AllThread /\ self = k.current
           /\ pc = [t \in AllThread |-> pc[t]] /\ Idle \in AllThread
<1>1. count \in Nat /\ Size \in Nat /\ Size - count \in Nat
  BY MboxAssumption DEF MboxInv, RingOK
<1> QED BY <1>1, KInvFacts DEF MboxInv, KInv, KernelInv, BoxOK, AllThread

\* The current thread blocks on a queue that has no event.
LEMMA MboxBlocks ==
    ASSUME MboxInv, self # Idle, NEW n, KernelInv(n), n.current = self,
           NEW l, Only(n, k, self, l), SleeperOK(l, {}), l.state = {},
           NEW q \in {getq, putq}, NEW r \in {"WAIT", "TIMEOUT"}, k' = BlockOn(n, q, r),
           NEW c \in MboxPC, BoxQueue(c) = {q}, pc' = [pc EXCEPT ![self] = c],
           pc[self] = "user" \/ BoxQueue(pc[self]) = {q},
           UNCHANGED <<ticks, count>>,
           count = IF q = getq THEN 0 ELSE Size
    PROVE  KInv' /\ BoxOK(k', pc', count', Size - count')
<1> DEFINE n1 == Enqueue(Sleep(SetSleepReason(n, r)), q, self)
           m  == Blocked(l, r, q)
<1>1. /\ KInv /\ self \in AllThread /\ q \in WaitQueue /\ getq # putq
      /\ r \in SleepReason \ {"NONE"}
  BY MboxFacts, MboxAssumption DEF SleepReason
<1>2. QueuesDistinct(n) /\ Life(n, self) = l /\ l.on = {}
  BY DEF Only, SleeperOK
<1>3. KernelInv(n1) /\ Only(n1, n, self, m)
  BY <1>1, <1>2, BlockLife
<1>4. k' = Reschedule(n1)
  BY DEF BlockOn
<1> HIDE DEF n1
<1>5. Only(n1, k, self, m)
  BY <1>1, <1>3, OnlyTransitive
<1>6. BoxSleeperOK(m, c) /\ m.on = {q}
  <2>1. SleeperOK(m, {q}) /\ m.on = {q}
    BY <1>1, BlockedSleeper
  <2> QED BY <2>1 DEF BoxSleeperOK
<1> HIDE DEF m
<1> DEFINE d == Size - count
<1>7. q = getq => pc[self] \notin Putting
  BY <1>1 DEF BoxQueue, Getting, Putting
<1>8. q = putq => pc[self] \notin Getting
  BY <1>1 DEF BoxQueue, Getting, Putting
<1>9. count \in Nat /\ d \in Nat /\ BoxOK(k, pc, count, d) /\ (q = putq => d = 0)
  BY <1>1, MboxFacts
<1> HIDE DEF d
<1>10. /\ KeepsServed(getq, Getting, Life(k, self), pc[self], m, c, count, count)
       /\ KeepsServed(putq, Putting, Life(k, self), pc[self], m, c, d, d)
  BY <1>1, <1>6, <1>7, <1>8, <1>9 DEF KeepsServed, IsHeir
<1>11. BoxOK(n1, pc', count, d)
  BY <1>1, <1>3, <1>5, <1>6, <1>9, <1>10, BoxTurn
<1>12. KInv' /\ BoxOK(k', pc', count, d)
  BY <1>1, <1>4, <1>11, BoxStep
<1> QED BY <1>12 DEF d

\* A thread that is on no queue is right at application level.
LEMMA LeavesQueues ==
    ASSUME NEW l, SleeperOK(l, {}), NEW S
    PROVE  BoxSleeperOK(l, "user") /\ l.on \subseteq S
BY DEF BoxSleeperOK, BoxQueue, MboxPC, PC, SleeperOK, Getting, Putting

\* The current thread goes back to its caller and leaves the ring alone.
LEMMA MboxFails ==
    ASSUME MboxInv, self # Idle, NEW n, KernelInv(n),
           NEW l, Only(n, k, self, l), SleeperOK(l, {}),
           k' = Unlock(n) \/ k' = Reschedule(n),
           pc' = [pc EXCEPT ![self] = "user"], UNCHANGED <<ticks, count>>,
           pc[self] = "user" \/ Life(k, self).wake # "DONE"
    PROVE  KInv' /\ BoxOK(k', pc', count', Size - count')
<1> DEFINE d == Size - count
<1>1. /\ KInv /\ self \in AllThread
      /\ count \in Nat /\ d \in Nat /\ BoxOK(k, pc, count, d)
  BY MboxFacts
<1>2. BoxSleeperOK(l, "user") /\ l.on = {}
  BY DEF BoxSleeperOK, BoxQueue, MboxPC, PC, SleeperOK, Getting, Putting
<1> HIDE DEF d
<1>3. /\ KeepsServed(getq, Getting, Life(k, self), pc[self], l, "user", count, count)
      /\ KeepsServed(putq, Putting, Life(k, self), pc[self], l, "user", d, d)
  BY <1>2 DEF KeepsServed, IsHeir, Getting, Putting
<1>4. BoxOK(n, pc', count, d)
  BY <1>1, <1>2, <1>3, BoxTurn
<1>5. KInv' /\ BoxOK(k', pc', count, d)
  BY <1>1, <1>4, BoxStep
<1> QED BY <1>5 DEF d

\* Thread t, which does not wait to put, gets a message: its own turn takes
\* the message and the event, and the thread that wakeup_waiter() wakes is
\* there for the slot.
LEMMA MboxTakes ==
    ASSUME MboxInv, NEW n, KernelInv(n), NEW t \in AllThread,
           NEW l, Only(n, k, t, l), NEW r, BoxSleeperOK(l, r), t # Idle \/ r = "user",
           pc[t] \notin Putting, l.on \subseteq Life(k, t).on,
           count > 0, Take(n), pc' = [pc EXCEPT ![t] = r], UNCHANGED ticks
    PROVE  KInv' /\ BoxOK(k', pc', count', Size - count')
<1> DEFINE c == count - 1
           d == Size - count
<1>1. /\ KInv /\ count \in Nat /\ d \in Nat /\ BoxOK(k, pc, count, d)
      /\ c \in Nat /\ c = count - 1 /\ count' = c /\ Size - c = d + 1
  BY MboxFacts DEF Take
<1>2. k' = Unlock(wakeup_waiter(n, putq)) /\ getq # putq
  BY MboxAssumption DEF Take
<1> HIDE DEF c, d
<1>3. /\ KeepsServed(getq, Getting, Life(k, t), pc[t], l, r, count, c)
      /\ KeepsServed(putq, Putting, Life(k, t), pc[t], l, r, d, d)
  BY <1>1 DEF KeepsServed, IsHeir
<1>4. BoxOK(n, pc', c, d)
  BY <1>1, <1>3, BoxTurn
<1>5. BoxOK(wakeup_waiter(n, putq), pc', c, d + 1)
  BY <1>1, <1>2, <1>4, BoxWake
<1>6. KInv' /\ BoxOK(k', pc', c, d + 1)
  BY <1>1, <1>2, <1>5, BoxStep
<1> QED BY <1>1, <1>6

\* The same for put().
LEMMA MboxStores ==
    ASSUME MboxInv, NEW n, KernelInv(n), NEW t \in AllThread,
           NEW l, Only(n, k, t, l), NEW r, BoxSleeperOK(l, r), t # Idle \/ r = "user",
           pc[t] \notin Getting, l.on \subseteq Life(k, t).on,
           count < Size, NEW v, Store(n, v), pc' = [pc EXCEPT ![t] = r], UNCHANGED ticks
    PROVE  KInv' /\ BoxOK(k', pc', count', Size - count')
<1> DEFINE c == count
           d == Size - count
           e == Size - count - 1
<1>1. /\ KInv /\ c \in Nat /\ d \in Nat /\ BoxOK(k, pc, c, d)
      /\ e \in Nat /\ e = d - 1 /\ count' = c + 1 /\ Size - count' = e
  BY MboxFacts DEF Store
<1>2. k' = Unlock(wakeup_waiter(n, getq)) /\ getq # putq
  BY MboxAssumption DEF Store
<1> HIDE DEF c, d, e
<1>3. /\ KeepsServed(getq, Getting, Life(k, t), pc[t], l, r, c, c)
      /\ KeepsServed(putq, Putting, Life(k, t), pc[t], l, r, d, e)
  BY <1>1 DEF KeepsServed, IsHeir
<1>4. BoxOK(n, pc', c, e)
  BY <1>1, <1>3, BoxTurn
<1>5. BoxOK(wakeup_waiter(n, getq), pc', c + 1, e)
  BY <1>1, <1>2, <1>4, BoxWake
<1>6. KInv' /\ BoxOK(k', pc', c + 1, e)
  BY <1>1, <1>2, <1>5, BoxStep
<1> QED BY <1>1, <1>6

\* A thread that calls the mailbox is on no queue.
LEMMA BoxCallerOK ==
    ASSUME MboxInv, InThread
    PROVE  /\ KInv /\ KernelInv(k)
           /\ self \in AllThread /\ self # Idle /\ self \in Thread /\ self = k.current
           /\ pc[self] = "user"
           /\ Life(k, self).state = {} /\ SleeperOK(Life(k, self), {})
           /\ BoxSleeperOK(Life(k, self), "user")
           /\ pc = [pc EXCEPT ![self] = "user"]
           /\ Only(k, k, self, Life(k, self))
<1>1. KInv /\ pc[self] = "user" /\ self \in AllThread
  BY InThreadFacts DEF MboxInv
<1>2. BoxSleeperOK(Life(k, self), pc[self])
  BY <1>1, MboxFacts
<1>3. pc = [pc EXCEPT ![self] = "user"]
  BY <1>1 DEF KInv
<1>4. Only(k, k, self, Life(k, self))
  BY <1>1 DEF Only, KInv
<1>5. SleeperOK(Life(k, self), {})
  BY <1>1, <1>2 DEF BoxSleeperOK, BoxQueue, Getting, Putting
<1> QED BY <1>1, <1>2, <1>3, <1>4, <1>5, InThreadFacts DEF AllThread

\* So is one that comes back from the reschedule() of its waiting loop.
LEMMA BoxWokenOK ==
    ASSUME MboxInv, Waiting
    PROVE  /\ KInv /\ KernelInv(k)
           /\ self \in AllThread /\ self # Idle /\ self \in Thread /\ self = k.current
           /\ Life(k, self).state = {} /\ SleeperOK(Life(k, self), {})
           /\ Life(k, self).wake = k.wake_reason[self]
           /\ Only(k, k, self, Life(k, self))
           /\ KernelInv(EndWait)
           /\ \E l : Only(EndWait, k, self, l) /\ SleeperOK(l, {}) /\ l.state = {}
<1>1. /\ KInv /\ KernelInv(k) /\ QueuesDistinct(k)
      /\ self \in AllThread /\ self # Idle /\ self = k.current
      /\ Life(k, self).state = {}
  BY MboxFacts, KInvFacts DEF Waiting, Getting, Putting
<1>2. BoxSleeperOK(Life(k, self), pc[self])
  BY <1>1, MboxFacts
<1>3. SleeperOK(Life(k, self), {})
  BY <1>1, <1>2 DEF BoxSleeperOK, SleeperOK
<1>4. Only(k, k, self, Life(k, self))
  BY <1>1 DEF Only
<1>5. CASE Timed
  <2>1. EndWait = ClearTimer(k, self)
    BY <1>5 DEF EndWait
  <2>2. /\ KernelInv(EndWait) /\ Only(EndWait, k, self, TimerOff(Life(k, self)))
        /\ SleeperOK(TimerOff(Life(k, self)), {}) /\ TimerOff(Life(k, self)).state = {}
    BY <1>1, <1>3, <1>4, <2>1, TimerEnds
  <2> QED BY <1>1, <1>3, <1>4, <2>2 DEF Life, AllThread
<1>6. CASE ~Timed
  <2>1. EndWait = k
    BY <1>6 DEF EndWait
  <2> QED BY <1>1, <1>3, <1>4, <2>1 DEF Life, AllThread
<1> QED BY <1>5, <1>6

-----------------------------------------------------------------------------
(* The ring *)

\* The c messages in the slots f from slot b on.
Ring(b, c, f) == [i \in 1..c |-> f[(b + i - 1) % Size]]

Slots == [0..(Size - 1) -> Item \cup {None}]

\* The slot behind the last message.
FreeSlot(b, c) == IF Size <= b + c THEN b + c - Size ELSE b + c

\* What put() makes of the slots and of the sequence.
Appended(q, v) == Append(q, v)

Stored(b, c, f, v) == [f EXCEPT ![FreeSlot(b, c)] = v]

\* The slot of the i-th message, which the code computes without division.
LEMMA RingSlot ==
    ASSUME NEW b \in 0..(Size - 1), NEW i \in 1..Size
    PROVE  /\ (b + i - 1) % Size =
                 IF b + i - 1 < Size THEN b + i - 1 ELSE b + i - 1 - Size
           /\ (b + i - 1) % Size \in 0..(Size - 1)
<1> DEFINE x == b + i - 1
<1>1. Size \in Nat \ {0} /\ x \in 0..(Size + Size - 2)
  BY MboxAssumption
<1> HIDE DEF x
<1>2. /\ x % Size = IF x < Size THEN x ELSE x - Size
      /\ x % Size \in 0..(Size - 1)
  <2>1. CASE x < Size
    <3>1. x % Size = x
      BY <1>1, <2>1
    <3> QED BY <1>1, <2>1, <3>1
  <2>2. CASE ~(x < Size)
    <3>1. x % Size = x - Size
      BY <1>1, <2>2
    <3> QED BY <1>1, <2>2, <3>1
  <2> QED BY <2>1, <2>2
<1> QED BY <1>1, <1>2, MboxAssumption DEF x

\* The messages are a sequence of that length.
LEMMA RingSeq ==
    ASSUME NEW b \in 0..(Size - 1), NEW c \in 0..Size, NEW f \in Slots
    PROVE  /\ Ring(b, c, f) \in Seq(Item \cup {None}) /\ Len(Ring(b, c, f)) = c
           /\ \A i \in 1..c : Ring(b, c, f)[i] = f[(b + i - 1) % Size]
<1>1. c \in Nat /\ \A i \in 1..c : i \in 1..Size
  BY MboxAssumption
<1>2. \A i \in 1..c : f[(b + i - 1) % Size] \in Item \cup {None}
  BY <1>1, RingSlot DEF Slots
<1>3. Ring(b, c, f) \in Seq(Item \cup {None}) /\ Len(Ring(b, c, f)) = c
  BY <1>1, <1>2, IsASeq DEF Ring
<1> QED BY <1>3 DEF Ring

\* Without the message at the base the rest moves up by one.
LEMMA RingTail ==
    ASSUME NEW b \in 0..(Size - 1), NEW c \in 1..Size, NEW f \in Slots,
           NEW d \in 0..(Size - 1), d = IF Size <= b + 1 THEN 0 ELSE b + 1
    PROVE  /\ Ring(b, c, f) # <<>>
           /\ Head(Ring(b, c, f)) = f[b]
           /\ Tail(Ring(b, c, f)) = Ring(d, c - 1, f)
<1> DEFINE q == Ring(b, c, f)
           r == Ring(d, c - 1, f)
<1>1. Size \in Nat \ {0} /\ c \in Nat /\ c \in 0..Size /\ c - 1 \in 0..Size
  BY MboxAssumption
<1>2. /\ q \in Seq(Item \cup {None}) /\ Len(q) = c
      /\ \A i \in 1..c : q[i] = f[(b + i - 1) % Size]
  BY <1>1, RingSeq
<1>3. /\ r \in Seq(Item \cup {None}) /\ Len(r) = c - 1
      /\ \A i \in 1..(c - 1) : r[i] = f[(d + i - 1) % Size]
  BY <1>1, RingSeq, Zenon
<1> HIDE DEF q, r
<1>4. q # <<>>
  BY <1>1, <1>2, EmptySeq
<1>5. q[1] = f[b]
  <2>1. (b + 1 - 1) % Size = b
    BY <1>1, RingSlot
  <2> QED BY <1>1, <1>2, <2>1
<1>6. ASSUME NEW i \in 1..(c - 1) PROVE q[i + 1] = r[i]
  <2>1. i \in 1..Size /\ i + 1 \in 1..Size /\ i + 1 \in 1..c /\ i \in Int /\ b \in Int /\ d \in Int
    BY <1>1
  <2>2. (b + (i + 1) - 1) % Size = (d + i - 1) % Size
    BY <1>1, <2>1, RingSlot
  <2> QED BY <1>2, <1>3, <2>1, <2>2
<1>7. /\ Head(q) = q[1] /\ Tail(q) \in Seq(Item \cup {None}) /\ Len(Tail(q)) = c - 1
      /\ \A i \in 1..(c - 1) : Tail(q)[i] = q[i + 1]
  BY <1>1, <1>2, <1>4, HeadTailProperties
<1>8. Tail(q) = r
  BY <1>3, <1>6, <1>7, SeqEqual
<1> QED BY <1>4, <1>5, <1>7, <1>8 DEF q, r

\* A message in the first free slot is the last one.
LEMMA RingAppend ==
    ASSUME NEW b \in 0..(Size - 1), NEW c \in 0..(Size - 1), NEW f \in Slots,
           NEW v \in Item, NEW g, g = Stored(b, c, f, v)
    PROVE  g \in Slots /\ Ring(b, c + 1, g) = Appended(Ring(b, c, f), v)
<1> DEFINE j == FreeSlot(b, c)
           q == Ring(b, c, f)
           r == Ring(b, c + 1, g)
           a == Append(q, v)
<1>1. /\ Size \in Nat \ {0} /\ c \in Nat /\ c \in 0..Size /\ c + 1 \in 0..Size
      /\ j \in 0..(Size - 1)
      /\ j = IF Size <= b + c THEN b + c - Size ELSE b + c
  BY MboxAssumption DEF FreeSlot
<1>2. g \in Slots /\ g[j] = v /\ \A x \in 0..(Size - 1) : x # j => g[x] = f[x]
  BY <1>1 DEF Slots, Stored
<1> HIDE DEF j
<1>3. /\ q \in Seq(Item \cup {None}) /\ Len(q) = c
      /\ \A i \in 1..c : q[i] = f[(b + i - 1) % Size]
  BY <1>1, RingSeq
<1>4. /\ r \in Seq(Item \cup {None}) /\ Len(r) = c + 1
      /\ \A i \in 1..(c + 1) : r[i] = g[(b + i - 1) % Size]
  BY <1>1, <1>2, RingSeq
<1> HIDE DEF q, r
<1>5. r[c + 1] = v
  <2>1. (b + (c + 1) - 1) % Size = j
    BY <1>1, RingSlot
  <2> QED BY <1>1, <1>2, <1>4, <2>1
<1>6. ASSUME NEW i \in 1..c PROVE r[i] = q[i]
  <2>1. i \in 1..Size /\ i \in 1..(c + 1) /\ i \in Int /\ b \in Int /\ j \in Int
    BY <1>1
  <2>2. (b + i - 1) % Size # j /\ (b + i - 1) % Size \in 0..(Size - 1)
    BY <1>1, <2>1, RingSlot
  <2> QED BY <1>2, <1>3, <1>4, <2>1, <2>2
<1>7. /\ a \in Seq(Item \cup {None}) /\ Len(a) = c + 1 /\ a[c + 1] = v
      /\ \A i \in 1..c : a[i] = q[i]
  <2>1. v \in Item \cup {None}
    OBVIOUS
  <2>2. /\ a \in Seq(Item \cup {None}) /\ Len(a) = Len(q) + 1 /\ a[Len(q) + 1] = v
        /\ \A i \in 1..Len(q) : a[i] = q[i]
    BY <1>3, <2>1, AppendProperties
  <2> QED BY <1>1, <1>3, <2>2
<1> HIDE DEF a
<1>8. \A i \in 1..(c + 1) : r[i] = a[i]
  BY <1>1, <1>5, <1>6, <1>7
<1>9. r = a
  BY <1>4, <1>7, <1>8, SeqEqual
<1> QED BY <1>2, <1>9 DEF a, q, r, Appended

\* A step of the mailbox, as the queue of module Fifo sees it.
FifoStep ==
    \/ Queue!FifoGet
    \/ \E v \in Item : Queue!FifoPut(v)
    \/ UNCHANGED <<Messages, ritem>>

\* get() takes the oldest message.
LEMMA TakeIsGet ==
    ASSUME RingOK, count > 0, NEW n, Take(n)
    PROVE  RingOK' /\ FifoStep
<1>1. /\ ritem' = itemqueue[base] /\ count' = count - 1 /\ itemqueue' = itemqueue
      /\ base' = IF Size <= base + 1 THEN 0 ELSE base + 1
  BY DEF Take
<1>2. /\ base \in 0..(Size - 1) /\ count \in 1..Size /\ itemqueue \in Slots
      /\ base' \in 0..(Size - 1)
  BY <1>1, MboxAssumption DEF RingOK, Slots
<1>3. RingOK'
  BY <1>1, <1>2, MboxAssumption DEF RingOK, Slots
<1>4. Messages = Ring(base, count, itemqueue) /\ Messages' = Ring(base', count - 1, itemqueue)
  BY <1>1 DEF Messages, Ring
<1>5. Queue!FifoGet
  BY <1>1, <1>2, <1>4, RingTail DEF Queue!FifoGet
<1> QED BY <1>3, <1>5 DEF FifoStep

\* put() appends one, and there is room for it.
LEMMA StoreIsPut ==
    ASSUME RingOK, count < Size, NEW n, NEW v \in Item, Store(n, v)
    PROVE  RingOK' /\ FifoStep
<1>1. /\ ritem' = ritem /\ count' = count + 1 /\ base' = base
      /\ itemqueue' = Stored(base, count, itemqueue, v)
  BY MboxAssumption DEF Store, RingOK, Stored, FreeSlot
<1>2. /\ base \in 0..(Size - 1) /\ count \in 0..(Size - 1) /\ itemqueue \in Slots
      /\ count \in 0..Size /\ count + 1 \in 0..Size
  BY <1>1, MboxAssumption DEF RingOK, Slots
<1>3. /\ itemqueue' \in Slots
      /\ Ring(base, count + 1, itemqueue') = Appended(Ring(base, count, itemqueue), v)
  BY <1>1, <1>2, RingAppend
<1>4. RingOK'
  BY <1>1, <1>2, <1>3 DEF RingOK, Slots
<1>5. Messages = Ring(base, count, itemqueue) /\ Messages' = Ring(base, count + 1, itemqueue')
  BY <1>1 DEF Messages, Ring
<1>6. Len(Messages) = count
  BY <1>2, <1>5, RingSeq
<1>7. Queue!FifoPut(v)
  BY <1>1, <1>3, <1>5, <1>6 DEF Queue!FifoPut, Appended
<1> QED BY <1>4, <1>7 DEF FifoStep

\* Whatever else happens leaves the ring alone.
LEMMA RingUnchanged ==
    ASSUME RingOK, UNCHANGED <<box, ritem>>
    PROVE  RingOK' /\ FifoStep
BY DEF box, RingOK, Messages, FifoStep

-----------------------------------------------------------------------------
(* The invariant is inductive, and every step is one of the queue *)

\* As long as no thread begins to wait in put(), the messages that the waiting
\* threads hold stay as they are.
LEMMA ItemsKept ==
    ASSUME ItemsOK, UNCHANGED item,
           \A t \in Thread : pc'[t] \in Putting => pc[t] \in Putting
    PROVE  ItemsOK'
BY DEF ItemsOK

\* Both when it blocks and when it leaves only self is concerned.
LEMMA ItemsOfSelf ==
    ASSUME MboxInv, NEW c, pc' = [pc EXCEPT ![self] = c],
           \/ \E v \in Item : item' = [item EXCEPT ![self] = v]
           \/ c = "user" /\ DropItem
           \/ c \notin Putting /\ UNCHANGED item
    PROVE  ItemsOK'
<1>1. ItemsOK /\ \A t \in Thread : pc'[t] = IF t = self THEN c ELSE pc[t]
  BY MboxFacts DEF MboxInv, AllThread
<1>2. CASE \E v \in Item : item' = [item EXCEPT ![self] = v]
  BY <1>1, <1>2 DEF ItemsOK
<1>3. CASE c = "user" /\ DropItem
  BY <1>1, <1>3 DEF ItemsOK, DropItem, Putting
<1>4. CASE c \notin Putting /\ UNCHANGED item
  BY <1>1, <1>4 DEF ItemsOK
<1> QED BY <1>2, <1>3, <1>4

\* The current thread blocks: one case of get() and of put().
LEMMA SelfBlocks ==
    ASSUME MboxInv, self # Idle, NEW n, KernelInv(n), n.current = self,
           NEW l, Only(n, k, self, l), SleeperOK(l, {}), l.state = {},
           NEW q \in {getq, putq}, NEW r \in {"WAIT", "TIMEOUT"}, k' = BlockOn(n, q, r),
           NEW c \in MboxPC, BoxQueue(c) = {q}, pc' = [pc EXCEPT ![self] = c],
           pc[self] = "user" \/ BoxQueue(pc[self]) = {q},
           count = IF q = getq THEN 0 ELSE Size, ItemsOK', UNCHANGED <<ticks, box, ritem>>
    PROVE  MboxInv' /\ FifoStep
<1>1. UNCHANGED <<ticks, count>>
  BY DEF box
<1>2. KInv' /\ BoxOK(k', pc', count', Size - count')
  BY <1>1, MboxBlocks
<1> QED BY <1>2, RingUnchanged DEF MboxInv

\* It goes back to its caller without success.
LEMMA SelfFails ==
    ASSUME MboxInv, self # Idle, NEW n, KernelInv(n),
           NEW l, Only(n, k, self, l), SleeperOK(l, {}),
           k' = Unlock(n) \/ k' = Reschedule(n), pc' = [pc EXCEPT ![self] = "user"],
           pc[self] = "user" \/ Life(k, self).wake # "DONE",
           UNCHANGED item \/ DropItem, UNCHANGED <<ticks, box, ritem>>
    PROVE  MboxInv' /\ FifoStep
<1>1. UNCHANGED <<ticks, count>> /\ "user" \notin Putting
  BY DEF box, Putting
<1>2. KInv' /\ BoxOK(k', pc', count', Size - count')
  BY <1>1, MboxFails
<1>3. ItemsOK'
  BY <1>1, ItemsOfSelf
<1> QED BY <1>2, <1>3, RingUnchanged DEF MboxInv

\* It has a message.
LEMMA SelfTakes ==
    ASSUME MboxInv, self # Idle, NEW n, KernelInv(n),
           NEW l, Only(n, k, self, l), SleeperOK(l, {}),
           count > 0, Take(n), pc' = [pc EXCEPT ![self] = "user"],
           pc[self] \notin Putting, UNCHANGED <<ticks, item>>
    PROVE  MboxInv' /\ FifoStep
<1>1. self \in AllThread /\ "user" \notin Putting /\ RingOK
  BY MboxFacts DEF Putting, MboxInv
<1>2. BoxSleeperOK(l, "user") /\ l.on \subseteq Life(k, self).on
  BY LeavesQueues
<1>3. KInv' /\ BoxOK(k', pc', count', Size - count')
  BY <1>1, <1>2, MboxTakes
<1>4. ItemsOK'
  BY <1>1, ItemsOfSelf
<1> QED BY <1>1, <1>3, <1>4, TakeIsGet DEF MboxInv

\* It has put one.
LEMMA SelfStores ==
    ASSUME MboxInv, self # Idle, NEW n, KernelInv(n),
           NEW l, Only(n, k, self, l), SleeperOK(l, {}),
           count < Size, NEW v \in Item, Store(n, v), pc' = [pc EXCEPT ![self] = "user"],
           pc[self] \notin Getting, UNCHANGED item \/ DropItem, UNCHANGED ticks
    PROVE  MboxInv' /\ FifoStep
<1>1. self \in AllThread /\ "user" \notin Putting /\ RingOK
  BY MboxFacts DEF Putting, MboxInv
<1>2. BoxSleeperOK(l, "user") /\ l.on \subseteq Life(k, self).on
  BY LeavesQueues
<1>3. KInv' /\ BoxOK(k', pc', count', Size - count')
  BY <1>1, <1>2, MboxStores
<1>4. ItemsOK'
  BY <1>1, ItemsOfSelf
<1> QED BY <1>1, <1>3, <1>4, StoreIsPut DEF MboxInv

\* The continuations of the waiting loops and their queues.
LEMMA BoxPC ==
    /\ \A c \in Getting : c \in MboxPC /\ BoxQueue(c) = {getq} /\ c \notin Putting
    /\ \A c \in Putting : c \in MboxPC /\ BoxQueue(c) = {putq} /\ c \notin Getting
    /\ "get" \in Getting /\ "tget" \in Getting /\ "put" \in Putting /\ "tput" \in Putting
    /\ "user" \notin Getting /\ "user" \notin Putting /\ getq # putq
BY MboxAssumption DEF MboxPC, BoxQueue, Getting, Putting

\* get() finds a message, or waits for one.
LEMMA MboxGetInv ==
    ASSUME MboxInv, MboxGet
    PROVE  MboxInv' /\ FifoStep
<1>1. InThread /\ UNCHANGED <<ticks, item>>
  BY DEF MboxGet
<1>2. CASE /\ count = 0 /\ k' = BlockOn(k, getq, "WAIT")
           /\ pc' = [pc EXCEPT ![self] = "get"] /\ UNCHANGED <<box, ritem>>
  <2>1. ItemsOK'
    BY <1>1, <1>2, BoxPC, ItemsOfSelf
  <2> QED BY <1>1, <1>2, <2>1, BoxPC, BoxCallerOK, SelfBlocks
<1>3. CASE count > 0 /\ Take(k) /\ UNCHANGED pc
  <2>1. pc' = [pc EXCEPT ![self] = "user"] /\ pc[self] \notin Putting
    BY <1>1, <1>3, BoxCallerOK, BoxPC
  <2> QED BY <1>1, <1>3, <2>1, BoxCallerOK, SelfTakes
<1> QED BY <1>2, <1>3 DEF MboxGet

\* put() finds a slot, or waits for one.
LEMMA MboxPutInv ==
    ASSUME MboxInv, NEW v \in Item, MboxPut(v)
    PROVE  MboxInv' /\ FifoStep
<1>1. InThread /\ UNCHANGED ticks
  BY DEF MboxPut
<1>2. CASE /\ count = Size /\ k' = BlockOn(k, putq, "WAIT")
           /\ pc' = [pc EXCEPT ![self] = "put"] /\ item' = [item EXCEPT ![self] = v]
           /\ UNCHANGED <<box, ritem>>
  <2>1. ItemsOK'
    BY <1>1, <1>2, ItemsOfSelf
  <2> QED BY <1>1, <1>2, <2>1, BoxPC, BoxCallerOK, SelfBlocks
<1>3. CASE count < Size /\ Store(k, v) /\ UNCHANGED <<pc, item>>
  <2>1. pc' = [pc EXCEPT ![self] = "user"] /\ pc[self] \notin Getting
    BY <1>1, <1>3, BoxCallerOK, BoxPC
  <2> QED BY <1>1, <1>3, <2>1, BoxCallerOK, SelfStores
<1> QED BY <1>2, <1>3 DEF MboxPut

\* What a call with a deadline starts from, and what clear_timer() leaves.
LEMMA TimedCallOK ==
    ASSUME MboxInv, InThread, NEW past \in BOOLEAN
    PROVE  LET k1 == SetTimer(k, "TIMEOUT", past)
               n  == ClearTimer(k1, self)
           IN  /\ self # Idle /\ pc[self] = "user" /\ pc = [pc EXCEPT ![self] = "user"]
               /\ KernelInv(k1) /\ k1.current = self /\ KernelInv(n)
               /\ \E l : Only(k1, k, self, l) /\ SleeperOK(l, {}) /\ l.state = {}
               /\ \E l : Only(n, k, self, l) /\ SleeperOK(l, {})
<1> DEFINE k1 == SetTimer(k, "TIMEOUT", past)
           l  == Life(k1, self)
           n  == ClearTimer(k1, self)
<1>1. /\ KInv /\ self \in AllThread /\ self # Idle /\ SleeperOK(Life(k, self), {})
      /\ pc[self] = "user" /\ pc = [pc EXCEPT ![self] = "user"]
  BY BoxCallerOK
<1>2. /\ KernelInv(k1) /\ k1.current = self /\ Only(k1, k, self, l)
      /\ SleeperOK(l, {}) /\ l.state = {}
  BY <1>1, TimerStarts
<1> HIDE DEF k1, l
<1>3. KernelInv(n) /\ Only(n, k, self, TimerOff(l)) /\ SleeperOK(TimerOff(l), {})
  BY <1>1, <1>2, TimerEnds
<1> HIDE DEF n
<1> QED BY <1>1, <1>2, <1>3 DEF n, k1

\* The same with a deadline, which may have passed.
LEMMA MboxTimedGetInv ==
    ASSUME MboxInv, NEW past \in BOOLEAN, MboxTimedGet(past)
    PROVE  MboxInv' /\ FifoStep
<1> DEFINE k1 == SetTimer(k, "TIMEOUT", past)
           n  == ClearTimer(k1, self)
<1>1. InThread /\ UNCHANGED <<ticks, item>>
  BY DEF MboxTimedGet
<1>2. /\ self # Idle /\ pc[self] = "user" /\ pc = [pc EXCEPT ![self] = "user"]
      /\ KernelInv(k1) /\ k1.current = self /\ KernelInv(n)
      /\ \E l : Only(k1, k, self, l) /\ SleeperOK(l, {}) /\ l.state = {}
      /\ \E l : Only(n, k, self, l) /\ SleeperOK(l, {})
  BY <1>1, TimedCallOK
<1>3. \/ k' = Unlock(n) /\ UNCHANGED <<pc, box, ritem>>
      \/ /\ count = 0 /\ k' = BlockOn(k1, getq, "TIMEOUT")
         /\ pc' = [pc EXCEPT ![self] = "tget"] /\ UNCHANGED <<box, ritem>>
      \/ count > 0 /\ Take(n) /\ UNCHANGED pc
  BY DEF MboxTimedGet
<1> HIDE DEF k1, n
<1>4. CASE k' = Unlock(n) /\ UNCHANGED <<pc, box, ritem>>
  <2>1. pc' = [pc EXCEPT ![self] = "user"] /\ UNCHANGED <<ticks, box, ritem>>
    BY <1>1, <1>2, <1>4
  <2> QED BY <1>1, <1>2, <1>4, <2>1, SelfFails
<1>5. CASE /\ count = 0 /\ k' = BlockOn(k1, getq, "TIMEOUT")
           /\ pc' = [pc EXCEPT ![self] = "tget"] /\ UNCHANGED <<box, ritem>>
  <2>1. ItemsOK'
    BY <1>1, <1>5, BoxPC, ItemsOfSelf
  <2> QED BY <1>1, <1>2, <1>5, <2>1, BoxPC, SelfBlocks
<1>6. CASE count > 0 /\ Take(n) /\ UNCHANGED pc
  <2>1. pc' = [pc EXCEPT ![self] = "user"] /\ pc[self] \notin Putting
    BY <1>2, <1>6, BoxPC
  <2> QED BY <1>1, <1>2, <1>6, <2>1, SelfTakes
<1> QED BY <1>3, <1>4, <1>5, <1>6

\* So for put().
LEMMA MboxTimedPutInv ==
    ASSUME MboxInv, NEW v \in Item, NEW past \in BOOLEAN, MboxTimedPut(v, past)
    PROVE  MboxInv' /\ FifoStep
<1> DEFINE k1 == SetTimer(k, "TIMEOUT", past)
           n  == ClearTimer(k1, self)
<1>1. InThread /\ UNCHANGED ticks
  BY DEF MboxTimedPut
<1>2. /\ self # Idle /\ pc[self] = "user" /\ pc = [pc EXCEPT ![self] = "user"]
      /\ KernelInv(k1) /\ k1.current = self /\ KernelInv(n)
      /\ \E l : Only(k1, k, self, l) /\ SleeperOK(l, {}) /\ l.state = {}
      /\ \E l : Only(n, k, self, l) /\ SleeperOK(l, {})
  BY <1>1, TimedCallOK
<1>3. \/ k' = Unlock(n) /\ UNCHANGED <<pc, item, box, ritem>>
      \/ /\ count = Size /\ k' = BlockOn(k1, putq, "TIMEOUT")
         /\ pc' = [pc EXCEPT ![self] = "tput"] /\ item' = [item EXCEPT ![self] = v]
         /\ UNCHANGED <<box, ritem>>
      \/ count < Size /\ Store(n, v) /\ UNCHANGED <<pc, item>>
  BY DEF MboxTimedPut
<1> HIDE DEF k1, n
<1>4. CASE k' = Unlock(n) /\ UNCHANGED <<pc, item, box, ritem>>
  <2>1. pc' = [pc EXCEPT ![self] = "user"] /\ UNCHANGED <<ticks, box, ritem>>
    BY <1>1, <1>2, <1>4
  <2> QED BY <1>1, <1>2, <1>4, <2>1, SelfFails
<1>5. CASE /\ count = Size /\ k' = BlockOn(k1, putq, "TIMEOUT")
           /\ pc' = [pc EXCEPT ![self] = "tput"] /\ item' = [item EXCEPT ![self] = v]
           /\ UNCHANGED <<box, ritem>>
  <2>1. ItemsOK'
    BY <1>1, <1>5, ItemsOfSelf
  <2> QED BY <1>1, <1>2, <1>5, <2>1, BoxPC, SelfBlocks
<1>6. CASE count < Size /\ Store(n, v) /\ UNCHANGED <<pc, item>>
  <2>1. pc' = [pc EXCEPT ![self] = "user"] /\ pc[self] \notin Getting
    BY <1>2, <1>6, BoxPC
  <2> QED BY <1>1, <1>2, <1>6, <2>1, SelfStores
<1> QED BY <1>3, <1>4, <1>5, <1>6

\* A try, by a thread or by a DSR, is nobody's turn: it changes no
\* continuation.
LEMMA TryOK ==
    ASSUME MboxInv, UNCHANGED <<pc, item>>
    PROVE  /\ Only(k, k, Idle, Life(k, Idle)) /\ BoxSleeperOK(Life(k, Idle), "user")
           /\ pc[Idle] = "user" /\ pc' = [pc EXCEPT ![Idle] = "user"]
           /\ ItemsOK' /\ RingOK /\ Idle \in AllThread /\ KernelInv(k)
           /\ KInv /\ BoxOK(k, pc', count, Size - count)
<1>1. KInv /\ pc[Idle] = "user" /\ QueuesDistinct(k) /\ ItemsOK /\ RingOK
  BY DEF MboxInv, KInv
<1>2. Only(k, k, Idle, Life(k, Idle))
  BY <1>1 DEF Only
<1>3. pc' = [pc EXCEPT ![Idle] = "user"]
  BY <1>1 DEF KInv
<1>4. BoxSleeperOK(Life(k, Idle), "user") /\ Idle \in AllThread
  BY <1>1, MboxFacts
<1>5. BoxOK(k, pc', count, Size - count)
  BY MboxFacts
<1> QED BY <1>1, <1>2, <1>3, <1>4, <1>5, MboxFacts, ItemsKept

\* tryget() takes a message if there is one.
LEMMA MboxTrygetInv ==
    ASSUME MboxInv, MboxTryget
    PROVE  MboxInv' /\ FifoStep
<1>1. UNCHANGED <<pc, ticks, item>>
  BY DEF MboxTryget
<1>2. CASE count > 0 /\ Take(k)
  <2>1. KInv' /\ BoxOK(k', pc', count', Size - count')
    BY <1>1, <1>2, TryOK, BoxPC, MboxTakes
  <2> QED BY <1>1, <1>2, <2>1, TryOK, TakeIsGet DEF MboxInv
<1>3. CASE k' = Unlock(k) /\ UNCHANGED <<box, ritem>>
  <2>1. KInv' /\ BoxOK(k', pc', count, Size - count)
    BY <1>1, <1>3, TryOK, BoxStep
  <2>2. count' = count
    BY <1>3 DEF box
  <2> QED BY <1>1, <1>3, <2>1, <2>2, TryOK, RingUnchanged DEF MboxInv
<1> QED BY <1>2, <1>3 DEF MboxTryget

\* tryput() fills a slot if there is one.
LEMMA MboxTryputInv ==
    ASSUME MboxInv, NEW v \in Item, MboxTryput(v)
    PROVE  MboxInv' /\ FifoStep
<1>1. UNCHANGED <<pc, ticks, item>>
  BY DEF MboxTryput
<1>2. CASE count < Size /\ Store(k, v)
  <2>1. KInv' /\ BoxOK(k', pc', count', Size - count')
    BY <1>1, <1>2, TryOK, BoxPC, MboxStores
  <2> QED BY <1>1, <1>2, <2>1, TryOK, StoreIsPut DEF MboxInv
<1>3. CASE k' = Unlock(k) /\ UNCHANGED <<box, ritem>>
  <2>1. KInv' /\ BoxOK(k', pc', count, Size - count)
    BY <1>1, <1>3, TryOK, BoxStep
  <2>2. count' = count
    BY <1>3 DEF box
  <2> QED BY <1>1, <1>3, <2>1, <2>2, TryOK, RingUnchanged DEF MboxInv
<1> QED BY <1>2, <1>3 DEF MboxTryput

\* A thread that was killed in its waiting loop exits, and takes no event.
LEMMA WaitExitsInv ==
    ASSUME MboxInv, WaitExits
    PROVE  MboxInv' /\ FifoStep
<1> DEFINE l == Life(k, self)
<1>1. /\ Waiting /\ k.wake_reason[self] = "EXIT" /\ k' = Reschedule(Exit(k))
      /\ pc' = [pc EXCEPT ![self] = "user"] /\ DropItem /\ UNCHANGED <<ticks, box, ritem>>
  BY DEF WaitExits, Leave
<1>2. /\ KInv /\ KernelInv(k) /\ self \in AllThread /\ self # Idle /\ self = k.current
      /\ l.state = {} /\ SleeperOK(l, {}) /\ l.wake = k.wake_reason[self]
  BY <1>1, BoxWokenOK
<1>3. KernelInv(Exit(k)) /\ Only(Exit(k), k, self, Exited(l))
  BY <1>2, LifeRunnable, ExitInv, ExitLife DEF KInv
<1>4. SleeperOK(Exited(l), {}) /\ l.wake # "DONE"
  BY <1>1, <1>2 DEF Exited, TimerOff, WithState, SleeperOK
<1> QED BY <1>1, <1>2, <1>3, <1>4, SelfFails

\* A thread whose wait was broken off, or whose deadline passed, has not been
\* woken for an event.
LEMMA WaitFailsInv ==
    ASSUME MboxInv, WaitFails
    PROVE  MboxInv' /\ FifoStep
<1>1. /\ Waiting /\ k.wake_reason[self] # "DONE" /\ k' = Unlock(EndWait)
      /\ pc' = [pc EXCEPT ![self] = "user"] /\ DropItem /\ UNCHANGED <<ticks, box, ritem>>
  BY DEF WaitFails, Leave, FailReasons
<1>2. /\ self # Idle /\ KernelInv(EndWait) /\ Life(k, self).wake # "DONE"
      /\ \E l : Only(EndWait, k, self, l) /\ SleeperOK(l, {}) /\ l.state = {}
  BY <1>1, BoxWokenOK
<1> QED BY <1>1, <1>2, SelfFails

\* A thread woken in get() takes the message, or waits again.
LEMMA GetWokenInv ==
    ASSUME MboxInv, GetWoken
    PROVE  MboxInv' /\ FifoStep
<1>1. Waiting /\ pc[self] \in Getting /\ UNCHANGED <<ticks, item>>
  BY DEF GetWoken
<1>2. /\ KInv /\ KernelInv(k) /\ self \in AllThread /\ self # Idle /\ self = k.current
      /\ Life(k, self).state = {} /\ SleeperOK(Life(k, self), {})
      /\ Only(k, k, self, Life(k, self))
      /\ KernelInv(EndWait)
      /\ \E l : Only(EndWait, k, self, l) /\ SleeperOK(l, {}) /\ l.state = {}
  BY <1>1, BoxWokenOK
<1>3. CASE /\ count = 0 /\ k' = BlockOn(k, getq, IF Timed THEN "TIMEOUT" ELSE "WAIT")
           /\ UNCHANGED <<pc, box, ritem>>
  <2> DEFINE r == IF Timed THEN "TIMEOUT" ELSE "WAIT"
             c == pc[self]
  <2>1. r \in {"WAIT", "TIMEOUT"} /\ k' = BlockOn(k, getq, r)
    BY <1>3
  <2>2. pc' = [pc EXCEPT ![self] = c] /\ c \in Getting /\ c = pc[self]
    BY <1>1, <1>2, <1>3 DEF KInv
  <2> HIDE DEF r, c
  <2>3. ItemsOK'
    BY <1>1, <2>2, BoxPC, ItemsOfSelf
  <2> QED BY <1>1, <1>2, <1>3, <2>1, <2>2, <2>3, BoxPC, SelfBlocks
<1>4. CASE count > 0 /\ Take(EndWait) /\ Leave
  <2>1. pc' = [pc EXCEPT ![self] = "user"] /\ pc[self] \notin Putting
    BY <1>1, <1>4, BoxPC DEF Leave
  <2> QED BY <1>1, <1>2, <1>4, <2>1, SelfTakes
<1> QED BY <1>3, <1>4 DEF GetWoken

\* A thread woken in put() fills the slot, or waits again.
LEMMA PutWokenInv ==
    ASSUME MboxInv, PutWoken
    PROVE  MboxInv' /\ FifoStep
<1>1. Waiting /\ pc[self] \in Putting /\ UNCHANGED ticks
  BY DEF PutWoken
<1>2. /\ KInv /\ KernelInv(k) /\ self \in AllThread /\ self # Idle /\ self = k.current
      /\ self \in Thread
      /\ Life(k, self).state = {} /\ SleeperOK(Life(k, self), {})
      /\ Only(k, k, self, Life(k, self))
      /\ KernelInv(EndWait)
      /\ \E l : Only(EndWait, k, self, l) /\ SleeperOK(l, {}) /\ l.state = {}
  BY <1>1, BoxWokenOK
<1>3. CASE /\ count = Size /\ k' = BlockOn(k, putq, IF Timed THEN "TIMEOUT" ELSE "WAIT")
           /\ UNCHANGED <<pc, item, box, ritem>>
  <2> DEFINE r == IF Timed THEN "TIMEOUT" ELSE "WAIT"
             c == pc[self]
  <2>1. r \in {"WAIT", "TIMEOUT"} /\ k' = BlockOn(k, putq, r)
    BY <1>3
  <2>2. pc' = [pc EXCEPT ![self] = c] /\ c \in Putting /\ c = pc[self]
    BY <1>1, <1>2, <1>3 DEF KInv
  <2> HIDE DEF r, c
  <2>3. ItemsOK'
    BY <1>3, ItemsKept DEF MboxInv
  <2> QED BY <1>1, <1>2, <1>3, <2>1, <2>2, <2>3, BoxPC, SelfBlocks
<1>4. CASE count < Size /\ Store(EndWait, item[self]) /\ Leave /\ DropItem
  <2>1. pc' = [pc EXCEPT ![self] = "user"] /\ pc[self] \notin Getting
    BY <1>1, <1>4, BoxPC DEF Leave
  <2>2. item[self] \in Item
    BY <1>1, <1>2 DEF MboxInv, ItemsOK
  <2> QED BY <1>1, <1>2, <1>4, <2>1, <2>2, SelfStores
<1> QED BY <1>3, <1>4 DEF PutWoken

\* What Threads does to a waiter keeps its event.
LEMMA BoxOtherInv ==
    ASSUME MboxInv, Next, UNCHANGED <<box, item, ritem>>
    PROVE  MboxInv' /\ FifoStep
<1>1. KInv /\ KInv'
  BY NextMoves DEF MboxInv
<1>2. PICK t \in AllThread : Moves(t)
  BY <1>1, NextMoves
<1> DEFINE l == Life(k, t)
           m == Life(k', t)
<1>3. /\ Turn(t, m, pc'[t]) /\ l \in LifeType /\ BoxSleeperOK(l, pc[t])
      /\ \/ Affected(l, m) /\ pc'[t] = pc[t]
         \/ Acts(l, pc[t], m, pc'[t])
  BY <1>2, MboxFacts DEF Moves
<1> HIDE DEF l, m
<1>4. /\ BoxSleeperOK(m, pc'[t]) /\ m.on \subseteq l.on
      /\ IsHeir(l, pc[t], Getting) => IsHeir(m, pc'[t], Getting)
      /\ IsHeir(l, pc[t], Putting) => IsHeir(m, pc'[t], Putting)
      /\ pc'[t] \in Putting => pc[t] \in Putting
  <2>1. CASE Affected(l, m) /\ pc'[t] = pc[t]
    BY <1>3, <2>1, AffectedSleeper DEF BoxSleeperOK, IsHeir
  <2>2. CASE Acts(l, pc[t], m, pc'[t])
    <3>1. pc[t] \in PC /\ pc'[t] \in PC
      BY <2>2 DEF Acts, PC
    <3>2. /\ BoxQueue(pc[t]) = {} /\ BoxQueue(pc'[t]) = {}
          /\ pc[t] \notin Getting /\ pc[t] \notin Putting /\ pc'[t] \notin Putting
      BY <3>1 DEF PC, BoxQueue, Getting, Putting
    <3>3. SleeperOK(m, {})
      BY <1>3, <2>2, <3>2, ActsSleeper DEF BoxSleeperOK
    <3> QED BY <3>1, <3>2, <3>3 DEF BoxSleeperOK, MboxPC, SleeperOK, IsHeir
  <2> QED BY <1>3, <2>1, <2>2
<1>5. t # Idle \/ pc'[t] = "user"
  BY <1>1 DEF KInv
<1> DEFINE d == Size - count
<1>6. /\ count \in Nat /\ d \in Nat /\ BoxOK(k, pc, count, d) /\ count' = count
      /\ KernelInv(k') /\ Only(k', k, t, m) /\ pc' = [pc EXCEPT ![t] = pc'[t]]
  BY <1>1, <1>3, MboxFacts DEF KInv, Turn, box
<1> HIDE DEF d
<1>7. /\ KeepsServed(getq, Getting, l, pc[t], m, pc'[t], count, count)
      /\ KeepsServed(putq, Putting, l, pc[t], m, pc'[t], d, d)
  BY <1>4 DEF KeepsServed
<1>8. BoxOK(k', pc', count, d)
  BY <1>4, <1>5, <1>6, <1>7, BoxTurn DEF l
<1>9. \A u \in Thread : pc'[u] \in Putting => pc[u] \in Putting
  BY <1>4, <1>6 DEF AllThread, BoxOK
<1>10. ItemsOK'
  BY <1>9, ItemsKept DEF MboxInv
<1>11. RingOK' /\ FifoStep
  BY RingUnchanged DEF MboxInv
<1> QED BY <1>1, <1>6, <1>8, <1>10, <1>11 DEF MboxInv, d

\* The invariant holds initially, when the queue is empty.
LEMMA MboxInitInv == MboxInit => MboxInv /\ Queue!FifoInit
<1> SUFFICES ASSUME MboxInit PROVE MboxInv /\ Queue!FifoInit
  OBVIOUS
<1>1. KInv /\ Init /\ getq \in WaitQueue /\ putq \in WaitQueue
  BY InitKInv, MboxAssumption DEF MboxInit
<1>2. \A t \in AllThread : /\ pc[t] = "user" /\ Life(k, t).on = {}
                           /\ Life(k, t).sleep = "NONE"
                           /\ "SLEEPING" \notin Life(k, t).state
                           /\ "COUNTSLEEP" \notin Life(k, t).state
  BY <1>1, InitKInv
<1>3. \A t \in AllThread : BoxSleeperOK(Life(k, t), pc[t])
  BY <1>2, BoxPC DEF BoxSleeperOK, MboxPC, PC, SleeperOK, BoxQueue
<1>4. k.wait_queue[getq] = <<>> /\ k.wait_queue[putq] = <<>>
  BY <1>1, <1>2, QueueLife DEF KInv, KernelInv
<1>5. BoxOK(k, pc, count, Size - count)
  BY <1>1, <1>3, <1>4 DEF BoxOK, Served, KInv
<1>6. RingOK /\ ItemsOK
  BY <1>2, MboxAssumption, BoxPC DEF MboxInit, RingOK, ItemsOK, AllThread
<1>7. Messages = <<>> /\ ritem = None
  <2>1. Messages = Ring(base, count, itemqueue) /\ count = 0 /\ ritem = None
    BY DEF Messages, Ring, MboxInit
  <2>2. Messages \in Seq(Item \cup {None}) /\ Len(Messages) = 0
    BY <1>6, <2>1, RingSeq DEF RingOK, Slots
  <2> QED BY <2>1, <2>2, EmptySeq
<1> QED BY <1>1, <1>5, <1>6, <1>7 DEF MboxInv, Queue!FifoInit

\* Every step keeps the invariant and is a step of the queue.
LEMMA MboxNextInv ==
    ASSUME MboxInv, [MboxNext]_mboxVars
    PROVE  MboxInv' /\ FifoStep
<1>1. CASE UNCHANGED mboxVars
  <2>1. /\ k' = k /\ pc' = pc /\ ticks' = ticks /\ count' = count /\ base' = base
        /\ itemqueue' = itemqueue /\ item' = item /\ ritem' = ritem
    BY <1>1 DEF mboxVars
  <2>2. Messages' = Messages
    BY <2>1 DEF Messages
  <2> QED BY <2>1, <2>2 DEF MboxInv, KInv, RingOK, ItemsOK, FifoStep
<1>2. CASE MboxNext
  BY <1>2, MboxGetInv, MboxTrygetInv, MboxPutInv, MboxTryputInv, MboxTimedGetInv,
     MboxTimedPutInv, WaitExitsInv, WaitFailsInv, GetWokenInv, PutWokenInv,
     BoxOtherInv DEF MboxNext
<1> QED BY <1>1, <1>2

-----------------------------------------------------------------------------
(* The theorems *)

\* The inductive invariant holds in every reachable state.
THEOREM MboxInvTheorem == MboxSpec => []MboxInv
<1>1. MboxInv /\ [MboxNext]_mboxVars => MboxInv'
  BY MboxNextInv
<1> QED BY <1>1, MboxInitInv, PTL DEF MboxSpec

\* The ring's indices stay in range, the count between empty and full, and a
\* thread that waits in put() has a message to put.
THEOREM MboxTypeTheorem == MboxSpec => []MboxTypeOK
<1>1. MboxInv => MboxTypeOK
  BY DEF MboxInv, KInv, KernelInv, BoxOK, BoxSleeperOK, RingOK, ItemsOK, MboxTypeOK
<1> QED BY <1>1, MboxInvTheorem, PTL

\* Exactly the threads asleep in get() are on get_threadq and those asleep in
\* put() on put_threadq, whatever timeouts, release(), suspend(), kill() and
\* priority changes have done to them.
THEOREM MboxWaitersTheorem == MboxSpec => []MboxWaitersQueued
<1>1. MboxInv => MboxWaitersQueued
  <2> SUFFICES ASSUME MboxInv PROVE MboxWaitersQueued
    OBVIOUS
  <2>1. /\ k \in KernelState /\ QueuesDistinct(k)
        /\ getq \in WaitQueue /\ putq \in WaitQueue /\ getq # putq
        /\ \A t \in AllThread : BoxSleeperOK(Life(k, t), pc[t])
    BY MboxFacts, MboxAssumption
  <2>2. ASSUME NEW t \in AllThread
        PROVE  Life(k, t).on = IF "SLEEPING" \in k.state[t] THEN BoxQueue(pc[t]) ELSE {}
    BY <2>1 DEF BoxSleeperOK, SleeperOK, Life
  <2>3. ASSUME NEW q \in WaitQueue, NEW t \in Range(k.wait_queue[q])
        PROVE  t \in AllThread /\ q \in Life(k, t).on
    <3>1. k.wait_queue[q] \in Seq(AllThread)
      BY <2>1 DEF KernelState
    <3>2. t \in AllThread
      BY <3>1, ElementOfSeq, LenProperties DEF Range
    <3> QED BY <2>1, <3>2, QueueLife
  <2>4. WaitQueuesOK(k)
    BY <2>1, <2>2, <2>3 DEF WaitQueuesOK, QueuesDistinct, BoxQueue
  <2>5. ASSUME NEW t \in Thread
        PROVE  /\ t \in Range(k.wait_queue[getq]) <=>
                      pc[t] \in Getting /\ "SLEEPING" \in k.state[t]
               /\ t \in Range(k.wait_queue[putq]) <=>
                      pc[t] \in Putting /\ "SLEEPING" \in k.state[t]
    <3>1. t \in AllThread
      BY DEF AllThread
    <3> QED BY <2>1, <2>2, <3>1, QueueLife, BoxPC DEF BoxQueue
  <2> QED BY <2>4, <2>5 DEF MboxWaitersQueued
<1> QED BY <1>1, MboxInvTheorem, PTL

\* While a thread sleeps in get() as many woken threads as there are messages
\* are on their way to them.
THEOREM StrandedMessageTheorem == MboxSpec => []NoStrandedMessage
<1>1. MboxInv => NoStrandedMessage
  BY DEF MboxInv, BoxOK, Served, HeirsAt, NoStrandedMessage, Heirs
<1> QED BY <1>1, MboxInvTheorem, PTL

\* While a thread sleeps in put() as many woken threads as there are free slots
\* are on their way to them.
THEOREM StrandedSlotTheorem == MboxSpec => []NoStrandedSlot
<1>1. MboxInv => NoStrandedSlot
  BY DEF MboxInv, BoxOK, Served, HeirsAt, NoStrandedSlot, Heirs
<1> QED BY <1>1, MboxInvTheorem, PTL

\* The mailbox implements a bounded first-in first-out queue: every step of
\* it is a get or a put of that queue, or leaves the queue and what was got
\* last alone.
THEOREM FifoTheorem == MboxSpec => ImplementsFifo
<1>1. MboxInv /\ [MboxNext]_mboxVars => [Queue!FifoNext]_<<Messages, ritem>>
  BY MboxNextInv DEF FifoStep, Queue!FifoNext
<1>2. MboxInit => Queue!FifoInit
  BY MboxInitInv
<1> QED BY <1>1, <1>2, MboxInvTheorem, PTL DEF MboxSpec, ImplementsFifo, Queue!FifoSpec

=============================================================================
