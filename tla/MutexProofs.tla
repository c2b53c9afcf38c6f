----------------------------- MODULE MutexProofs ----------------------------
(***************************************************************************)
(* Theorems about module Mutex                                             *)
(***************************************************************************)
EXTENDS Mutex, ThreadsProofs

-----------------------------------------------------------------------------
(* What the steps of Threads do to the loans *)

\* unlock() and reschedule() leave the loans alone.
LEMMA LockLoans ==
    ASSUME NEW n \in KernelState
    PROVE  SameLoans(Unlock(n), n) /\ SameLoans(Reschedule(n), n)
BY DEF KernelState, SameLoans, Unlock, Reschedule

\* An operation that leaves them alone and ends in unlock() or reschedule().
LEMMA LoansKept ==
    ASSUME NEW n, KernelInv(n), SameLoans(n, k), k' = Unlock(n) \/ k' = Reschedule(n)
    PROVE  SameLoans(k', k)
<1>1. n \in KernelState
  BY DEF KernelInv
<1> QED BY <1>1, LockLoans, SameLoansTransitive

\* The counted sleep leaves them alone.
LEMMA CountSleepLoans ==
    ASSUME NEW n, KernelInv(n), n.current # Idle
    PROVE  SameLoans(CountSleep(n), n)
<1> DEFINE k1 == Sleep(n)
           u  == CountSleep(n)
<1>1. k1 \in KernelState /\ SameLoans(k1, n)
  BY StateLoans, SleepInv DEF KernelInv
<1>2. u = [k1 EXCEPT !.state[n.current] = @ \cup {"COUNTSLEEP"}]
  BY DEF CountSleep
<1> HIDE DEF k1, u
<1>3. SameLoans(u, k1)
  BY <1>1, <1>2 DEF KernelState, SameLoans
<1> QED BY <1>1, <1>3, SameLoansTransitive DEF u

\* The wakeup count is no part of them.
LEMMA WakeupCountLoans ==
    ASSUME NEW n \in KernelState, NEW t, NEW c
    PROVE  SameLoans([n EXCEPT !.wakeup_count[t] = c], n)
BY DEF KernelState, SameLoans

\* counted_sleep() leaves the loans alone, with a timeout or without.
LEMMA CountedSleepLoans ==
    ASSUME KInv, ThreadCountedSleep \/ \E past \in BOOLEAN : ThreadCountedSleepTimed(past)
    PROVE  SameLoans(k', k)
<1>1. /\ KernelInv(k) /\ k \in KernelState /\ InThread
      /\ self \in AllThread /\ self # Idle /\ self = k.current
  BY InThreadFacts DEF ThreadCountedSleep, ThreadCountedSleepTimed
<1>2. ASSUME NEW n, KernelInv(n), n.current = self, SameLoans(n, k), NEW r \in SleepReason
      PROVE  LET u == CountSleep(SetSleepReason(n, r)) IN KernelInv(u) /\ SameLoans(u, k)
  <2> DEFINE k1 == SetSleepReason(n, r)
  <2>1. KernelInv(k1) /\ k1.current # Idle /\ SameLoans(k1, n)
    BY <1>1, <1>2, SetSleepReasonInv, ReasonLoans DEF Keeps, KernelInv
  <2> HIDE DEF k1
  <2>2. KernelInv(CountSleep(k1)) /\ SameLoans(CountSleep(k1), k1)
    BY <2>1, CountSleepFacts, CountSleepLoans
  <2> QED BY <1>2, <2>1, <2>2, SameLoansTransitive DEF k1
<1>3. SameLoans(k, k)
  BY DEF SameLoans
<1>4. ASSUME k.wakeup_count[self] # 0,
             k' = Unlock([k EXCEPT !.wakeup_count[self] = @ - 1])
      PROVE  SameLoans(k', k)
  <2> DEFINE c == k.wakeup_count[self] - 1
             n == [k EXCEPT !.wakeup_count[self] = c]
  <2>1. c \in Nat /\ k' = Unlock(n)
    BY <1>1, <1>4 DEF KernelState
  <2>2. KernelInv(n) /\ SameLoans(n, k)
    BY <1>1, <2>1, WakeupCountFacts, WakeupCountLoans
  <2> QED BY <2>1, <2>2, LoansKept
<1>5. CASE ThreadCountedSleep
  <2>1. CASE k.wakeup_count[self] = 0
    <3>1. k' = Unlock(CountSleep(SetSleepReason(k, "WAIT")))
      BY <1>5, <2>1 DEF ThreadCountedSleep
    <3> QED BY <1>1, <1>2, <1>3, <3>1, LoansKept DEF SleepReason
  <2>2. CASE k.wakeup_count[self] # 0
    BY <1>4, <1>5, <2>2 DEF ThreadCountedSleep
  <2> QED BY <2>1, <2>2
<1>6. ASSUME NEW past \in BOOLEAN, ThreadCountedSleepTimed(past)
      PROVE  SameLoans(k', k)
  <2> DEFINE k1 == SetTimer(k, "TIMEOUT", past)
  <2>1. KernelInv(k1) /\ k1.current = self /\ SameLoans(k1, k)
    BY <1>1, SetTimerInv, SchedulerLoans DEF SleepReason
  <2>2. \/ k.wakeup_count[self] # 0 /\ k' = Unlock([k EXCEPT !.wakeup_count[self] = @ - 1])
        \/ k' = Unlock(k1)
        \/ k' = Reschedule(CountSleep(SetSleepReason(k1, "TIMEOUT")))
    BY <1>6 DEF ThreadCountedSleepTimed
  <2> HIDE DEF k1
  <2>3. CASE k' = Unlock(k1)
    BY <2>1, <2>3, LoansKept
  <2>4. CASE k' = Reschedule(CountSleep(SetSleepReason(k1, "TIMEOUT")))
    <3>1. /\ KernelInv(CountSleep(SetSleepReason(k1, "TIMEOUT")))
          /\ SameLoans(CountSleep(SetSleepReason(k1, "TIMEOUT")), k)
      BY <1>2, <2>1 DEF SleepReason
    <3> QED BY <2>4, <3>1, LoansKept
  <2> QED BY <1>4, <2>2, <2>3, <2>4
<1> QED BY <1>5, <1>6

\* The operations one thread calls on another leave the loans alone, except
\* set_priority().
LEMMA OperationOnLoans ==
    ASSUME KInv, NEW t \in Thread, OperationOn(t)
    PROVE  SameLoans(k', k) \/ \E p \in UserPriority : ThreadSetPriority(t, p)
<1>1. KernelInv(k) /\ k \in KernelState /\ t \in AllThread /\ t # Idle
  BY KInvFacts
<1>2. CASE ThreadSuspend(t)
  BY <1>1, <1>2, SuspendInv, StateLoans, LoansKept DEF ThreadSuspend
<1>3. CASE ThreadResume(t)
  BY <1>1, <1>3, ResumeInv, StateLoans, LoansKept DEF ThreadResume
<1>4. CASE ThreadRelease(t)
  BY <1>1, <1>4, ReleaseInv, ThreadLoans, LoansKept DEF ThreadRelease
<1>5. CASE ThreadCountedWake(t)
  BY <1>1, <1>5, CountedWakeInv, ThreadLoans, LoansKept DEF ThreadCountedWake
<1>6. CASE ThreadCancelCountedWake(t)
  <2> DEFINE n == [k EXCEPT !.wakeup_count[t] = 0]
  <2>1. KernelInv(n) /\ SameLoans(n, k)
    BY <1>1, WakeupCountFacts, WakeupCountLoans, 0 \in Nat
  <2> QED BY <1>6, <2>1, LoansKept DEF ThreadCancelCountedWake
<1>7. CASE ThreadKill(t)
  BY <1>1, <1>7, KillInv, ThreadLoans, LoansKept DEF ThreadKill
<1> QED BY <1>2, <1>3, <1>4, <1>5, <1>6, <1>7 DEF OperationOn

\* No step of Threads but set_priority() changes a loan.
LEMMA NextLoans ==
    ASSUME KInv, Next
    PROVE  SameLoans(k', k) \/ \E t \in Thread, p \in UserPriority : ThreadSetPriority(t, p)
<1>1. /\ KernelInv(k) /\ k \in KernelState /\ self \in AllThread /\ self = k.current
      /\ \A t \in Thread : t \in AllThread /\ t # Idle
      /\ pc[self] # "user" => self # Idle
  BY KInvFacts
<1>2. ASSUME NEW t \in Thread, OperationOn(t)
      PROVE  \/ SameLoans(k', k)
             \/ \E u \in Thread, p \in UserPriority : ThreadSetPriority(u, p)
  BY <1>2, OperationOnLoans
<1>3. CASE ThreadExit
  <2>1. Runnable(k, k.current) /\ k.current # Idle
    BY <1>1, <1>3, InThreadFacts, LifeRunnable DEF ThreadExit
  <2> QED BY <1>1, <1>3, <2>1, ExitInv, ThreadLoans, LoansKept DEF ThreadExit
<1>4. CASE ThreadYield
  BY <1>1, <1>4, YieldInv, SchedulerLoans, LoansKept DEF ThreadYield
<1>5. ASSUME NEW p \in UserPriority, ThreadRotateQueue(p)
      PROVE  SameLoans(k', k)
  <2>1. p \in Priority
    BY KernelAssumption DEF UserPriority, Priority
  <2> QED BY <1>1, <1>5, <2>1, RotateQueueInv, SchedulerLoans, LoansKept
          DEF ThreadRotateQueue
<1>6. ASSUME NEW past \in BOOLEAN, ThreadDelay(past)
      PROVE  SameLoans(k', k)
  <2> DEFINE k1 == Sleep(k)
             n  == SetTimer(k1, "DELAY", past)
  <2>1. k.current # Idle /\ k' = Unlock(n)
    BY <1>1, <1>6, InThreadFacts DEF ThreadDelay
  <2>2. KernelInv(k1) /\ SameLoans(k1, k) /\ k1.current # Idle
    BY <1>1, <2>1, SleepInv, StateLoans DEF Keeps
  <2> HIDE DEF k1
  <2>3. KernelInv(n) /\ SameLoans(n, k1)
    BY <2>2, SetTimerInv, SchedulerLoans DEF SleepReason
  <2> HIDE DEF n
  <2> QED BY <2>1, <2>2, <2>3, SameLoansTransitive, LoansKept
<1>7. CASE CountedSleepTimedWoken
  BY <1>1, <1>7, ClearTimerInv, ReasonLoans, LoansKept DEF CountedSleepTimedWoken
<1>8. CASE SleepReturn
  <2> DEFINE k1 == IF pc[self] = "delay" THEN ClearTimer(k, self) ELSE k
  <2>1. /\ Life(k, self).state = {} /\ self # Idle
        /\ k' = Reschedule(Exit(k1)) \/ k' = Unlock(k1)
    BY <1>1, <1>8, KInvFacts DEF SleepReturn
  <2>2. KernelInv(ClearTimer(k, self)) /\ SameLoans(ClearTimer(k, self), k)
        /\ ClearTimer(k, self).current = self /\ Runnable(k, self)
        /\ ClearTimer(k, self).state = k.state
    BY <1>1, <2>1, ClearTimerInv, ReasonLoans, LifeRunnable
       DEF Keeps, ClearTimer, KernelState
  <2>3. KernelInv(k1) /\ SameLoans(k1, k) /\ k1.current = self /\ Runnable(k1, self)
    BY <1>1, <2>2 DEF SameLoans, Runnable
  <2> HIDE DEF k1
  <2>4. KernelInv(Exit(k1)) /\ SameLoans(Exit(k1), k1)
    BY <1>1, <2>1, <2>3, ExitInv, ThreadLoans
  <2> QED BY <2>1, <2>3, <2>4, SameLoansTransitive, LoansKept
<1>9. ASSUME NEW t \in Thread, StartResume(t)
      PROVE  SameLoans(k', k)
  BY <1>1, <1>9, StateLoans DEF StartResume
<1>10. ASSUME NEW t \in Thread, ClockDsrAlarm(t)
       PROVE  SameLoans(k', k)
  BY <1>1, <1>10, ThreadLoans DEF ClockDsrAlarm
<1>11. CASE SchedulerStart
  BY <1>1, <1>11, SchedulerLoans DEF SchedulerStart
<1>12. CASE ClockDsr
  BY <1>1, <1>12 DEF ClockDsr, KernelState, SameLoans
<1>13. CASE ClockDsrTimeslice
  BY <1>1, <1>13, TimesliceInv, SchedulerLoans, LoansKept DEF ClockDsrTimeslice
<1>14. CASE RescheduleOrReturn
  BY <1>1, <1>14, SchedulerLoans DEF RescheduleOrReturn
<1>15. CASE ThreadCountedSleep \/ \E past \in BOOLEAN : ThreadCountedSleepTimed(past)
  BY <1>15, CountedSleepLoans
<1> QED BY <1>2, <1>3, <1>4, <1>5, <1>6, <1>7, <1>8, <1>9, <1>10, <1>11, <1>12,
           <1>13, <1>14, <1>15 DEF Next

-----------------------------------------------------------------------------
(* The pieces of the inversion protocol *)

\* An operation that changes no life and leaves the scheduler consistent.
Quiet(n, k1) == KernelInv(n) /\ Same(n, k1) /\ Keeps(n, k1)

\* Every inherited priority is at least as good as the one to go back to.
LoansOK(n) ==
    \A t \in Thread : n.priority_inherited[t] => n.priority[t] <= n.original_priority[t]

\* An operation keeps that, and the priority that get_priority() reports.
Repays(n, k1) ==
    LoansOK(k1) =>
        LoansOK(n) /\ \A t \in Thread : GetPriority(n, t) = GetPriority(k1, t)

\* Two quiet operations.
LEMMA QuietTransitive ==
    ASSUME NEW k1, NEW k2, NEW n, Quiet(k2, k1), Quiet(n, k2)
    PROVE  Quiet(n, k1)
BY SameTransitive, KeepsTransitive DEF Quiet

\* An operation on nothing.
LEMMA QuietSelf ==
    ASSUME NEW n, KernelInv(n), QueuesDistinct(n)
    PROVE  Quiet(n, n) /\ Repays(n, n) /\ SameLoans(n, n)
BY DEF Quiet, Same, Keeps, Repays, SameLoans

\* Operations that repay compose; those that leave the loans alone repay.
LEMMA RepaysTransitive ==
    ASSUME NEW k1, NEW k2, NEW n, Repays(k2, k1), Repays(n, k2)
    PROVE  Repays(n, k1)
BY DEF Repays

\* An operation that touches no priority repays.
LEMMA SameRepays ==
    ASSUME NEW n, NEW k1, n.priority = k1.priority,
           n.original_priority = k1.original_priority,
           n.priority_inherited = k1.priority_inherited
    PROVE  Repays(n, k1)
BY DEF Repays, LoansOK, GetPriority

\* Priority p has been lent to t, if it is better than t's own.
Lent(n, k1, t, p) ==
    /\ p >= k1.priority[t] => SameLoans(n, k1)
    /\ p < k1.priority[t] =>
         Loan(n, k1, t, p, IF k1.priority_inherited[t] THEN k1.original_priority[t]
                           ELSE k1.priority[t], TRUE)

\* The priority lent to t has been taken back with its last mutex.
Cleared(n, k1, t) ==
    LET o == k1.original_priority[t]
    IN  /\ k1.mutex_count[t] # 0 \/ ~k1.priority_inherited[t] => SameLoans(n, k1)
        /\ k1.mutex_count[t] = 0 /\ k1.priority_inherited[t] =>
             Loan(n, k1, t, IF k1.priority[t] < o THEN o ELSE k1.priority[t], o, FALSE)

\* set_inherited_priority() lends.
LEMMA LendFacts ==
    ASSUME NEW n, KernelInv(n), QueuesDistinct(n), NEW t \in AllThread, t # Idle,
           Settled(n, t), NEW p \in UserPriority
    PROVE  LET r == SetInheritedPriority(n, t, p)
           IN  Quiet(r, n) /\ Lent(r, n, t, p)
<1>1. SameLoans(n, n)
  BY DEF SameLoans
<1> QED BY <1>1, SetInheritedFacts DEF Quiet, Lent

\* clear_inherited_priority() takes back.
LEMMA ClearFacts ==
    ASSUME NEW n, KernelInv(n), QueuesDistinct(n), NEW t \in AllThread, t # Idle,
           Settled(n, t)
    PROVE  LET r == ClearInheritedPriority(n, t)
           IN  Quiet(r, n) /\ Cleared(r, n, t)
<1>1. SameLoans(n, n)
  BY DEF SameLoans
<1> QED BY <1>1, ClearInheritedFacts DEF Quiet, Cleared

\* The types of what is lent.
LEMMA LoanTypes ==
    ASSUME NEW n \in KernelState
    PROVE  /\ n.priority \in [AllThread -> Int]
           /\ n.original_priority \in [AllThread -> Int]
           /\ n.priority_inherited \in [AllThread -> BOOLEAN]
           /\ n.mutex_count \in [AllThread -> Int]
           /\ \A t \in Thread : t \in AllThread
<1>1. Priority \subseteq Int
  BY KernelAssumption DEF Priority
<1> QED BY <1>1 DEF KernelState, AllThread

\* What is lent is repaid.
LEMMA LentRepays ==
    ASSUME NEW n, NEW k1 \in KernelState, NEW t \in Thread, NEW p \in Int,
           Lent(n, k1, t, p)
    PROVE  Repays(n, k1)
<1>1. /\ k1.priority \in [AllThread -> Int]
      /\ k1.original_priority \in [AllThread -> Int]
      /\ k1.priority_inherited \in [AllThread -> BOOLEAN]
      /\ \A u \in Thread : u \in AllThread
  BY LoanTypes
<1>2. CASE p >= k1.priority[t]
  BY <1>2, SameRepays DEF Lent, SameLoans
<1>3. CASE p < k1.priority[t]
  <2> DEFINE o == IF k1.priority_inherited[t] THEN k1.original_priority[t]
                  ELSE k1.priority[t]
  <2>1. Loan(n, k1, t, p, o, TRUE)
    BY <1>3 DEF Lent
  <2>2. LoansOK(k1) => p <= o
    BY <1>1, <1>3 DEF LoansOK
  <2> QED BY <1>1, <2>1, <2>2 DEF Repays, Loan, LoansOK, GetPriority
<1> QED BY <1>1, <1>2, <1>3

\* Taking back repays.
LEMMA ClearedRepays ==
    ASSUME NEW n, NEW k1 \in KernelState, NEW t \in Thread, Cleared(n, k1, t)
    PROVE  Repays(n, k1)
<1>1. /\ k1.priority \in [AllThread -> Int]
      /\ k1.original_priority \in [AllThread -> Int]
      /\ k1.priority_inherited \in [AllThread -> BOOLEAN]
      /\ \A u \in Thread : u \in AllThread
  BY LoanTypes
<1>2. CASE k1.mutex_count[t] # 0 \/ ~k1.priority_inherited[t]
  BY <1>2, SameRepays DEF Cleared, SameLoans
<1>3. CASE k1.mutex_count[t] = 0 /\ k1.priority_inherited[t]
  <2> DEFINE o == k1.original_priority[t]
             p == IF k1.priority[t] < o THEN o ELSE k1.priority[t]
  <2>1. Loan(n, k1, t, p, o, FALSE)
    BY <1>3 DEF Cleared
  <2>2. LoansOK(k1) => p = o
    BY <1>1, <1>3 DEF LoansOK
  <2> QED BY <1>1, <1>3, <2>1, <2>2 DEF Repays, Loan, LoansOK, GetPriority
<1> QED BY <1>2, <1>3

\* A change of the count repays.
LEMMA AddCountFacts ==
    ASSUME NEW n, KernelInv(n), QueuesDistinct(n), NEW t \in Thread, NEW d \in Int
    PROVE  LET r == AddCount(n, t, d)
           IN  Quiet(r, n) /\ Counted(r, n, t, d) /\ Repays(r, n)
<1> DEFINE r == AddCount(n, t, d)
<1>1. t \in AllThread /\ t # Idle
  BY KernelAssumption DEF AllThread
<1>2. Quiet(r, n) /\ Counted(r, n, t, d)
  BY <1>1, CountOnly DEF Quiet
<1> HIDE DEF r
<1>3. Repays(r, n)
  BY <1>2, SameRepays DEF Counted
<1> QED BY <1>2, <1>3 DEF r

\* count_mutex() counts the mutex unless it has no protocol.
LEMMA CountMutexFacts ==
    ASSUME NEW n, KernelInv(n), QueuesDistinct(n), NEW t \in Thread, NEW m
    PROVE  LET r == CountMutex(n, m, t)
           IN  /\ Quiet(r, n) /\ Repays(r, n)
               /\ IF protocol[m] = "NONE" THEN r = n ELSE Counted(r, n, t, 1)
<1>1. CountMutex(n, m, t) = IF protocol[m] = "NONE" THEN n ELSE AddCount(n, t, 1)
  BY DEF CountMutex, AddCount
<1> QED BY <1>1, QuietSelf, AddCountFacts

\* uncount_mutex() and, with the last one, the end of the loan.
LEMMA UncountMutexFacts ==
    ASSUME NEW n, KernelInv(n), QueuesDistinct(n), NEW t \in Thread, Settled(n, t), NEW m
    PROVE  LET r == UncountMutex(n, m, t)
           IN  /\ Quiet(r, n) /\ Repays(r, n)
               /\ IF protocol[m] = "NONE" THEN r = n
                  ELSE \E c \in KernelState : Counted(c, n, t, -1) /\ Cleared(r, c, t)
<1> DEFINE c == AddCount(n, t, -1)
           r == ClearInheritedPriority(c, t)
<1>1. UncountMutex(n, m, t) = IF protocol[m] = "NONE" THEN n ELSE r
  <2>1. n \in KernelState /\ n.mutex_count[t] - 1 = n.mutex_count[t] + (-1)
    BY LoanTypes DEF KernelInv
  <2> QED BY <2>1 DEF UncountMutex, AddCount
<1>2. Quiet(c, n) /\ Counted(c, n, t, -1) /\ Repays(c, n)
  BY AddCountFacts
<1> HIDE DEF c
<1>3. /\ KernelInv(c) /\ QueuesDistinct(c) /\ Settled(c, t) /\ c \in KernelState
      /\ t \in AllThread /\ t # Idle
  BY <1>2, KernelAssumption DEF Quiet, Same, Settled, KernelInv, AllThread
<1>4. Quiet(r, c) /\ Cleared(r, c, t)
  BY <1>3, ClearFacts
<1> HIDE DEF r
<1>5. Quiet(r, n) /\ Repays(r, n)
  BY <1>2, <1>3, <1>4, QuietTransitive, ClearedRepays, RepaysTransitive
<1> QED BY <1>1, <1>2, <1>3, <1>4, <1>5, QuietSelf

\* set_priority_ceiling() lends the ceiling.
LEMMA RaiseToCeilingFacts ==
    ASSUME NEW n, KernelInv(n), QueuesDistinct(n), NEW t \in Thread, Settled(n, t), NEW m,
           ceiling[m] \in UserPriority
    PROVE  LET r == RaiseToCeiling(n, m, t)
           IN  /\ Quiet(r, n) /\ Repays(r, n)
               /\ IF protocol[m] = "CEILING" THEN Lent(r, n, t, ceiling[m]) ELSE r = n
<1>1. t \in AllThread /\ t # Idle /\ n \in KernelState /\ ceiling[m] \in Int
  BY KernelAssumption DEF AllThread, KernelInv, UserPriority, Priority
<1> DEFINE p == ceiling[m]
<1>2. RaiseToCeiling(n, m, t) =
        IF protocol[m] = "CEILING" THEN SetInheritedPriority(n, t, p) ELSE n
  BY DEF RaiseToCeiling
<1>3. p \in UserPriority /\ p \in Int
  BY <1>1
<1> HIDE DEF p
<1>4. Quiet(SetInheritedPriority(n, t, p), n) /\ Lent(SetInheritedPriority(n, t, p), n, t, p)
  BY <1>1, <1>3, LendFacts
<1> QED BY <1>1, <1>2, <1>3, <1>4, QuietSelf, LentRepays DEF p

\* inherit_priority() lends the waiter's priority to the owner.
LEMMA InheritFacts ==
    ASSUME NEW n, KernelInv(n), QueuesDistinct(n), NEW m, NEW t \in Thread,
           owner[m] \in Thread, Settled(n, owner[m])
    PROVE  LET r == Inherit(n, m, t)
           IN  /\ Quiet(r, n) /\ Repays(r, n)
               /\ IF protocol[m] = "INHERIT" THEN Lent(r, n, owner[m], n.priority[t])
                  ELSE r = n
<1> DEFINE p == n.priority[t]
           o == owner[m]
<1>1. /\ t \in AllThread /\ t # Idle /\ o \in Thread /\ o \in AllThread /\ o # Idle
      /\ n \in KernelState
  BY KernelAssumption DEF AllThread, KernelInv
<1>2. p \in UserPriority /\ p \in Int
  BY <1>1, UserPriorities, LoanTypes
<1>3. Settled(n, o)
  OBVIOUS
<1>4. Inherit(n, m, t) = IF protocol[m] = "INHERIT" THEN SetInheritedPriority(n, o, p) ELSE n
  BY DEF Inherit
<1> HIDE DEF p, o
<1>5. Quiet(SetInheritedPriority(n, o, p), n) /\ Lent(SetInheritedPriority(n, o, p), n, o, p)
  BY <1>1, <1>2, <1>3, LendFacts
<1> QED BY <1>1, <1>2, <1>4, <1>5, QuietSelf, LentRepays DEF p, o

-----------------------------------------------------------------------------
(* unlock() *)

\* A loan between two operations that leave the loans alone.
LEMMA LentBetween ==
    ASSUME NEW k1, NEW k2, NEW k3, NEW n, NEW t, NEW p,
           SameLoans(k2, k1), Lent(k3, k2, t, p), SameLoans(n, k3)
    PROVE  Lent(n, k1, t, p)
BY DEF Lent, SameLoans, Loan

\* Others wait for m too.
OthersWait(m, h) == \E t \in AllThread \ {h} : m \in Life(k, t).on

\* unlock() wakes the head of the queue, to which it passes on the owner's
\* priority if others wait.
LEMMA WakeHeirFacts ==
    ASSUME KInv, NEW m \in WaitQueue, owner[m] \in Thread, k.wait_queue[m] # <<>>,
           Head(k.wait_queue[m]) \in Thread
    PROVE  LET h == Head(k.wait_queue[m])
               w == WakeHeir(m)
           IN  /\ KernelInv(w) /\ Keeps(w, k) /\ Repays(w, k)
               /\ m \in Life(k, h).on
               /\ Only(w, k, h, Dequeued(Life(k, h), "DONE"))
               /\ IF protocol[m] = "INHERIT" /\ OthersWait(m, h)
                  THEN Lent(w, k, h, k.priority[owner[m]])
                  ELSE SameLoans(w, k)
<1> DEFINE h  == Head(k.wait_queue[m])
           u  == owner[m]
           l  == Life(k, h)
           k1 == LeaveQueue(k, h)
           p  == k1.priority[u]
           k2 == IF protocol[m] = "INHERIT" THEN RelayPriority(k1, h, u, m) ELSE k1
           w  == Wake(SetWakeReason(k2, h, "DONE"), h)
           x  == SetsWake(Unqueued(l), "DONE")
<1>1. /\ KernelInv(k) /\ QueuesDistinct(k) /\ k \in KernelState
      /\ h \in Thread /\ h \in AllThread /\ h # Idle
      /\ u \in Thread /\ u \in AllThread /\ u # Idle
  BY KInvFacts
<1>2. m \in l.on /\ WakeHeir(m) = w
  BY <1>1, QueueLife DEF WakeHeir
<1>3. /\ k1 \in KernelState /\ SameScheduling(k1, k) /\ SameLoans(k1, k) /\ Keeps(k1, k)
      /\ Only(k1, k, h, Unqueued(l))
  BY <1>1, LeaveQueueFacts, LeaveQueueLife, QueueLoans
     DEF SameScheduling, SameThreads, Keeps
<1> HIDE DEF h, u, k1
<1>4. KernelInv(k1) /\ QueuesDistinct(k1) /\ Life(k1, h) = Unqueued(l) /\ Settled(k1, h)
  BY <1>1, <1>3, SameSchedulingInv DEF Only, Settled, Unqueued
<1>5. k1.wait_queue[m] # <<>> <=> OthersWait(m, h)
  BY <1>1, <1>3, <1>4, QueueLife DEF Only, Unqueued, OthersWait
<1>6. p \in UserPriority /\ p \in Int /\ p = k.priority[u]
  BY <1>1, <1>3, <1>4, UserPriorities, LoanTypes DEF SameLoans
<1>7. k2 = IF protocol[m] = "INHERIT" /\ k1.wait_queue[m] # <<>>
           THEN SetInheritedPriority(k1, h, p) ELSE k1
  BY DEF RelayPriority
<1> HIDE DEF p, k2
<1>8. /\ Quiet(SetInheritedPriority(k1, h, p), k1)
      /\ Lent(SetInheritedPriority(k1, h, p), k1, h, p)
  BY <1>1, <1>4, <1>6, LendFacts
<1>9. /\ Quiet(k2, k1)
      /\ IF protocol[m] = "INHERIT" /\ OthersWait(m, h) THEN Lent(k2, k1, h, p)
         ELSE k2 = k1
  BY <1>4, <1>5, <1>7, <1>8, QuietSelf
<1>10. KernelInv(k2) /\ QueuesDistinct(k2) /\ Life(k2, h) = Unqueued(l) /\ k2 \in KernelState
  BY <1>1, <1>4, <1>9 DEF Quiet, Same, KernelInv
<1>11. KernelInv(w) /\ Keeps(w, k2) /\ Only(w, k2, h, Woken(x))
  BY <1>1, <1>10, WakeWithLife DEF WakeReason
<1>12. SameLoans(w, k2)
  <2> DEFINE y == SetWakeReason(k2, h, "DONE")
  <2>1. y \in KernelState /\ SameLoans(y, k2)
    BY <1>1, <1>10, SetWakeReasonInv, ReasonLoans DEF WakeReason, KernelInv
  <2> HIDE DEF y
  <2>2. SameLoans(Wake(y, h), y)
    BY <2>1, StateLoans
  <2> QED BY <2>1, <2>2, SameLoansTransitive DEF y
<1>13. Woken(x) = Dequeued(l, "DONE")
  <2>1. x = [state |-> l.state, sleep |-> "NONE", wake |-> "DONE", timer |-> l.timer, on |-> {}]
    BY DEF SetsWake, Unqueued
  <2> HIDE DEF x
  <2>2. CASE l.state \cap SLEEPSET = {}
    <3>1. l.state \ SLEEPSET = l.state
      BY <2>2
    <3> QED BY <2>1, <2>2, <3>1 DEF Woken, Dequeued
  <2>3. CASE l.state \cap SLEEPSET # {}
    BY <2>1, <2>3 DEF Woken, Dequeued, Unqueued, WithState
  <2> QED BY <2>2, <2>3
<1> HIDE DEF w, x
<1>14. Only(k2, k, h, Unqueued(l))
  BY <1>1, <1>3, <1>9, OnlySame DEF Quiet
<1>15. Only(w, k, h, Dequeued(l, "DONE"))
  BY <1>1, <1>11, <1>13, <1>14, OnlyTransitive
<1>16. Keeps(w, k)
  BY <1>3, <1>9, <1>11, KeepsTransitive DEF Quiet
<1>17. IF protocol[m] = "INHERIT" /\ OthersWait(m, h) THEN Lent(w, k, h, p)
       ELSE SameLoans(w, k)
  BY <1>3, <1>9, <1>12, LentBetween, SameLoansTransitive
<1>18. Repays(w, k)
  BY <1>1, <1>6, <1>17, LentRepays, SameRepays DEF SameLoans
<1> QED BY <1>2, <1>6, <1>11, <1>15, <1>16, <1>17, <1>18 DEF h, u

\* The thread that unlock() of m wakes, if there is one.
Heir(m) == IF k.wait_queue[m] = <<>> THEN None ELSE Head(k.wait_queue[m])

\* What unlock() of m makes of the lives.
UnlockLives(r, m) ==
    /\ QueuesDistinct(r)
    /\ \A t \in AllThread :
          Life(r, t) = IF t = Heir(m) THEN Dequeued(Life(k, t), "DONE") ELSE Life(k, t)

\* What it makes of the loans: the owner u gives back what it inherited with
\* its last mutex, and the heir h does not run with a worse priority than the
\* owner had if others wait.
UnlockLoans(r, m) ==
    LET u == owner[m]
        h == Heir(m)
    IN  /\ r.mutex_count = IF protocol[m] = "NONE" THEN k.mutex_count
                           ELSE [k.mutex_count EXCEPT ![u] = k.mutex_count[u] - 1]
        /\ protocol[m] # "NONE" /\ r.priority_inherited[u] => r.mutex_count[u] # 0
        /\ \A t \in Thread :
             /\ r.priority_inherited[t] => k.priority_inherited[t] \/ t = h
             /\ t # u => r.priority[t] <= k.priority[t]
             /\ t # u /\ t # h => r.priority[t] = k.priority[t]
        /\ protocol[m] = "INHERIT" /\ h \in Thread \ {u} /\ OthersWait(m, h) =>
             r.priority[h] <= k.priority[u]

\* The loans that uncount_mutex() leaves after the heir's.
LEMMA UncountLoans ==
    ASSUME NEW m, NEW w \in KernelState, k \in KernelState, owner[m] \in Thread, NEW r,
           \/ SameLoans(w, k) /\ (protocol[m] # "INHERIT" \/ ~OthersWait(m, Heir(m))
                                    \/ Heir(m) \notin Thread)
           \/ Heir(m) \in Thread /\ Lent(w, k, Heir(m), k.priority[owner[m]]),
           IF protocol[m] = "NONE" THEN r = w
           ELSE \E c \in KernelState : Counted(c, w, owner[m], -1) /\ Cleared(r, c, owner[m])
    PROVE  UnlockLoans(r, m)
<1> DEFINE u == owner[m]
           h == Heir(m)
           p == k.priority[u]
<1>1. /\ k.priority \in [AllThread -> Int] /\ k.original_priority \in [AllThread -> Int]
      /\ k.priority_inherited \in [AllThread -> BOOLEAN]
      /\ k.mutex_count \in [AllThread -> Int]
      /\ \A t \in Thread : t \in AllThread
      /\ u \in Thread /\ p \in Int
  BY LoanTypes
<1>2. /\ w.priority \in [AllThread -> Int] /\ w.original_priority \in [AllThread -> Int]
      /\ w.priority_inherited \in [AllThread -> BOOLEAN]
      /\ w.mutex_count \in [AllThread -> Int]
  BY LoanTypes
<1>3. /\ w.mutex_count = k.mutex_count
      /\ \A t \in Thread :
           /\ w.priority_inherited[t] => k.priority_inherited[t] \/ t = h
           /\ w.priority[t] <= k.priority[t]
           /\ t # h => w.priority[t] = k.priority[t]
      /\ protocol[m] = "INHERIT" /\ h \in Thread /\ OthersWait(m, h) => w.priority[h] <= p
  <2>1. CASE /\ SameLoans(w, k)
             /\ protocol[m] # "INHERIT" \/ ~OthersWait(m, h) \/ h \notin Thread
    BY <1>1, <2>1 DEF SameLoans
  <2>2. CASE h \in Thread /\ Lent(w, k, h, p)
    <3> HIDE DEF h, p, u
    <3>1. CASE p >= k.priority[h]
      BY <1>1, <2>2, <3>1 DEF Lent, SameLoans
    <3>2. CASE p < k.priority[h]
      BY <1>1, <2>2, <3>2 DEF Lent, Loan
    <3> QED BY <1>1, <2>2, <3>1, <3>2
  <2> QED BY <2>1, <2>2
<1>4. CASE protocol[m] = "NONE"
  <2>1. r = w
    BY <1>4
  <2> HIDE DEF h, u, p
  <2>2. UnlockLoans(r, m) <=>
          /\ r.mutex_count = k.mutex_count
          /\ \A t \in Thread :
               /\ r.priority_inherited[t] => k.priority_inherited[t] \/ t = h
               /\ t # u => r.priority[t] <= k.priority[t]
               /\ t # u /\ t # h => r.priority[t] = k.priority[t]
    BY <1>4 DEF UnlockLoans, u, h
  <2> QED BY <1>1, <1>2, <1>3, <2>1, <2>2
<1>5. CASE protocol[m] # "NONE"
  <2>1. PICK c \in KernelState : Counted(c, w, u, -1) /\ Cleared(r, c, u)
    BY <1>5
  <2> HIDE DEF h, u, p
  <2>2. /\ c.priority = w.priority /\ c.priority_inherited = w.priority_inherited
        /\ c.mutex_count = [k.mutex_count EXCEPT ![u] = k.mutex_count[u] - 1]
        /\ c.mutex_count[u] \in Int
    BY <1>1, <1>2, <1>3, <2>1, LoanTypes DEF Counted
  <2>3. /\ r.mutex_count = c.mutex_count
        /\ r.priority_inherited[u] => r.mutex_count[u] # 0
        /\ \A t \in Thread :
             /\ r.priority_inherited[t] => w.priority_inherited[t]
             /\ t # u => r.priority[t] = w.priority[t]
    <3>1. CASE c.mutex_count[u] # 0 \/ ~c.priority_inherited[u]
      BY <2>1, <2>2, <3>1 DEF Cleared, SameLoans
    <3>2. CASE c.mutex_count[u] = 0 /\ c.priority_inherited[u]
      BY <1>1, <1>2, <2>1, <2>2, <3>2 DEF Cleared, Loan
    <3> QED BY <3>1, <3>2
  <2>4. /\ r.mutex_count = [k.mutex_count EXCEPT ![u] = k.mutex_count[u] - 1]
        /\ r.priority_inherited[u] => r.mutex_count[u] # 0
        /\ \A t \in Thread :
             /\ r.priority_inherited[t] => k.priority_inherited[t] \/ t = h
             /\ t # u => r.priority[t] <= k.priority[t]
             /\ t # u /\ t # h => r.priority[t] = k.priority[t]
        /\ protocol[m] = "INHERIT" /\ h \in Thread \ {u} /\ OthersWait(m, h) =>
             r.priority[h] <= p
    BY <1>1, <1>2, <1>3, <2>2, <2>3
  <2> QED BY <1>5, <2>4 DEF UnlockLoans, u, h, p
<1> QED BY <1>4, <1>5

\* unlock() frees a mutex.
LEMMA UnlockedFacts ==
    ASSUME KInv, NEW m \in WaitQueue, owner[m] \in Thread,
           Settled(k, owner[m]), \A t \in AllThread : m \in Life(k, t).on => t \in Thread
    PROVE  LET r == Unlocked(m)
           IN  /\ KernelInv(r) /\ Keeps(r, k) /\ Repays(r, k)
               /\ UnlockLives(r, m) /\ UnlockLoans(r, m)
               /\ Heir(m) = None \/ (Heir(m) \in Thread /\ m \in Life(k, Heir(m)).on)
               /\ Heir(m) = None => \A t \in AllThread : m \notin Life(k, t).on
<1> DEFINE u == owner[m]
           h == Heir(m)
           w == IF k.wait_queue[m] = <<>> THEN k ELSE WakeHeir(m)
           r == UncountMutex(w, m, u)
<1>1. /\ KernelInv(k) /\ QueuesDistinct(k) /\ k \in KernelState
      /\ u \in Thread /\ u \in AllThread /\ u # Idle /\ None \notin AllThread
  BY KInvFacts, MutexAssumption
<1>2. Unlocked(m) = r
  BY DEF Unlocked
<1>3. /\ h = None \/ (h \in Thread /\ m \in Life(k, h).on)
      /\ h = None => \A t \in AllThread : m \notin Life(k, t).on
  <2>1. /\ k.wait_queue[m] # <<>> <=> \E t \in AllThread : m \in Life(k, t).on
        /\ k.wait_queue[m] # <<>> =>
             Head(k.wait_queue[m]) \in AllThread /\ m \in Life(k, Head(k.wait_queue[m])).on
    BY <1>1, QueueLife
  <2>2. CASE k.wait_queue[m] = <<>>
    <3>1. h = None
      BY <2>2 DEF Heir
    <3>2. \A t \in AllThread : m \notin Life(k, t).on
      BY <2>1, <2>2
    <3> QED BY <3>1, <3>2
  <2>3. CASE k.wait_queue[m] # <<>>
    <3>1. h = Head(k.wait_queue[m])
      BY <2>3 DEF Heir
    <3>2. h \in AllThread /\ m \in Life(k, h).on
      BY <2>1, <2>3, <3>1
    <3> QED BY <1>1, <3>2
  <2> QED BY <2>2, <2>3
<1>4. /\ KernelInv(w) /\ Keeps(w, k) /\ Repays(w, k) /\ UnlockLives(w, m)
      /\ \/ SameLoans(w, k) /\ (protocol[m] # "INHERIT" \/ ~OthersWait(m, h) \/ h \notin Thread)
         \/ h \in Thread /\ Lent(w, k, h, k.priority[u])
  <2>1. CASE k.wait_queue[m] = <<>>
    <3>1. w = k /\ h = None /\ h \notin Thread
      BY <1>1, <2>1 DEF Heir, AllThread
    <3>2. Quiet(w, k) /\ Repays(w, k) /\ SameLoans(w, k)
      BY <1>1, <3>1, QuietSelf
    <3>3. UnlockLives(w, m)
      BY <1>1, <3>1 DEF UnlockLives
    <3> QED BY <3>1, <3>2, <3>3 DEF Quiet
  <2>2. CASE k.wait_queue[m] # <<>>
    <3>1. w = WakeHeir(m) /\ h = Head(k.wait_queue[m]) /\ h \in Thread
      BY <1>1, <1>3, <2>2, QueueLife DEF Heir
    <3>2. /\ KernelInv(w) /\ Keeps(w, k) /\ Repays(w, k)
          /\ Only(w, k, h, Dequeued(Life(k, h), "DONE"))
          /\ IF protocol[m] = "INHERIT" /\ OthersWait(m, h)
             THEN Lent(w, k, h, k.priority[u])
             ELSE SameLoans(w, k)
      BY <2>2, <3>1, WakeHeirFacts
    <3>3. UnlockLives(w, m)
      BY <1>1, <3>1, <3>2 DEF UnlockLives, Only
    <3> QED BY <3>1, <3>2, <3>3
  <2> QED BY <2>1, <2>2
<1> HIDE DEF w, h, u
<1>5. QueuesDistinct(w) /\ Settled(w, u) /\ w \in KernelState
  BY <1>1, <1>4 DEF UnlockLives, Settled, KernelInv, Dequeued, u
<1>6. /\ Quiet(r, w) /\ Repays(r, w)
      /\ IF protocol[m] = "NONE" THEN r = w
         ELSE \E c \in KernelState : Counted(c, w, u, -1) /\ Cleared(r, c, u)
  BY <1>1, <1>4, <1>5, UncountMutexFacts
<1> HIDE DEF r
<1>7. UnlockLives(r, m)
  BY <1>4, <1>6 DEF UnlockLives, Quiet, Same
<1>8. UnlockLoans(r, m)
  BY <1>1, <1>4, <1>5, <1>6, UncountLoans DEF u, h
<1>9. KernelInv(r) /\ Keeps(r, k) /\ Repays(r, k)
  BY <1>4, <1>6, KeepsTransitive, RepaysTransitive DEF Quiet
<1> QED BY <1>2, <1>3, <1>7, <1>8, <1>9 DEF h, u

-----------------------------------------------------------------------------
(* The invariant of mutexes and condition variables *)

AtLock == {"lock", "cvlock"}
AtCond == {"cwait", "ctwait"}
MutexPC == PC \cup AtLock \cup AtCond \cup {"relock"}

\* A thread with life l that is at p in a call on mutex x: it sleeps on the
\* mutex or on a condition variable exactly while it is in the wait for it.
MxOK(l, p, x) ==
    /\ p \in MutexPC
    /\ p \notin PC => x \in Mutexes
    /\ p \in PC \cup {"relock"} => SleeperOK(l, {})
    /\ p \in AtLock => SleeperOK(l, {x})
    /\ p \in AtCond => \E v \in Condvars : SleeperOK(l, {v})

\* It has been woken to claim m.
Claims(l, p, x, m) == p \in AtLock /\ x = m /\ l.wake = "DONE"

MutexTypes ==
    /\ owner \in [Mutexes -> Thread \cup {None}]
    /\ protocol \in [Mutexes -> Protocols]
    /\ ceiling \in [Mutexes -> Ceilings]
    /\ mx = [t \in AllThread |-> mx[t]]

\* The inductive invariant.  Of a mutex that is free while threads sleep on
\* it, it says more than that somebody is coming: the queue of a mutex holds
\* threads in lock() only, so that the thread unlock() wakes is one of them.
MutexInv ==
    /\ KInv
    /\ MutexTypes
    /\ \A t \in AllThread : MxOK(Life(k, t), pc[t], mx[t])
    /\ NoLostWakeup
    /\ \A t \in Thread : InLock(t) => owner[mx[t]] # t
    /\ LoansOK(k)

\* Nobody is lost on m: it is owned, or somebody claims it, or nobody sleeps.
Covered(m) ==
    \/ owner[m] # None
    \/ \E t \in Thread : Claims(Life(k, t), pc[t], mx[t], m)
    \/ \A t \in AllThread : m \notin Life(k, t).on

\* NoLostWakeup in terms of lives.
LEMMA LostWakeupIsCovered ==
    k \in KernelState => (NoLostWakeup <=> \A m \in Mutexes : Covered(m))
<1> SUFFICES ASSUME k \in KernelState
             PROVE  NoLostWakeup <=> \A m \in Mutexes : Covered(m)
  OBVIOUS
<1>1. \A m \in Mutexes : m \in WaitQueue
  BY MutexAssumption
<1>2. \A m \in Mutexes : k.wait_queue[m] # <<>> <=> \E t \in AllThread : m \in Life(k, t).on
  BY <1>1, QueueLife
<1>3. \A t, m : Claims(Life(k, t), pc[t], mx[t], m)
                  <=> InLock(t) /\ mx[t] = m /\ k.wake_reason[t] = "DONE"
  BY DEF Claims, Life, InLock, AtLock
<1>4. ASSUME NEW m \in Mutexes
      PROVE  Covered(m) <=>
               (owner[m] = None /\ k.wait_queue[m] # <<>> =>
                  \E t \in Thread : InLock(t) /\ mx[t] = m /\ k.wake_reason[t] = "DONE")
  BY <1>2, <1>3, <1>4 DEF Covered
<1> QED BY <1>4 DEF NoLostWakeup

\* A step to lives of state n, in which only thread s moves on, loses nobody
\* that sleeps on m.
StaysCovered(n, s, m) ==
    \/ owner'[m] # None
    \/ \E t \in Thread \ {s} : Claims(Life(n, t), pc[t], mx[t], m)
    \/ \A t \in AllThread : m \notin Life(n, t).on
    \/ /\ owner[m] = None
       /\ \A t \in AllThread : m \in Life(n, t).on => m \in Life(k, t).on
       /\ \A t \in Thread \ {s} : Life(k, t).wake = "DONE" => Life(n, t).wake = "DONE"
       /\ ~Claims(Life(k, s), pc[s], mx[s], m)

\* A step in which thread s moves to c, in a call on x, keeps the invariant if
\* it leaves every thread right and loses nobody.
LEMMA MutexCore ==
    ASSUME MutexInv, KInv', NEW s \in AllThread, NEW c, NEW x,
           pc' = [pc EXCEPT ![s] = c], mx' = [mx EXCEPT ![s] = x],
           owner' \in [Mutexes -> Thread \cup {None}],
           protocol' \in [Mutexes -> Protocols], ceiling' \in [Mutexes -> Ceilings],
           MxOK(Life(k', s), c, x),
           \A t \in AllThread \ {s} : MxOK(Life(k', t), pc[t], mx[t]),
           \A m \in Mutexes : owner'[m] \in {owner[m], s, None} /\ StaysCovered(k', s, m),
           c \in AtLock => owner'[x] # s,
           LoansOK(k')
    PROVE  MutexInv'
<1>1. /\ pc = [t \in AllThread |-> pc[t]] /\ mx = [t \in AllThread |-> mx[t]]
      /\ k \in KernelState /\ k' \in KernelState
  BY DEF MutexInv, MutexTypes, KInv, KernelInv
<1>2. /\ pc'[s] = c /\ mx'[s] = x
      /\ \A t \in AllThread \ {s} : pc'[t] = pc[t] /\ mx'[t] = mx[t]
      /\ mx' = [t \in AllThread |-> mx'[t]]
  BY <1>1
<1>3. MutexTypes'
  BY <1>2 DEF MutexTypes
<1>4. \A t \in AllThread : MxOK(Life(k', t), pc'[t], mx'[t])
  BY <1>2
<1>5. \A t \in Thread : t \in AllThread
  BY DEF AllThread
<1>6. ASSUME NEW t \in Thread, pc'[t] \in AtLock
      PROVE  owner'[mx'[t]] # t
  <2>1. CASE t = s
    BY <1>2, <1>6, <2>1
  <2>2. CASE t # s
    <3>1. /\ pc[t] \in AtLock /\ mx'[t] = mx[t]
      BY <1>2, <1>5, <1>6, <2>2
    <3>2. owner[mx[t]] # t /\ mx[t] \in Mutexes
      <4>1. MxOK(Life(k, t), pc[t], mx[t])
        BY <1>5 DEF MutexInv
      <4> QED BY <3>1, <4>1 DEF MutexInv, InLock, AtLock, MxOK, PC
    <3>3. owner'[mx[t]] \in {owner[mx[t]], s, None} /\ t # None
      BY <1>5, <3>2, MutexAssumption
    <3> QED BY <2>2, <3>1, <3>2, <3>3
  <2> QED BY <2>1, <2>2
<1>7. ASSUME NEW m \in Mutexes
      PROVE  Covered(m)'
  <2>1. CASE owner'[m] # None
    BY <2>1 DEF Covered
  <2>2. CASE \E t \in Thread \ {s} : Claims(Life(k', t), pc[t], mx[t], m)
    <3>1. PICK t \in Thread \ {s} : Claims(Life(k', t), pc[t], mx[t], m)
      BY <2>2
    <3>2. Claims(Life(k', t), pc'[t], mx'[t], m)
      BY <1>2, <1>5, <3>1
    <3> QED BY <3>2 DEF Covered
  <2>3. CASE \A t \in AllThread : m \notin Life(k', t).on
    BY <2>3 DEF Covered
  <2>4. CASE /\ owner[m] = None
             /\ \A t \in AllThread : m \in Life(k', t).on => m \in Life(k, t).on
             /\ \A t \in Thread \ {s} : Life(k, t).wake = "DONE" => Life(k', t).wake = "DONE"
             /\ ~Claims(Life(k, s), pc[s], mx[s], m)
    <3>1. Covered(m)
      BY <1>1, LostWakeupIsCovered DEF MutexInv
    <3>2. CASE \A t \in AllThread : m \notin Life(k, t).on
      BY <2>4, <3>2 DEF Covered
    <3>3. CASE \E t \in Thread : Claims(Life(k, t), pc[t], mx[t], m)
      <4>1. PICK t \in Thread : Claims(Life(k, t), pc[t], mx[t], m)
        BY <3>3
      <4>2. t # s
        BY <2>4, <4>1
      <4>3. Claims(Life(k', t), pc'[t], mx'[t], m)
        BY <1>2, <1>5, <2>4, <4>1, <4>2 DEF Claims
      <4> QED BY <4>1, <4>3 DEF Covered
    <3> QED BY <2>4, <3>1, <3>2, <3>3 DEF Covered
  <2> QED BY <1>7, <2>1, <2>2, <2>3, <2>4 DEF StaysCovered
<1>8. NoLostWakeup'
  <2>1. (k \in KernelState => (NoLostWakeup <=> \A m \in Mutexes : Covered(m)))'
    BY LostWakeupIsCovered, PTL
  <2> QED BY <1>1, <1>7, <2>1
<1> QED BY <1>3, <1>4, <1>6, <1>8 DEF MutexInv, InLock, AtLock

-----------------------------------------------------------------------------
(* Every step keeps the invariant *)

\* A thread back from a condition wait owns the mutex, or has exited.
CondReturns ==
    \A t \in Thread :
        pc[t] \in AtCond \cup {"relock", "cvlock"} /\ pc'[t] = "user" =>
            owner'[mx[t]] = t \/ "EXITED" \in k'.state[t]

GoodStep == MutexInv' /\ Repays(k', k) /\ CondReturns

\* A thread that runs is on no queue.
LEMMA MxSettled ==
    ASSUME NEW l, NEW p, NEW x, MxOK(l, p, x)
    PROVE  /\ l.state = {} => l.on = {} /\ SleeperOK(l, {})
           /\ \A m \in Mutexes : m \in l.on => p \in AtLock /\ x = m /\ l.sleep # "NONE"
                                               /\ l.wake = "NONE"
           /\ \A v \in Condvars : v \in l.on => p \in AtCond
BY MutexAssumption DEF MxOK, SleeperOK, MutexPC

\* What the steps below use of the invariant.
LEMMA MutexFacts ==
    ASSUME MutexInv
    PROVE  /\ KInv /\ KernelInv(k) /\ QueuesDistinct(k) /\ k \in KernelState /\ LoansOK(k)
           /\ self \in AllThread /\ self = k.current
           /\ k.sched_lock \in {"thread", "inner"} => Life(k, self).state = {}
           /\ \A t \in AllThread : Settled(k, t) /\ MxOK(Life(k, t), pc[t], mx[t])
           /\ \A t \in Thread : t \in AllThread /\ t # Idle /\ t # None
           /\ \A t \in AllThread : t \in Thread \/ t = Idle
           /\ \A m \in Mutexes : m \in WaitQueue /\ owner[m] \in Thread \cup {None}
           /\ \A t \in AllThread, m \in Mutexes :
                 m \in Life(k, t).on => t \in Thread /\ pc[t] \in AtLock /\ mx[t] = m
                                          /\ Life(k, t).wake = "NONE"
           /\ pc[Idle] = "user" /\ pc = [t \in AllThread |-> pc[t]]
           /\ mx = [t \in AllThread |-> mx[t]]
<1>1. KInv /\ \A t \in AllThread : MxOK(Life(k, t), pc[t], mx[t])
  BY DEF MutexInv
<1>2. \A t \in AllThread : Settled(k, t)
  BY <1>1, MxSettled DEF Settled
<1>3. \A t \in Thread : t \in AllThread /\ t # Idle /\ t # None
  BY <1>1, KInvFacts, MutexAssumption
<1>4. \A m \in Mutexes : m \in WaitQueue /\ owner[m] \in Thread \cup {None}
  BY MutexAssumption DEF MutexInv, MutexTypes
<1>5. pc[Idle] = "user" /\ pc = [t \in AllThread |-> pc[t]]
  BY DEF MutexInv, KInv
<1>6. ASSUME NEW t \in AllThread, NEW m \in Mutexes, m \in Life(k, t).on
      PROVE  t \in Thread /\ pc[t] \in AtLock /\ mx[t] = m /\ Life(k, t).wake = "NONE"
  <2>1. pc[t] \in AtLock /\ mx[t] = m /\ Life(k, t).wake = "NONE"
    BY <1>1, <1>6, MxSettled
  <2>2. t # Idle
    BY <1>5, <2>1 DEF AtLock
  <2> QED BY <2>1, <2>2 DEF AllThread
<1>7. LoansOK(k) /\ mx = [t \in AllThread |-> mx[t]]
  BY DEF MutexInv, MutexTypes
<1> QED BY <1>1, <1>2, <1>3, <1>4, <1>5, <1>6, <1>7, KInvFacts DEF AllThread

\* An operation that ends in unlock() or in reschedule() and in which thread s
\* moves on.
LEMMA MutexTurnOf ==
    ASSUME MutexInv, NEW n, KernelInv(n), QueuesDistinct(n), Repays(n, k),
           k' = Unlock(n) \/ k' = Reschedule(n), UNCHANGED ticks,
           NEW s \in AllThread, NEW c, NEW x, s = Idle => c = "user",
           pc' = [pc EXCEPT ![s] = c], mx' = [mx EXCEPT ![s] = x],
           owner' \in [Mutexes -> Thread \cup {None}],
           protocol' \in [Mutexes -> Protocols], ceiling' \in [Mutexes -> Ceilings],
           MxOK(Life(n, s), c, x),
           \A t \in AllThread \ {s} : MxOK(Life(n, t), pc[t], mx[t]),
           \A m \in Mutexes : owner'[m] \in {owner[m], s, None} /\ StaysCovered(n, s, m),
           c \in AtLock => owner'[x] # s,
           pc[s] \in AtCond \cup {"relock", "cvlock"} /\ c = "user" =>
               owner'[mx[s]] = s \/ "EXITED" \in Life(n, s).state
    PROVE  GoodStep
<1>1. KInv /\ LoansOK(k) /\ \A t \in Thread : t \in AllThread
  BY MutexFacts
<1>2. KernelInv(k') /\ CurrentOK(k')
  BY UnlockFacts, RescheduleFacts
<1>3. QueuesDistinct(k') /\ \A t \in AllThread : Life(k', t) = Life(n, t)
  BY LockLife DEF Same
<1>4. n \in KernelState
  BY DEF KernelInv
<1>5. Repays(k', n)
  BY <1>4, LockLoans, SameRepays DEF SameLoans
<1>6. Repays(k', k)
  BY <1>5, RepaysTransitive
<1>7. pc' = [t \in AllThread |-> pc'[t]] /\ pc'[Idle] = "user" /\ pc'[s] = c
      /\ \A t \in AllThread \ {s} : pc'[t] = pc[t]
  BY <1>1 DEF KInv, AllThread
<1>8. KInv'
  BY <1>1, <1>2, <1>3, <1>7 DEF KInv
<1>9. ASSUME NEW m \in Mutexes
      PROVE  StaysCovered(k', s, m)
  <2>1. StaysCovered(n, s, m)
    OBVIOUS
  <2> QED BY <1>1, <1>3, <2>1 DEF StaysCovered
<1>10. LoansOK(k')
  BY <1>1, <1>6 DEF Repays
<1>11. /\ MxOK(Life(k', s), c, x)
       /\ \A t \in AllThread \ {s} : MxOK(Life(k', t), pc[t], mx[t])
       /\ \A m \in Mutexes : owner'[m] \in {owner[m], s, None} /\ StaysCovered(k', s, m)
  BY <1>3, <1>9
<1>12. MutexInv'
  BY <1>8, <1>10, <1>11, MutexCore
<1>13. CondReturns
  <2> SUFFICES ASSUME NEW t \in Thread, pc[t] \in AtCond \cup {"relock", "cvlock"},
                      pc'[t] = "user"
               PROVE  owner'[mx[t]] = t \/ "EXITED" \in k'.state[t]
    BY DEF CondReturns
  <2>1. t = s
    BY <1>1, <1>7 DEF AtCond
  <2>2. Life(n, s).state = k'.state[s]
    BY <1>3 DEF Life
  <2> QED BY <1>7, <2>1, <2>2
<1> QED BY <1>6, <1>12, <1>13 DEF GoodStep

\* The same for the current thread.
LEMMA MutexTurn ==
    ASSUME MutexInv, NEW n, KernelInv(n), QueuesDistinct(n), Repays(n, k),
           k' = Unlock(n) \/ k' = Reschedule(n), UNCHANGED ticks,
           NEW c, NEW x, self = Idle => c = "user",
           pc' = [pc EXCEPT ![self] = c], mx' = [mx EXCEPT ![self] = x],
           owner' \in [Mutexes -> Thread \cup {None}],
           protocol' \in [Mutexes -> Protocols], ceiling' \in [Mutexes -> Ceilings],
           MxOK(Life(n, self), c, x),
           \A t \in AllThread \ {self} : MxOK(Life(n, t), pc[t], mx[t]),
           \A m \in Mutexes : owner'[m] \in {owner[m], self, None} /\ StaysCovered(n, self, m),
           c \in AtLock => owner'[x] # self,
           pc[self] \in AtCond \cup {"relock", "cvlock"} /\ c = "user" =>
               owner'[mx[self]] = self \/ "EXITED" \in Life(n, self).state
    PROVE  GoodStep
<1> DEFINE s == self
<1>1. /\ s \in AllThread
      /\ s = Idle => c = "user"
      /\ pc' = [pc EXCEPT ![s] = c] /\ mx' = [mx EXCEPT ![s] = x]
      /\ MxOK(Life(n, s), c, x)
      /\ \A t \in AllThread \ {s} : MxOK(Life(n, t), pc[t], mx[t])
      /\ \A m \in Mutexes : owner'[m] \in {owner[m], s, None} /\ StaysCovered(n, s, m)
      /\ c \in AtLock => owner'[x] # s
      /\ pc[s] \in AtCond \cup {"relock", "cvlock"} /\ c = "user" =>
           owner'[mx[s]] = s \/ "EXITED" \in Life(n, s).state
  BY MutexFacts
<1> HIDE DEF s
<1> QED BY <1>1, MutexTurnOf

\* A step that leaves the lives alone, and lets self own m or not, loses nobody.
LEMMA QuietCovered ==
    ASSUME MutexInv, NEW n, Same(n, k), NEW m \in Mutexes,
           owner'[m] = None => owner[m] = None,
           owner[m] = None /\ owner'[m] = None => ~Claims(Life(k, self), pc[self], mx[self], m)
    PROVE  StaysCovered(n, self, m)
<1>1. /\ \A t \in AllThread : Life(n, t) = Life(k, t)
      /\ \A t \in Thread : t \in AllThread
  BY MutexFacts DEF Same
<1> QED BY <1>1 DEF StaysCovered

\* set_sleep_reason(), sleep() and enqueue() leave the loans alone.
LEMMA BlockLoans ==
    ASSUME NEW n, KernelInv(n), n.current # Idle, NEW r \in SleepReason, NEW q
    PROVE  SameLoans(Enqueue(Sleep(SetSleepReason(n, r)), q, n.current), n)
<1> DEFINE k1 == SetSleepReason(n, r)
           k2 == Sleep(k1)
<1>1. KernelInv(k1) /\ SameLoans(k1, n) /\ k1.current # Idle
  BY SetSleepReasonInv, ReasonLoans DEF Keeps, KernelInv
<1> HIDE DEF k1
<1>2. KernelInv(k2) /\ SameLoans(k2, k1)
  BY <1>1, SleepInv, StateLoans DEF KernelInv
<1> HIDE DEF k2
<1>3. SameLoans(Enqueue(k2, q, n.current), k2)
  BY <1>2, QueueLoans DEF KernelInv
<1> QED BY <1>1, <1>2, <1>3, SameLoansTransitive DEF k1, k2

\* A turn of the loop of lock(): the thread takes the mutex or sleeps on it.
LEMMA AcquireInv ==
    ASSUME MutexInv, NEW n, Quiet(n, k), Repays(n, k), NEW m \in Mutexes, NEW at \in AtLock,
           self \in Thread, Life(k, self).state = {}, owner[m] # self,
           Acquire(n, m, at), mx' = [mx EXCEPT ![self] = m],
           UNCHANGED <<ticks, protocol, ceiling>>,
           pc[self] # "user" => mx[self] = m
    PROVE  GoodStep
<1> DEFINE l == Life(k, self)
<1>1. /\ KInv /\ KernelInv(k) /\ QueuesDistinct(k) /\ k \in KernelState
      /\ self \in AllThread /\ self # Idle /\ self = k.current /\ self # None
      /\ m \in WaitQueue /\ owner[m] \in Thread \cup {None}
      /\ \A t \in AllThread : MxOK(Life(k, t), pc[t], mx[t])
      /\ \A t \in Thread : t \in AllThread
  BY MutexFacts
<1>2. /\ KernelInv(n) /\ QueuesDistinct(n) /\ n.current = self
      /\ \A t \in AllThread : Life(n, t) = Life(k, t)
  BY <1>1 DEF Quiet, Same, Keeps
<1>3. SleeperOK(l, {}) /\ l.on = {}
  BY <1>1, MxSettled
<1>4. \A q \in Mutexes \ {m} : ~Claims(l, pc[self], mx[self], q)
  BY DEF Claims, AtLock
<1>5. owner \in [Mutexes -> Thread \cup {None}] /\ protocol' \in [Mutexes -> Protocols]
      /\ ceiling' \in [Mutexes -> Ceilings]
  BY DEF MutexInv, MutexTypes
<1>6. CASE /\ owner[m] = None /\ k' = Unlock(n)
           /\ owner' = [owner EXCEPT ![m] = self]
           /\ pc' = [pc EXCEPT ![self] = "user"]
  <2>1. owner' \in [Mutexes -> Thread \cup {None}] /\ owner'[m] = self
        /\ \A q \in Mutexes \ {m} : owner'[q] = owner[q]
    BY <1>5, <1>6
  <2>2. MxOK(Life(n, self), "user", m)
    BY <1>1, <1>2, <1>3 DEF MxOK, MutexPC, PC, AtLock, AtCond
  <2>3. \A q \in Mutexes : owner'[q] \in {owner[q], self, None}
                             /\ StaysCovered(n, self, q)
    <3> SUFFICES ASSUME NEW q \in Mutexes
                 PROVE  owner'[q] \in {owner[q], self, None} /\ StaysCovered(n, self, q)
      OBVIOUS
    <3>1. owner'[q] = None => owner[q] = None /\ q # m
      BY <1>1, <2>1
    <3>2. Same(n, k)
      BY DEF Quiet
    <3>3. StaysCovered(n, self, q)
      BY <1>4, <3>1, <3>2, QuietCovered
    <3> QED BY <2>1, <3>3
  <2>4. /\ "user" \notin AtLock
        /\ pc[self] \in AtCond \cup {"relock", "cvlock"} => owner'[mx[self]] = self
    BY <2>1 DEF AtLock, AtCond
  <2> QED BY <1>1, <1>2, <1>5, <1>6, <2>1, <2>2, <2>3, <2>4, MutexTurn
<1>7. CASE /\ owner[m] # None
           /\ k' = Reschedule(Inherit(Enqueue(Sleep(SetSleepReason(n, "WAIT")), m, self), m, self))
           /\ pc' = [pc EXCEPT ![self] = at] /\ UNCHANGED owner
  <2> DEFINE k2 == Enqueue(Sleep(SetSleepReason(n, "WAIT")), m, self)
             r  == Inherit(k2, m, self)
             o  == owner[m]
             b  == Blocked(l, "WAIT", m)
  <2>1. KernelInv(k2) /\ Only(k2, n, self, b)
    BY <1>1, <1>2, <1>3, BlockLife DEF SleepReason
  <2>2. Repays(k2, n)
    <3>1. SameLoans(k2, n)
      BY <1>1, <1>2, BlockLoans DEF SleepReason
    <3> HIDE DEF k2
    <3> QED BY <3>1, SameRepays DEF SameLoans
  <2> HIDE DEF k2
  <2>3. o \in Thread /\ o \in AllThread /\ o # self
    BY <1>1, <1>7
  <2>4. QueuesDistinct(k2) /\ Life(k2, o) = Life(k, o) /\ Settled(k2, o)
    BY <1>2, <2>1, <2>3, MutexFacts DEF Only, Settled
  <2>5. Quiet(r, k2) /\ Repays(r, k2)
    BY <2>1, <2>3, <2>4, InheritFacts
  <2> HIDE DEF r, o
  <2>6. KernelInv(r) /\ Only(r, n, self, b) /\ Repays(r, k)
    BY <1>1, <2>1, <2>2, <2>5, OnlySame, RepaysTransitive DEF Quiet
  <2>7. /\ QueuesDistinct(r) /\ Life(r, self) = b
        /\ \A t \in AllThread \ {self} : Life(r, t) = Life(k, t)
    BY <1>2, <2>6 DEF Only
  <2>8. SleeperOK(b, {m}) /\ b.on = {m}
    BY <1>3, BlockedSleeper DEF SleepReason
  <2> HIDE DEF b
  <2>9. MxOK(Life(r, self), at, m)
    BY <2>7, <2>8 DEF MxOK, MutexPC, PC, AtLock, AtCond
  <2>10. \A q \in Mutexes : owner'[q] \in {owner[q], self, None}
                              /\ StaysCovered(r, self, q)
    <3> SUFFICES ASSUME NEW q \in Mutexes, owner[q] = None
                 PROVE  StaysCovered(r, self, q)
      BY <1>7 DEF StaysCovered
    <3>1. q # m
      BY <1>7
    <3>2. \A t \in AllThread : q \in Life(r, t).on => q \in Life(k, t).on
      BY <2>7, <2>8, <3>1
    <3>3. \A t \in Thread \ {self} : Life(r, t) = Life(k, t)
      BY <1>1, <2>7
    <3> QED BY <1>4, <3>1, <3>2, <3>3 DEF StaysCovered
  <2>11. owner'[m] # self /\ (at # "user") /\ owner' \in [Mutexes -> Thread \cup {None}]
    BY <1>5, <1>7 DEF AtLock
  <2>12. k' = Reschedule(r)
    BY <1>7 DEF r, k2
  <2>13. \A t \in AllThread \ {self} : MxOK(Life(r, t), pc[t], mx[t])
    BY <1>1, <2>7
  <2> QED BY <1>1, <1>5, <1>7, <2>6, <2>7, <2>9, <2>10, <2>11, <2>12, <2>13, MutexTurn
<1> QED BY <1>6, <1>7 DEF Acquire

\* A thread in application code, or about to lock its mutex again.
LEMMA MutexCaller ==
    ASSUME MutexInv, k.sched_lock = "thread", self # Idle
    PROVE  /\ self \in Thread /\ self \in AllThread /\ self = k.current
           /\ Life(k, self).state = {} /\ Life(k, self).on = {}
           /\ SleeperOK(Life(k, self), {}) /\ Settled(k, self)
           /\ pc = [pc EXCEPT ![self] = pc[self]] /\ mx = [mx EXCEPT ![self] = mx[self]]
BY MutexFacts, MxSettled

\* count_mutex() and set_priority_ceiling() at the start of lock() and trylock().
LEMMA ClaimFacts ==
    ASSUME MutexInv, k.sched_lock = "thread", self # Idle, NEW m \in Mutexes
    PROVE  LET n == RaiseToCeiling(CountMutex(k, m, self), m, self)
           IN  Quiet(n, k) /\ Repays(n, k)
<1> DEFINE k1 == CountMutex(k, m, self)
           n  == RaiseToCeiling(k1, m, self)
<1>1. KernelInv(k) /\ QueuesDistinct(k) /\ self \in Thread /\ self \in AllThread
      /\ Settled(k, self) /\ ceiling[m] \in UserPriority
  BY MutexFacts, MutexCaller, MutexAssumption DEF MutexInv, MutexTypes
<1>2. Quiet(k1, k) /\ Repays(k1, k)
  BY <1>1, CountMutexFacts
<1> HIDE DEF k1
<1>3. KernelInv(k1) /\ QueuesDistinct(k1) /\ Settled(k1, self)
  BY <1>1, <1>2 DEF Quiet, Same, Settled
<1>4. Quiet(n, k1) /\ Repays(n, k1)
  BY <1>1, <1>3, RaiseToCeilingFacts
<1> HIDE DEF n
<1> QED BY <1>2, <1>4, QuietTransitive, RepaysTransitive DEF n, k1

\* lock() up to its first turn of the loop.
LEMMA LockInv ==
    ASSUME MutexInv, k.sched_lock = "thread", self # Idle, NEW m \in Mutexes,
           NEW at \in AtLock, Lock(m, at), pc[self] # "user" => mx[self] = m
    PROVE  GoodStep
<1> DEFINE n == RaiseToCeiling(CountMutex(k, m, self), m, self)
<1>1. Quiet(n, k) /\ Repays(n, k)
  BY ClaimFacts
<1>2. /\ owner[m] # self /\ Acquire(n, m, at)
      /\ mx' = [mx EXCEPT ![self] = m] /\ UNCHANGED <<ticks, protocol, ceiling>>
  BY DEF Lock
<1>3. self \in Thread /\ Life(k, self).state = {}
  BY MutexCaller
<1> HIDE DEF n
<1> QED BY <1>1, <1>2, <1>3, AcquireInv

\* lock().
LEMMA MutexLockInv ==
    ASSUME MutexInv, NEW m \in Mutexes, MutexLock(m)
    PROVE  GoodStep
BY LockInv DEF MutexLock, InThread, AtLock

\* The end of a condition wait calls lock() again.
LEMMA CondRelockInv ==
    ASSUME MutexInv, CondRelock
    PROVE  GoodStep
<1>1. k.sched_lock = "thread" /\ pc[self] = "relock" /\ Lock(mx[self], "cvlock")
  BY DEF CondRelock
<1>2. self # Idle /\ mx[self] \in Mutexes
  BY <1>1, MutexFacts DEF MxOK, PC
<1> DEFINE m == mx[self]
<1>3. m \in Mutexes /\ m = mx[self] /\ Lock(m, "cvlock")
  BY <1>1, <1>2
<1> HIDE DEF m
<1> QED BY <1>1, <1>2, <1>3, LockInv DEF AtLock

\* exit() on the way out of a wait.
LEMMA MutexExitInv ==
    ASSUME MutexInv, self \in Thread, NEW n, KernelInv(n), n.current = self, Repays(n, k),
           NEW l, Only(n, k, self, l), l.state = {}, SleeperOK(l, {}),
           k' = Reschedule(Exit(n)), pc' = [pc EXCEPT ![self] = "user"],
           UNCHANGED <<ticks, owner, protocol, ceiling, mx>>,
           \A m \in Mutexes : ~Claims(Life(k, self), pc[self], mx[self], m)
    PROVE  GoodStep
<1> DEFINE r == Exit(n)
           e == Exited(l)
<1>1. /\ self \in AllThread /\ self # Idle /\ QueuesDistinct(n) /\ Life(n, self) = l
      /\ Runnable(n, n.current) /\ \A t \in Thread : t \in AllThread
  BY MutexFacts, LifeRunnable DEF Only
<1>2. KernelInv(r) /\ Only(r, n, self, e) /\ SameLoans(r, n)
  BY <1>1, ExitInv, ExitLife, ThreadLoans
<1> HIDE DEF r
<1>3. Only(r, k, self, e) /\ Repays(r, k)
  BY <1>1, <1>2, OnlyTransitive, SameRepays, RepaysTransitive DEF SameLoans
<1>4. SleeperOK(e, {}) /\ e.state = {"EXITED"} /\ e.on = {}
  BY DEF SleeperOK, Exited, TimerOff, WithState
<1> HIDE DEF e
<1>5. MxOK(e, "user", mx[self])
  BY <1>4 DEF MxOK, MutexPC, PC, AtLock, AtCond
<1>6. /\ QueuesDistinct(r) /\ Life(r, self) = e
      /\ \A t \in AllThread \ {self} : Life(r, t) = Life(k, t)
      /\ \A t \in AllThread \ {self} : MxOK(Life(r, t), pc[t], mx[t])
  BY <1>3, MutexFacts DEF Only
<1>7. ASSUME NEW m \in Mutexes
      PROVE  owner'[m] \in {owner[m], self, None} /\ StaysCovered(r, self, m)
  <2>1. \A t \in AllThread : m \in Life(r, t).on => m \in Life(k, t).on
    BY <1>4, <1>6
  <2>2. \A t \in Thread \ {self} : Life(r, t) = Life(k, t)
    BY <1>1, <1>6
  <2> QED BY <2>1, <2>2 DEF StaysCovered
<1>8. mx' = [mx EXCEPT ![self] = mx[self]] /\ "user" \notin AtLock
      /\ "EXITED" \in Life(r, self).state
  BY <1>4, <1>6, MutexFacts DEF AtLock
<1>9. /\ owner' \in [Mutexes -> Thread \cup {None}] /\ protocol' \in [Mutexes -> Protocols]
      /\ ceiling' \in [Mutexes -> Ceilings]
  BY DEF MutexInv, MutexTypes
<1>10. MxOK(Life(r, self), "user", mx[self]) /\ k' = Reschedule(r)
  BY <1>5, <1>6 DEF r
<1> QED BY <1>1, <1>2, <1>3, <1>6, <1>7, <1>8, <1>9, <1>10, MutexTurn

\* A call that changes no life and does not give up a claim.
LEMMA MutexQuietInv ==
    ASSUME MutexInv, NEW n, Quiet(n, k), Repays(n, k), k' = Unlock(n), UNCHANGED <<ticks, mx>>,
           NEW c, pc' = [pc EXCEPT ![self] = c], self = Idle => c = "user",
           owner' \in [Mutexes -> Thread \cup {None}],
           protocol' \in [Mutexes -> Protocols], ceiling' \in [Mutexes -> Ceilings],
           MxOK(Life(k, self), c, mx[self]), c \notin AtLock,
           \A m \in Mutexes :
              /\ owner'[m] \in {owner[m], self, None}
              /\ owner'[m] = None => owner[m] = None
              /\ ~Claims(Life(k, self), pc[self], mx[self], m),
           pc[self] \in AtCond \cup {"relock", "cvlock"} => c # "user"
    PROVE  GoodStep
<1>1. /\ Same(n, k) /\ KernelInv(n) /\ QueuesDistinct(n)
      /\ \A t \in AllThread : Life(n, t) = Life(k, t)
      /\ self \in AllThread
  BY MutexFacts DEF Quiet, Same
<1>2. /\ mx' = [mx EXCEPT ![self] = mx[self]]
      /\ MxOK(Life(n, self), c, mx[self])
      /\ \A t \in AllThread \ {self} : MxOK(Life(n, t), pc[t], mx[t])
  BY <1>1, MutexFacts
<1>3. \A m \in Mutexes : owner'[m] \in {owner[m], self, None} /\ StaysCovered(n, self, m)
  BY <1>1, QuietCovered
<1> QED BY <1>1, <1>2, <1>3, MutexTurn

\* lock() back from the reschedule() of its loop.
LEMMA MutexLockWokenInv ==
    ASSUME MutexInv, MutexLockWoken
    PROVE  GoodStep
<1> DEFINE m == mx[self]
           l == Life(k, self)
<1>1. /\ k.sched_lock = "inner" /\ pc[self] \in AtLock
      /\ UNCHANGED <<ticks, protocol, ceiling, mx>>
      /\ \/ /\ k.wake_reason[self] = "EXIT" /\ k' = Reschedule(Exit(k))
            /\ pc' = [pc EXCEPT ![self] = "user"] /\ UNCHANGED owner
         \/ /\ k.wake_reason[self] \in {"DESTRUCT", "BREAK"}
            /\ k' = Unlock(UncountMutex(k, m, self))
            /\ pc' = [pc EXCEPT ![self] = IF @ = "lock" THEN "user" ELSE "relock"]
            /\ UNCHANGED owner
         \/ Acquire(k, m, pc[self])
  BY DEF MutexLockWoken, AtLock
<1>2. /\ KernelInv(k) /\ QueuesDistinct(k) /\ Settled(k, self)
      /\ self \in Thread /\ self \in AllThread /\ self = k.current
      /\ l.state = {} /\ SleeperOK(l, {}) /\ m \in Mutexes /\ l.wake = k.wake_reason[self]
      /\ MxOK(l, pc[self], m) /\ pc = [t \in AllThread |-> pc[t]]
      /\ mx = [mx EXCEPT ![self] = m]
  <2>1. self \in AllThread /\ self # Idle /\ l.state = {} /\ MxOK(l, pc[self], m)
    BY <1>1, MutexFacts DEF AtLock
  <2>2. SleeperOK(l, {}) /\ m \in Mutexes
    BY <1>1, <2>1, MxSettled DEF MxOK, AtLock, PC
  <2> QED BY <2>1, <2>2, MutexFacts DEF Life, AllThread
<1>3. owner[m] # self
  BY <1>1, <1>2 DEF MutexInv, InLock, AtLock
<1>4. /\ owner \in [Mutexes -> Thread \cup {None}] /\ protocol' \in [Mutexes -> Protocols]
      /\ ceiling' \in [Mutexes -> Ceilings]
  BY <1>1 DEF MutexInv, MutexTypes
<1>5. Quiet(k, k) /\ Repays(k, k)
  BY <1>2, QuietSelf
<1>6. CASE /\ k.wake_reason[self] = "EXIT" /\ k' = Reschedule(Exit(k))
           /\ pc' = [pc EXCEPT ![self] = "user"] /\ UNCHANGED owner
  <2>1. Only(k, k, self, l)
    BY <1>2 DEF Only
  <2>2. \A q \in Mutexes : ~Claims(l, pc[self], m, q)
    BY <1>2, <1>6 DEF Claims
  <2> QED BY <1>1, <1>2, <1>5, <1>6, <2>1, <2>2, MutexExitInv
<1>7. CASE /\ k.wake_reason[self] \in {"DESTRUCT", "BREAK"}
           /\ k' = Unlock(UncountMutex(k, m, self))
           /\ pc' = [pc EXCEPT ![self] = IF @ = "lock" THEN "user" ELSE "relock"]
           /\ UNCHANGED owner
  <2> DEFINE n == UncountMutex(k, m, self)
             c == IF pc[self] = "lock" THEN "user" ELSE "relock"
  <2>1. Quiet(n, k) /\ Repays(n, k)
    BY <1>2, UncountMutexFacts
  <2>2. pc' = [pc EXCEPT ![self] = c] /\ k' = Unlock(n)
    BY <1>2, <1>7
  <2>3. MxOK(l, c, m) /\ c \notin AtLock
    BY <1>2 DEF MxOK, MutexPC, PC, AtLock, AtCond
  <2>4. pc[self] \in AtCond \cup {"relock", "cvlock"} => c # "user"
    BY DEF AtCond
  <2>5. \A q \in Mutexes : ~Claims(l, pc[self], m, q)
    BY <1>2, <1>7 DEF Claims
  <2>6. self # Idle
    BY <1>2, MutexFacts
  <2>7. owner' = owner /\ ticks' = ticks /\ mx' = mx
    BY <1>1, <1>7
  <2> HIDE DEF n, c, l, m
  <2>8. MxOK(Life(k, self), c, mx[self])
    BY <2>3 DEF l, m
  <2>9. \A q \in Mutexes : /\ owner'[q] \in {owner[q], self, None}
                           /\ owner'[q] = None => owner[q] = None
                           /\ ~Claims(Life(k, self), pc[self], mx[self], q)
    BY <2>5, <2>7 DEF l, m
  <2> QED BY <1>4, <2>1, <2>2, <2>3, <2>4, <2>6, <2>7, <2>8, <2>9, MutexQuietInv
<1>8. CASE Acquire(k, m, pc[self])
  <2> DEFINE at == pc[self]
  <2>1. at \in AtLock /\ Acquire(k, m, at) /\ mx' = [mx EXCEPT ![self] = m]
    BY <1>1, <1>2, <1>8
  <2> HIDE DEF at
  <2> QED BY <1>1, <1>2, <1>3, <1>5, <2>1, AcquireInv
<1> QED BY <1>1, <1>6, <1>7, <1>8

\* What a call from application code starts with.
LEMMA MutexUser ==
    ASSUME MutexInv, InThread
    PROVE  /\ KernelInv(k) /\ QueuesDistinct(k) /\ KInv
           /\ self \in Thread /\ self \in AllThread /\ self # Idle /\ self = k.current
           /\ pc[self] = "user" /\ pc = [pc EXCEPT ![self] = "user"]
           /\ Life(k, self).state = {} /\ Life(k, self).on = {}
           /\ SleeperOK(Life(k, self), {}) /\ Settled(k, self)
           /\ MxOK(Life(k, self), "user", mx[self]) /\ "user" \notin AtLock
           /\ "user" \notin AtCond \cup {"relock", "cvlock"}
           /\ \A m : ~Claims(Life(k, self), pc[self], mx[self], m)
           /\ owner \in [Mutexes -> Thread \cup {None}]
           /\ protocol \in [Mutexes -> Protocols] /\ ceiling \in [Mutexes -> Ceilings]
<1>1. /\ pc[self] = "user" /\ "user" \notin AtLock
      /\ "user" \notin AtCond \cup {"relock", "cvlock"}
      /\ k.sched_lock = "thread" /\ self # Idle
  BY DEF InThread, AtLock, AtCond
<1>2. /\ KernelInv(k) /\ QueuesDistinct(k) /\ KInv /\ self \in AllThread
      /\ MxOK(Life(k, self), "user", mx[self])
  BY <1>1, MutexFacts
<1>3. \A m : ~Claims(Life(k, self), pc[self], mx[self], m)
  BY <1>1 DEF Claims
<1>4. /\ owner \in [Mutexes -> Thread \cup {None}]
      /\ protocol \in [Mutexes -> Protocols] /\ ceiling \in [Mutexes -> Ceilings]
  BY DEF MutexInv, MutexTypes
<1> QED BY <1>1, <1>2, <1>3, <1>4, MutexCaller

\* trylock() takes a free mutex.
LEMMA MutexTrylockInv ==
    ASSUME MutexInv, NEW m \in Mutexes, MutexTrylock(m)
    PROVE  GoodStep
<1> DEFINE n == RaiseToCeiling(CountMutex(k, m, self), m, self)
<1>1. InThread /\ UNCHANGED <<pc, ticks, protocol, ceiling, mx>>
      /\ \/ owner' = [owner EXCEPT ![m] = self] /\ k' = Unlock(n)
         \/ k' = Unlock(k) /\ UNCHANGED owner
  BY DEF MutexTrylock
<1>2. Quiet(n, k) /\ Repays(n, k) /\ Quiet(k, k) /\ Repays(k, k)
  <2>1. k.sched_lock = "thread" /\ self # Idle
    BY <1>1 DEF InThread
  <2> QED BY <1>1, <2>1, ClaimFacts, MutexUser, QuietSelf
<1> HIDE DEF n
<1>3. /\ pc' = [pc EXCEPT ![self] = "user"]
      /\ owner' \in [Mutexes -> Thread \cup {None}]
      /\ \A q \in Mutexes : owner'[q] \in {owner[q], self}
      /\ self # None
      /\ protocol' \in [Mutexes -> Protocols] /\ ceiling' \in [Mutexes -> Ceilings]
  BY <1>1, MutexUser, MutexFacts
<1>4. \A q \in Mutexes : /\ owner'[q] \in {owner[q], self, None}
                         /\ owner'[q] = None => owner[q] = None
                         /\ ~Claims(Life(k, self), pc[self], mx[self], q)
  BY <1>1, <1>3, MutexUser
<1>5. PICK r \in {n, k} : k' = Unlock(r)
  BY <1>1
<1>6. Quiet(r, k) /\ Repays(r, k)
  BY <1>2, <1>5
<1> QED BY <1>1, <1>3, <1>4, <1>5, <1>6, MutexUser, MutexQuietInv

\* set_ceiling() and set_protocol() change no thread.
LEMMA MutexSetInv ==
    ASSUME MutexInv, NEW m \in Mutexes,
           \/ \E p \in Ceilings : MutexSetCeiling(m, p)
           \/ \E x \in Protocols : MutexSetProtocol(m, x)
    PROVE  GoodStep
<1>1. /\ InThread /\ k' = Unlock(k) /\ UNCHANGED <<pc, ticks, owner, mx>>
      /\ \/ UNCHANGED protocol /\ \E p \in Ceilings : ceiling' = [ceiling EXCEPT ![m] = p]
         \/ UNCHANGED ceiling /\ \E x \in Protocols : protocol' = [protocol EXCEPT ![m] = x]
  BY DEF MutexSetCeiling, MutexSetProtocol
<1>2. Quiet(k, k) /\ Repays(k, k)
  BY <1>1, MutexUser, QuietSelf
<1>3. /\ pc' = [pc EXCEPT ![self] = "user"]
      /\ owner' \in [Mutexes -> Thread \cup {None}]
      /\ protocol' \in [Mutexes -> Protocols] /\ ceiling' \in [Mutexes -> Ceilings]
  BY <1>1, MutexUser
<1>4. \A q \in Mutexes : /\ owner'[q] \in {owner[q], self, None}
                         /\ owner'[q] = None => owner[q] = None
                         /\ ~Claims(Life(k, self), pc[self], mx[self], q)
  BY <1>1, MutexUser
<1> QED BY <1>1, <1>2, <1>3, <1>4, MutexUser, MutexQuietInv

\* A thread taken off its queue is right where it is.
LEMMA DequeuedMxOK ==
    ASSUME NEW l, NEW p, NEW x, MxOK(l, p, x), l.on # {}, NEW r
    PROVE  MxOK(Dequeued(l, r), p, x)
<1>1. \A Q : SleeperOK(Dequeued(l, r), Q)
  BY DequeuedSleeper
<1>2. p \in AtLock \cup AtCond
  BY DEF MxOK, MutexPC, SleeperOK
<1> QED BY <1>1, <1>2 DEF MxOK

\* unlock() by a thread in application code.
LEMMA MutexFrees ==
    ASSUME MutexInv, InThread, NEW m \in Mutexes, owner[m] = self
    PROVE  LET r == Unlocked(m)
           IN  /\ KernelInv(r) /\ Keeps(r, k) /\ Repays(r, k) /\ QueuesDistinct(r)
               /\ Life(r, self) = Life(k, self)
               /\ \A t \in AllThread : MxOK(Life(r, t), pc[t], mx[t])
               /\ Heir(m) # self
               /\ \A t \in AllThread :
                    /\ Life(r, t).on \subseteq Life(k, t).on
                    /\ Life(k, t).wake = "DONE" => Life(r, t).wake = "DONE"
               /\ \/ \A t \in AllThread : m \notin Life(r, t).on
                  \/ \E t \in Thread \ {self} : Claims(Life(r, t), pc[t], mx[t], m)
<1> DEFINE r == Unlocked(m)
           h == Heir(m)
<1>1. /\ KInv /\ m \in WaitQueue /\ owner[m] \in Thread /\ Settled(k, owner[m])
      /\ \A t \in AllThread : m \in Life(k, t).on => t \in Thread
      /\ \A t \in AllThread : MxOK(Life(k, t), pc[t], mx[t])
      /\ \A t \in Thread : t \in AllThread
      /\ self \in AllThread /\ Life(k, self).on = {} /\ self # None /\ None \notin AllThread
  BY MutexFacts, MutexUser, MutexAssumption
<1>2. /\ KernelInv(r) /\ Keeps(r, k) /\ Repays(r, k) /\ UnlockLives(r, m)
      /\ h = None \/ (h \in Thread /\ m \in Life(k, h).on)
      /\ h = None => \A t \in AllThread : m \notin Life(k, t).on
  BY <1>1, UnlockedFacts
<1> HIDE DEF r, h
<1>3. QueuesDistinct(r) /\ \A t \in AllThread :
         Life(r, t) = IF t = h THEN Dequeued(Life(k, t), "DONE") ELSE Life(k, t)
  BY <1>2 DEF UnlockLives, h
<1>4. h # self
  BY <1>1, <1>2
<1>5. \A t \in AllThread : MxOK(Life(r, t), pc[t], mx[t])
  <2> SUFFICES ASSUME NEW t \in AllThread PROVE MxOK(Life(r, t), pc[t], mx[t])
    OBVIOUS
  <2>1. CASE t = h
    <3>1. Life(k, t).on # {} /\ MxOK(Life(k, t), pc[t], mx[t])
      BY <1>1, <1>2, <2>1
    <3> QED BY <1>3, <2>1, <3>1, DequeuedMxOK
  <2>2. CASE t # h
    BY <1>1, <1>3, <2>2
  <2> QED BY <2>1, <2>2
<1>6. \A t \in AllThread :
        /\ Life(r, t).on \subseteq Life(k, t).on
        /\ Life(k, t).wake = "DONE" => Life(r, t).wake = "DONE"
  BY <1>3 DEF Dequeued
<1>7. \/ \A t \in AllThread : m \notin Life(r, t).on
      \/ \E t \in Thread \ {self} : Claims(Life(r, t), pc[t], mx[t], m)
  <2>1. CASE h = None
    BY <1>2, <1>6, <2>1
  <2>2. CASE h # None
    <3>1. h \in Thread \ {self} /\ m \in Life(k, h).on /\ h \in AllThread
      BY <1>1, <1>2, <1>4, <2>2
    <3>2. pc[h] \in AtLock /\ mx[h] = m
      BY <3>1, MutexFacts
    <3>3. Life(r, h).wake = "DONE"
      BY <1>3, <3>1 DEF Dequeued
    <3> QED BY <3>1, <3>2, <3>3 DEF Claims
  <2> QED BY <2>1, <2>2
<1> QED BY <1>1, <1>2, <1>3, <1>4, <1>5, <1>6, <1>7 DEF r, h

\* unlock().
LEMMA MutexUnlockInv ==
    ASSUME MutexInv, NEW m \in Mutexes, MutexUnlock(m)
    PROVE  GoodStep
<1> DEFINE r == Unlocked(m)
<1>1. /\ InThread /\ owner[m] = self /\ k' = Unlock(r)
      /\ owner' = [owner EXCEPT ![m] = None]
      /\ UNCHANGED <<pc, ticks, protocol, ceiling, mx>>
  BY DEF MutexUnlock
<1>2. /\ KernelInv(r) /\ Repays(r, k) /\ QueuesDistinct(r)
      /\ Life(r, self) = Life(k, self)
      /\ \A t \in AllThread : MxOK(Life(r, t), pc[t], mx[t])
      /\ \A t \in AllThread :
           /\ Life(r, t).on \subseteq Life(k, t).on
           /\ Life(k, t).wake = "DONE" => Life(r, t).wake = "DONE"
      /\ \/ \A t \in AllThread : m \notin Life(r, t).on
         \/ \E t \in Thread \ {self} : Claims(Life(r, t), pc[t], mx[t], m)
  BY <1>1, MutexFrees
<1> HIDE DEF r
<1>3. /\ pc' = [pc EXCEPT ![self] = "user"] /\ mx' = [mx EXCEPT ![self] = mx[self]]
      /\ owner' \in [Mutexes -> Thread \cup {None}]
      /\ protocol' \in [Mutexes -> Protocols] /\ ceiling' \in [Mutexes -> Ceilings]
      /\ \A q \in Mutexes \ {m} : owner'[q] = owner[q]
  BY <1>1, MutexUser, MutexFacts
<1>4. ASSUME NEW q \in Mutexes
      PROVE  owner'[q] \in {owner[q], self, None} /\ StaysCovered(r, self, q)
  <2>1. CASE q = m
    BY <1>1, <1>2, <2>1, MutexUser DEF StaysCovered
  <2>2. CASE q # m
    <3>1. owner'[q] = owner[q] /\ ~Claims(Life(k, self), pc[self], mx[self], q)
      BY <1>1, <1>3, <1>4, <2>2, MutexUser
    <3> QED BY <1>2, <3>1, MutexFacts DEF StaysCovered
  <2> QED BY <2>1, <2>2
<1>5. MxOK(Life(r, self), "user", mx[self])
  BY <1>1, <1>2, MutexUser
<1>6. pc[self] \notin AtCond \cup {"relock", "cvlock"} /\ "user" \notin AtLock
  BY <1>1, MutexUser DEF AtCond, AtLock
<1> QED BY <1>1, <1>2, <1>3, <1>4, <1>5, <1>6, MutexTurn

\* A call that takes threads off a queue, and wakes them for reason r.
Dequeues(n, r) ==
    /\ KernelInv(n) /\ QueuesDistinct(n) /\ SameLoans(n, k) /\ k' = Unlock(n)
    /\ UNCHANGED <<pc, ticks, owner, protocol, ceiling, mx>>
    /\ \A t \in AllThread :
          \/ Life(n, t) = Life(k, t)
          \/ Life(k, t).on # {} /\ Life(n, t) = Dequeued(Life(k, t), r)

\* It keeps the invariant.
LEMMA DequeuesInv ==
    ASSUME MutexInv, NEW r, NEW n, Dequeues(n, r)
    PROVE  GoodStep
<1> DEFINE c == pc[Idle]
           x == mx[Idle]
<1>0. /\ KernelInv(n) /\ QueuesDistinct(n) /\ SameLoans(n, k) /\ k' = Unlock(n)
      /\ UNCHANGED <<pc, ticks, owner, protocol, ceiling, mx>>
      /\ \A t \in AllThread :
            \/ Life(n, t) = Life(k, t)
            \/ Life(k, t).on # {} /\ Life(n, t) = Dequeued(Life(k, t), r)
  BY DEF Dequeues
<1>1. /\ Idle \in AllThread /\ c = "user"
      /\ pc' = [pc EXCEPT ![Idle] = c] /\ mx' = [mx EXCEPT ![Idle] = x]
      /\ \A t \in AllThread : MxOK(Life(k, t), pc[t], mx[t])
      /\ \A t \in Thread : t \in AllThread
      /\ owner' \in [Mutexes -> Thread \cup {None}]
      /\ protocol' \in [Mutexes -> Protocols] /\ ceiling' \in [Mutexes -> Ceilings]
      /\ "user" \notin AtLock /\ "user" \notin AtCond \cup {"relock", "cvlock"}
  BY <1>0, MutexFacts DEF MutexInv, MutexTypes, AllThread, AtLock, AtCond
<1>2. Repays(n, k)
  BY <1>0, SameRepays DEF SameLoans
<1>3. \A t \in AllThread : MxOK(Life(n, t), pc[t], mx[t])
  BY <1>0, <1>1, DequeuedMxOK
<1>4. ASSUME NEW t \in AllThread
      PROVE  /\ Life(n, t).on \subseteq Life(k, t).on
             /\ Life(k, t).wake = "DONE" => Life(n, t).wake = "DONE"
  <2>1. CASE Life(n, t) = Life(k, t)
    BY <2>1
  <2>2. CASE Life(k, t).on # {} /\ Life(n, t) = Dequeued(Life(k, t), r)
    <3>1. Life(k, t).wake = "NONE"
      BY <1>1, <2>2 DEF MxOK, MutexPC, SleeperOK
    <3> QED BY <2>2, <3>1 DEF Dequeued
  <2> QED BY <1>0, <2>1, <2>2
<1>5. ASSUME NEW m \in Mutexes
      PROVE  owner'[m] \in {owner[m], Idle, None} /\ StaysCovered(n, Idle, m)
  <2>1. ~Claims(Life(k, Idle), pc[Idle], mx[Idle], m)
    BY <1>1 DEF Claims
  <2> QED BY <1>0, <1>1, <1>4, <2>1 DEF StaysCovered
<1>6. MxOK(Life(n, Idle), c, x)
  BY <1>1, <1>3
<1> HIDE DEF c, x
<1>7. c \notin AtLock /\ (pc[Idle] \notin AtCond \cup {"relock", "cvlock"})
  BY <1>1 DEF c
<1> QED BY <1>0, <1>1, <1>2, <1>3, <1>5, <1>6, <1>7, MutexTurnOf

\* release() breaks the wait of every thread on the mutex.
LEMMA MutexReleaseDequeues ==
    ASSUME MutexInv, NEW m \in Mutexes, MutexRelease(m)
    PROVE  Dequeues(ReleaseAll(k, m), "BREAK")
<1> DEFINE n == ReleaseAll(k, m)
<1>1. k' = Unlock(n) /\ UNCHANGED <<pc, ticks, owner, protocol, ceiling, mx>>
  BY DEF MutexRelease
<1>2. /\ KernelInv(k) /\ QueuesDistinct(k) /\ m \in WaitQueue
      /\ \A t \in AllThread : m \in Life(k, t).on => Life(k, t).sleep # "NONE"
  BY MutexFacts, MxSettled
<1>3. /\ KernelInv(n) /\ QueuesDistinct(n) /\ SameLoans(n, k)
      /\ \A t \in AllThread :
           Life(n, t) = IF m \in Life(k, t).on THEN Dequeued(Life(k, t), "BREAK")
                        ELSE Life(k, t)
  BY <1>2, ReleaseAllLife
<1> HIDE DEF n
<1>4. \A t \in AllThread :
         \/ Life(n, t) = Life(k, t)
         \/ Life(k, t).on # {} /\ Life(n, t) = Dequeued(Life(k, t), "BREAK")
  BY <1>3
<1> QED BY <1>1, <1>3, <1>4 DEF Dequeues, n

\* broadcast() wakes every thread on the condition variable.
LEMMA CondBroadcastDequeues ==
    ASSUME MutexInv, NEW v \in Condvars, CondBroadcast(v)
    PROVE  Dequeues(WakeAll(k, v, "DONE"), "DONE")
<1> DEFINE n == WakeAll(k, v, "DONE")
<1>1. k' = Unlock(n) /\ UNCHANGED <<pc, ticks, owner, protocol, ceiling, mx>>
  BY DEF CondBroadcast
<1>2. KernelInv(k) /\ QueuesDistinct(k) /\ v \in WaitQueue
  BY MutexFacts, MutexAssumption
<1>3. /\ KernelInv(n) /\ QueuesDistinct(n) /\ SameLoans(n, k)
      /\ \A t \in AllThread :
           Life(n, t) = IF v \in Life(k, t).on THEN Dequeued(Life(k, t), "DONE")
                        ELSE Life(k, t)
  BY <1>2, WakeAllLife DEF WakeReason
<1> HIDE DEF n
<1>4. \A t \in AllThread :
         \/ Life(n, t) = Life(k, t)
         \/ Life(k, t).on # {} /\ Life(n, t) = Dequeued(Life(k, t), "DONE")
  BY <1>3
<1> QED BY <1>1, <1>3, <1>4 DEF Dequeues, n

\* signal() wakes the first one.
LEMMA CondSignalDequeues ==
    ASSUME MutexInv, NEW v \in Condvars, CondSignal(v)
    PROVE  \E x : Dequeues(x, "DONE")
<1>1. UNCHANGED <<pc, ticks, owner, protocol, ceiling, mx>>
  BY DEF CondSignal
<1>2. KernelInv(k) /\ QueuesDistinct(k) /\ v \in WaitQueue /\ k \in KernelState
  BY MutexFacts, MutexAssumption
<1>3. CASE k.wait_queue[v] = <<>>
  <2>1. k' = Unlock(k) /\ SameLoans(k, k)
    BY <1>3 DEF CondSignal, SameLoans
  <2>2. Dequeues(k, "DONE")
    BY <1>1, <1>2, <2>1 DEF Dequeues
  <2> QED BY <2>2
<1>4. CASE k.wait_queue[v] # <<>>
  <2> DEFINE t == Head(k.wait_queue[v])
             n == WakeOne(k, t, "DONE")
             l == Life(k, t)
  <2>1. t \in AllThread /\ v \in l.on
    BY <1>2, <1>4, QueueLife
  <2>2. k' = Unlock(n)
    BY <1>4 DEF CondSignal, WakeWaiter, WakeOne
  <2>3. TurnOfLoop(n, k, t, l, "DONE")
    BY <1>2, <2>1, WakeOneTurn DEF WakeReason
  <2> HIDE DEF t, n, l
  <2>4. /\ KernelInv(n) /\ QueuesDistinct(n) /\ SameLoans(n, k)
        /\ \A u \in AllThread :
             \/ Life(n, u) = Life(k, u)
             \/ Life(k, u).on # {} /\ Life(n, u) = Dequeued(Life(k, u), "DONE")
    BY <2>1, <2>3 DEF TurnOfLoop, Only, l
  <2>5. Dequeues(n, "DONE")
    BY <1>1, <2>2, <2>4 DEF Dequeues
  <2> QED BY <2>5
<1> QED BY <1>3, <1>4

\* The start of a condition wait: unlock m, then sleep on v, unless the
\* timeout has passed already, in kernel state n with life l.
CondSleep(n, l, c, v, m) ==
    /\ InThread /\ owner[m] = self
    /\ KernelInv(n) /\ Only(n, Unlocked(m), self, l) /\ SameLoans(n, Unlocked(m))
    /\ SleeperOK(l, {v}) /\ l.on \subseteq {v} /\ l.state \subseteq {"SLEEPING"}
    /\ k' = Unlock(n) /\ owner' = [owner EXCEPT ![m] = None] /\ c \in AtCond
    /\ pc' = [pc EXCEPT ![self] = c] /\ mx' = [mx EXCEPT ![self] = m]
    /\ UNCHANGED <<ticks, protocol, ceiling>>

\* It keeps the invariant.
LEMMA CondSleepInv ==
    ASSUME MutexInv, NEW m \in Mutexes, NEW v \in Condvars, NEW n, NEW l, NEW c,
           CondSleep(n, l, c, v, m)
    PROVE  GoodStep
<1> DEFINE r == Unlocked(m)
<1>0. /\ InThread /\ owner[m] = self
      /\ KernelInv(n) /\ Only(n, r, self, l) /\ SameLoans(n, r)
      /\ SleeperOK(l, {v}) /\ l.on \subseteq {v}
      /\ k' = Unlock(n) /\ owner' = [owner EXCEPT ![m] = None] /\ c \in AtCond
      /\ pc' = [pc EXCEPT ![self] = c] /\ mx' = [mx EXCEPT ![self] = m]
      /\ UNCHANGED <<ticks, protocol, ceiling>>
  BY DEF CondSleep
<1>1. /\ Repays(r, k)
      /\ \A t \in AllThread : MxOK(Life(r, t), pc[t], mx[t])
      /\ \A t \in AllThread :
           /\ Life(r, t).on \subseteq Life(k, t).on
           /\ Life(k, t).wake = "DONE" => Life(r, t).wake = "DONE"
      /\ \/ \A t \in AllThread : m \notin Life(r, t).on
         \/ \E t \in Thread \ {self} : Claims(Life(r, t), pc[t], mx[t], m)
  BY <1>0, MutexFrees
<1>2. /\ QueuesDistinct(n) /\ Life(n, self) = l
      /\ \A t \in AllThread \ {self} : Life(n, t) = Life(r, t)
  BY <1>0 DEF Only
<1> HIDE DEF r
<1>3. self \in AllThread /\ (\A t \in Thread : t \in AllThread) /\ self # Idle
  BY <1>0, MutexUser, MutexFacts
<1>4. Repays(n, k)
  <2>1. Repays(n, r)
    BY <1>0, SameRepays DEF SameLoans
  <2> QED BY <1>1, <2>1, RepaysTransitive
<1>5. MxOK(Life(n, self), c, m)
  BY <1>0, <1>2 DEF MxOK, MutexPC, AtCond, AtLock, PC
<1>6. \A t \in AllThread \ {self} : MxOK(Life(n, t), pc[t], mx[t])
  BY <1>1, <1>2
<1>7. /\ owner' \in [Mutexes -> Thread \cup {None}]
      /\ protocol' \in [Mutexes -> Protocols] /\ ceiling' \in [Mutexes -> Ceilings]
      /\ \A q \in Mutexes \ {m} : owner'[q] = owner[q]
      /\ owner'[m] = None
  BY <1>0, MutexUser
<1>8. \A t \in AllThread, q \in Mutexes : q \in Life(n, t).on =>
          q \in Life(r, t).on /\ t # self
  <2>1. \A q \in Mutexes : q \notin l.on
    BY <1>0, MutexAssumption
  <2> QED BY <1>2, <2>1
<1>9. ASSUME NEW q \in Mutexes
      PROVE  owner'[q] \in {owner[q], self, None} /\ StaysCovered(n, self, q)
  <2>1. CASE q = m
    <3>1. \/ \A t \in AllThread : m \notin Life(n, t).on
          \/ \E t \in Thread \ {self} : Claims(Life(n, t), pc[t], mx[t], m)
      BY <1>1, <1>2, <1>3, <1>8
    <3> QED BY <1>7, <2>1, <3>1 DEF StaysCovered
  <2>2. CASE q # m
    <3>1. owner'[q] = owner[q] /\ ~Claims(Life(k, self), pc[self], mx[self], q)
      BY <1>0, <1>7, <2>2, MutexUser
    <3>2. \A t \in AllThread : q \in Life(n, t).on => q \in Life(k, t).on
      BY <1>1, <1>8
    <3>3. \A t \in Thread \ {self} : Life(k, t).wake = "DONE" => Life(n, t).wake = "DONE"
      BY <1>1, <1>2, <1>3
    <3> QED BY <3>1, <3>2, <3>3 DEF StaysCovered
  <2> QED BY <2>1, <2>2
<1>10. c \notin AtLock /\ c # "user"
  BY <1>0 DEF AtCond, AtLock
<1> QED BY <1>0, <1>2, <1>3, <1>4, <1>5, <1>6, <1>7, <1>9, <1>10, MutexTurn

\* What the two waits do after unlock().
LEMMA CondSleeps ==
    ASSUME MutexInv, InThread, NEW m \in Mutexes, owner[m] = self
    PROVE  LET r == Unlocked(m)
               l == Life(r, self)
           IN  /\ KernelInv(r) /\ QueuesDistinct(r) /\ r.current = self
               /\ self \in AllThread /\ self # Idle
               /\ l.state = {} /\ l.on = {} /\ SleeperOK(l, {})
<1> DEFINE r == Unlocked(m)
<1>1. KernelInv(r) /\ Keeps(r, k) /\ QueuesDistinct(r) /\ Life(r, self) = Life(k, self)
  BY MutexFrees
<1> HIDE DEF r
<1> QED BY <1>1, MutexUser DEF Keeps, r

\* wait().
LEMMA CondWaitSleeps ==
    ASSUME MutexInv, NEW v \in Condvars, NEW m \in Mutexes, CondWait(v, m)
    PROVE  \E n, l : CondSleep(n, l, "cwait", v, m)
<1> DEFINE r == Unlocked(m)
           l == Life(r, self)
           n == Enqueue(Sleep(SetSleepReason(r, "WAIT")), v, self)
<1>1. /\ InThread /\ owner[m] = self
      /\ k' = Unlock(Enqueue(Sleep([r EXCEPT !.sleep_reason[self] = "WAIT",
                                             !.wake_reason[self] = "NONE"]), v, self))
      /\ owner' = [owner EXCEPT ![m] = None]
      /\ pc' = [pc EXCEPT ![self] = "cwait"] /\ mx' = [mx EXCEPT ![self] = m]
      /\ UNCHANGED <<ticks, protocol, ceiling>>
  BY DEF CondWait
<1>2. /\ KernelInv(r) /\ QueuesDistinct(r) /\ r.current = self
      /\ self \in AllThread /\ self # Idle
      /\ l.state = {} /\ l.on = {} /\ SleeperOK(l, {})
  BY <1>1, CondSleeps
<1> HIDE DEF r
<1>3. k' = Unlock(n)
  BY <1>1, <1>2 DEF SetSleepReason
<1>4. v \in WaitQueue /\ "WAIT" \in SleepReason \ {"NONE"}
  BY MutexAssumption DEF SleepReason
<1>5. KernelInv(n) /\ Only(n, r, self, Blocked(l, "WAIT", v))
  BY <1>2, <1>4, BlockLife
<1>6. SameLoans(n, r)
  BY <1>2, <1>4, BlockLoans
<1> HIDE DEF n
<1>7. /\ SleeperOK(Blocked(l, "WAIT", v), {v}) /\ Blocked(l, "WAIT", v).on \subseteq {v}
      /\ Blocked(l, "WAIT", v).state \subseteq {"SLEEPING"}
  BY <1>2, <1>4, BlockedSleeper DEF Blocked
<1>8. CondSleep(n, Blocked(l, "WAIT", v), "cwait", v, m)
  BY <1>1, <1>3, <1>5, <1>6, <1>7 DEF CondSleep, AtCond, r
<1> QED BY <1>8

\* wait() with a timeout, that may have passed already.
LEMMA CondTimedWaitSleeps ==
    ASSUME MutexInv, NEW v \in Condvars, NEW m \in Mutexes, NEW past \in BOOLEAN,
           CondTimedWait(v, m, past)
    PROVE  \E x, y : CondSleep(x, y, "ctwait", v, m)
<1> DEFINE r  == Unlocked(m)
           l  == Life(r, self)
           k0 == Sleep(r)
           k1 == SetTimer(k0, "TIMEOUT", past)
           n  == IF k1.wake_reason[self] = "NONE" THEN Enqueue(k1, v, self) ELSE k1
           w  == WithTimer(Asleep(l), "TIMEOUT")
           a  == IF past THEN Alarmed(w) ELSE w
<1>1. /\ InThread /\ owner[m] = self /\ k' = Unlock(n)
      /\ owner' = [owner EXCEPT ![m] = None]
      /\ pc' = [pc EXCEPT ![self] = "ctwait"] /\ mx' = [mx EXCEPT ![self] = m]
      /\ UNCHANGED <<ticks, protocol, ceiling>>
  BY DEF CondTimedWait
<1>2. /\ KernelInv(r) /\ QueuesDistinct(r) /\ r.current = self
      /\ self \in AllThread /\ self # Idle
      /\ l.state = {} /\ l.on = {} /\ SleeperOK(l, {})
  BY <1>1, CondSleeps
<1> HIDE DEF r
<1>3. v \in WaitQueue /\ "TIMEOUT" \in SleepReason
  BY MutexAssumption DEF SleepReason
<1>4. /\ KernelInv(k0) /\ k0.current = self /\ Only(k0, r, self, Asleep(l))
      /\ SameLoans(k0, r)
  BY <1>2, SleepInv, SleepLife, StateLoans DEF Keeps, KernelInv
<1> HIDE DEF k0
<1>5. QueuesDistinct(k0) /\ Life(k0, self) = Asleep(l)
  BY <1>4 DEF Only
<1>6. /\ KernelInv(k1) /\ k1.current = self /\ Only(k1, k0, self, a)
      /\ SameLoans(k1, k0)
  BY <1>3, <1>4, <1>5, SetTimerInv, SetTimerLife, SchedulerLoans
<1> HIDE DEF k1
<1>7. /\ a.wake = k1.wake_reason[self] /\ QueuesDistinct(k1) /\ Life(k1, self) = a
      /\ a.on = OnQueue(k1, self) /\ k1 \in KernelState
  BY <1>6 DEF Only, Life, KernelInv
<1>8. /\ past => a.state = {} /\ a.on = {} /\ a.wake = "TIMEOUT" /\ a.sleep = "NONE"
      /\ ~past => a.state = {"SLEEPING"} /\ a.on = {} /\ a.wake = "NONE" /\ a.sleep = "TIMEOUT"
  <2>1. w.state = {"SLEEPING"} /\ w.sleep = "TIMEOUT" /\ w.on = {} /\ w.wake = "NONE"
    BY <1>2 DEF WithTimer, Asleep, WithState
  <2> HIDE DEF w
  <2> DEFINE x == SetsWake(TimerOff(w), "TIMEOUT")
  <2>2. x.state = {"SLEEPING"} /\ x.wake = "TIMEOUT" /\ x.sleep = "NONE"
    BY <2>1 DEF SetsWake, TimerOff
  <2>3. Alarmed(w) = Woken(x)
    BY <2>1 DEF Alarmed
  <2> HIDE DEF x
  <2>4. /\ Woken(x).state = {} /\ Woken(x).on = {}
        /\ Woken(x).wake = "TIMEOUT" /\ Woken(x).sleep = "NONE"
    BY <2>2 DEF Woken, Unqueued, WithState, SLEEPSET
  <2> QED BY <2>1, <2>3, <2>4
<1>9. Only(k1, r, self, a) /\ SameLoans(k1, r)
  BY <1>2, <1>4, <1>6, OnlyTransitive, SameLoansTransitive
<1> HIDE DEF a
<1>10. CASE past
  <2>1. n = k1
    BY <1>7, <1>8, <1>10
  <2>2. SleeperOK(a, {v}) /\ a.on \subseteq {v} /\ a.state \subseteq {"SLEEPING"}
    BY <1>8, <1>10 DEF SleeperOK
  <2>3. CondSleep(k1, a, "ctwait", v, m)
    BY <1>1, <1>6, <1>9, <2>1, <2>2 DEF CondSleep, AtCond, r
  <2> QED BY <2>3
<1>11. CASE ~past
  <2> DEFINE e == Enqueue(k1, v, self)
             b == Queued(a, v)
  <2>1. n = e
    BY <1>7, <1>8, <1>11
  <2>2. Only(e, k1, self, b) /\ e \in KernelState /\ SameScheduling(e, k1)
    BY <1>2, <1>3, <1>7, <1>8, <1>11, EnqueueLife
  <2>3. SameLoans(e, k1)
    BY <1>7, QueueLoans
  <2> HIDE DEF e
  <2>4. KernelInv(e) /\ Only(e, r, self, b) /\ SameLoans(e, r)
    BY <1>2, <1>6, <1>9, <2>2, <2>3, SameSchedulingInv, OnlyTransitive, SameLoansTransitive
  <2>5. SleeperOK(b, {v}) /\ b.on \subseteq {v} /\ b.state \subseteq {"SLEEPING"}
    BY <1>8, <1>11 DEF SleeperOK, Queued
  <2> HIDE DEF b
  <2>6. CondSleep(e, b, "ctwait", v, m)
    BY <1>1, <2>1, <2>4, <2>5 DEF CondSleep, AtCond, r
  <2> QED BY <2>6
<1> QED BY <1>10, <1>11

\* wait() back from the reschedule() that put it to sleep.
LEMMA CondWokenInv ==
    ASSUME MutexInv, CondWoken
    PROVE  GoodStep
<1> DEFINE l  == Life(k, self)
           kc == ClearTimer(k, self)
           k1 == IF pc[self] = "ctwait" THEN Unlock(kc) ELSE k
           j  == IF pc[self] = "ctwait" THEN TimerOff(l) ELSE l
<1>1. /\ k.sched_lock = "thread" /\ pc[self] \in AtCond
      /\ \/ /\ k.wake_reason[self] = "EXIT" /\ k' = Reschedule(Exit(k1))
            /\ pc' = [pc EXCEPT ![self] = "user"]
         \/ /\ k.wake_reason[self] # "EXIT" /\ k' = k1
            /\ pc' = [pc EXCEPT ![self] = "relock"]
      /\ UNCHANGED <<ticks, owner, protocol, ceiling, mx>>
  BY DEF CondWoken, AtCond
<1>2. self # Idle
  BY <1>1, MutexFacts DEF AtCond
<1>3. /\ self \in Thread /\ self \in AllThread /\ self = k.current
      /\ l.state = {} /\ l.on = {} /\ SleeperOK(l, {})
      /\ mx = [mx EXCEPT ![self] = mx[self]]
  BY <1>1, <1>2, MutexCaller
<1>4. KInv /\ KernelInv(k) /\ QueuesDistinct(k) /\ k \in KernelState
  BY MutexFacts
<1>5. /\ KernelInv(kc) /\ kc.current = self /\ Only(kc, k, self, TimerOff(l))
      /\ SameLoans(kc, k)
  BY <1>3, <1>4, ClearTimerInv, ClearTimerLife, ReasonLoans DEF Keeps
<1>6. SleeperOK(TimerOff(l), {}) /\ TimerOff(l).state = {} /\ TimerOff(l).on = {}
  BY <1>3 DEF SleeperOK, TimerOff
<1> HIDE DEF kc
<1>7. QueuesDistinct(kc) /\ kc \in KernelState /\ Repays(kc, k) /\ Repays(k, k)
  BY <1>4, <1>5, SameRepays, QuietSelf DEF Only, KernelInv, SameLoans
<1>8. \A q \in Mutexes : ~Claims(l, pc[self], mx[self], q)
  BY <1>1 DEF Claims, AtCond, AtLock
<1>9. CASE /\ k.wake_reason[self] = "EXIT" /\ k' = Reschedule(Exit(k1))
           /\ pc' = [pc EXCEPT ![self] = "user"]
  <2>1. /\ KernelInv(Unlock(kc)) /\ Unlock(kc).current = self /\ Repays(Unlock(kc), k)
        /\ Only(Unlock(kc), k, self, TimerOff(l))
    <3>1. KernelInv(Unlock(kc)) /\ Same(Unlock(kc), kc) /\ SameLoans(Unlock(kc), kc)
      BY <1>5, <1>7, UnlockFacts, LockLife, LockLoans
    <3>2. Unlock(kc).current = self
      BY <1>5, <1>7 DEF Unlock, SchedLock, KernelState
    <3>3. Repays(Unlock(kc), k)
      BY <1>7, <3>1, SameRepays, RepaysTransitive DEF SameLoans
    <3> QED BY <1>3, <1>5, <3>1, <3>2, <3>3, OnlySame
  <2>2. Only(k, k, self, l)
    BY <1>4 DEF Only
  <2>3. /\ KernelInv(k1) /\ k1.current = self /\ Repays(k1, k) /\ Only(k1, k, self, j)
        /\ j.state = {} /\ SleeperOK(j, {})
    BY <1>3, <1>4, <1>6, <1>7, <2>1, <2>2
  <2> HIDE DEF k1, j
  <2> QED BY <1>1, <1>3, <1>8, <1>9, <2>3, MutexExitInv
<1>10. CASE /\ k.wake_reason[self] # "EXIT" /\ k' = k1
            /\ pc' = [pc EXCEPT ![self] = "relock"]
  <2> DEFINE c == "relock"
             x == mx[self]
  <2>1. x \in Mutexes /\ c \notin AtLock /\ c # "user"
    BY <1>1, <1>3, MutexFacts DEF MxOK, AtCond, AtLock, PC
  <2>2. /\ owner' \in [Mutexes -> Thread \cup {None}]
        /\ protocol' \in [Mutexes -> Protocols] /\ ceiling' \in [Mutexes -> Ceilings]
        /\ \A q \in Mutexes : owner'[q] = owner[q]
    BY <1>1 DEF MutexInv, MutexTypes
  <2>3. \A h : SleeperOK(h, {}) => MxOK(h, c, x)
    BY <2>1 DEF MxOK, MutexPC, AtCond, AtLock, PC
  <2>4. CASE pc[self] = "ctwait"
    <3>1. /\ Life(kc, self) = TimerOff(l)
          /\ \A t \in AllThread \ {self} : Life(kc, t) = Life(k, t)
      BY <1>5 DEF Only
    <3>2. MxOK(Life(kc, self), c, x)
      BY <1>6, <2>3, <3>1
    <3>3. \A t \in AllThread \ {self} : MxOK(Life(kc, t), pc[t], mx[t])
      BY <3>1, MutexFacts
    <3>4. ASSUME NEW q \in Mutexes
          PROVE  owner'[q] \in {owner[q], self, None} /\ StaysCovered(kc, self, q)
      <4>1. \A t \in AllThread : q \in Life(kc, t).on => q \in Life(k, t).on
        BY <1>6, <3>1
      <4>2. \A t \in Thread \ {self} : Life(kc, t) = Life(k, t)
        BY <3>1, MutexFacts
      <4> QED BY <1>8, <2>2, <4>1, <4>2 DEF StaysCovered
    <3>5. k' = Unlock(kc) /\ pc' = [pc EXCEPT ![self] = c] /\ mx' = [mx EXCEPT ![self] = x]
      BY <1>1, <1>3, <1>10, <2>4
    <3> HIDE DEF c, x
    <3> QED BY <1>1, <1>2, <1>5, <1>7, <2>1, <2>2, <3>2, <3>3, <3>4, <3>5, MutexTurn
  <2>5. CASE pc[self] # "ctwait"
    <3>1. k' = k /\ pc' = [pc EXCEPT ![self] = c] /\ mx' = [mx EXCEPT ![self] = x]
      BY <1>1, <1>3, <1>10, <2>5
    <3>2. pc' = [t \in AllThread |-> pc'[t]] /\ pc'[Idle] = "user" /\ pc'[self] = c
          /\ \A t \in AllThread \ {self} : pc'[t] = pc[t]
      BY <1>2, <1>3, <1>4, <3>1 DEF KInv, AllThread
    <3>3. KInv'
      BY <1>1, <1>4, <3>1, <3>2 DEF KInv
    <3>4. MxOK(Life(k', self), c, x) /\ LoansOK(k')
          /\ \A t \in AllThread \ {self} : MxOK(Life(k', t), pc[t], mx[t])
      BY <1>3, <2>3, <3>1, MutexFacts
    <3>5. ASSUME NEW q \in Mutexes
          PROVE  owner'[q] \in {owner[q], self, None} /\ StaysCovered(k', self, q)
      BY <1>8, <2>2, <3>1 DEF StaysCovered
    <3> HIDE DEF c, x
    <3>6. MutexInv'
      BY <1>3, <2>1, <2>2, <3>1, <3>3, <3>4, <3>5, MutexCore
    <3>7. CondReturns
      <4> SUFFICES ASSUME NEW t \in Thread, pc[t] \in AtCond \cup {"relock", "cvlock"},
                          pc'[t] = "user"
                   PROVE  FALSE
        BY DEF CondReturns
      <4>1. t \in AllThread
        BY MutexFacts
      <4> QED BY <2>1, <3>2, <4>1 DEF AtCond
    <3>8. Repays(k', k)
      BY <1>7, <3>1
    <3> QED BY <3>6, <3>7, <3>8 DEF GoodStep
  <2> QED BY <2>4, <2>5
<1> QED BY <1>1, <1>9, <1>10

\* Any step of a thread on its own, or on another thread.
LEMMA MutexOtherInv ==
    ASSUME MutexInv, Next, UNCHANGED <<owner, protocol, ceiling, mx>>
    PROVE  /\ MutexInv' /\ CondReturns
           /\ Repays(k', k) \/ \E t \in Thread, p \in UserPriority : ThreadSetPriority(t, p)
<1>1. KInv /\ KInv' /\ k \in KernelState /\ LoansOK(k) /\ \E t \in AllThread : Moves(t)
  BY MutexFacts, NextMoves
<1>2. PICK s \in AllThread : Moves(s)
  BY <1>1
<1> DEFINE l == Life(k, s)
           m == Life(k', s)
<1>3. /\ \A u \in AllThread \ {s} : Life(k', u) = Life(k, u)
      /\ pc' = [pc EXCEPT ![s] = pc'[s]]
      /\ \/ Affected(l, m) /\ pc'[s] = pc[s]
         \/ s # Idle /\ Acts(l, pc[s], m, pc'[s])
  BY <1>2 DEF Moves, Turn, Only
<1>4. /\ pc = [t \in AllThread |-> pc[t]] /\ mx = [t \in AllThread |-> mx[t]]
      /\ pc[Idle] = "user" /\ Idle \in AllThread
      /\ \A t \in Thread : t \in AllThread
      /\ \A t \in AllThread : MxOK(Life(k, t), pc[t], mx[t])
      /\ l \in LifeType
      /\ owner' \in [Mutexes -> Thread \cup {None}]
      /\ protocol' \in [Mutexes -> Protocols] /\ ceiling' \in [Mutexes -> Ceilings]
  BY <1>1, MutexFacts, LifeTyped DEF MutexInv, MutexTypes, AllThread
<1>5. \A u \in AllThread \ {s} : pc'[u] = pc[u]
  BY <1>3, <1>4
<1>6. /\ LoansOK(k')
      /\ Repays(k', k) \/ \E t \in Thread, p \in UserPriority : ThreadSetPriority(t, p)
  <2>1. CASE SameLoans(k', k)
    <3>1. Repays(k', k)
      BY <2>1, SameRepays DEF SameLoans
    <3> QED BY <1>1, <3>1 DEF Repays
  <2>2. ASSUME NEW t \in Thread, NEW p \in UserPriority, ThreadSetPriority(t, p)
        PROVE  LoansOK(k')
    <3> DEFINE n == SetPriority(k, t, p)
               i == k.priority_inherited[t]
    <3>1. k' = Unlock(n) /\ KernelInv(n)
      BY <1>1, <1>4, <2>2, SetPriorityInv, MutexFacts DEF ThreadSetPriority
    <3>2. Loan(n, k, t, IF i /\ k.priority[t] <= p THEN k.priority[t] ELSE p,
               IF i THEN p ELSE k.original_priority[t], i)
      BY <1>1, <1>4, <2>2, SetPriorityLoans
    <3> HIDE DEF n
    <3>3. SameLoans(k', n)
      BY <3>1, LockLoans DEF KernelInv
    <3>4. /\ k'.priority = n.priority /\ k'.original_priority = n.original_priority
          /\ k'.priority_inherited = n.priority_inherited
      BY <3>3 DEF SameLoans
    <3>5. /\ k.priority \in [AllThread -> Priority]
          /\ k.original_priority \in [AllThread -> Priority]
          /\ k.priority_inherited \in [AllThread -> BOOLEAN]
      BY <1>1 DEF KernelState
    <3>6. \A u \in Thread : k.priority_inherited[u] => k.priority[u] <= k.original_priority[u]
      BY <1>1 DEF LoansOK
    <3>7. p \in Int
      BY <2>2 DEF UserPriority
    <3>8. ASSUME NEW u \in Thread, k'.priority_inherited[u]
          PROVE  k'.priority[u] <= k'.original_priority[u]
      <4>1. CASE u = t
        BY <1>4, <2>2, <3>2, <3>4, <3>5, <3>7, <3>8, <4>1 DEF Loan
      <4>2. CASE u # t
        BY <1>4, <2>2, <3>2, <3>4, <3>5, <3>6, <3>8, <4>2 DEF Loan
      <4> QED BY <4>1, <4>2
    <3> QED BY <3>8 DEF LoansOK
  <2> QED BY <1>1, <2>1, <2>2, NextLoans
<1>7. CASE Affected(l, m) /\ pc'[s] = pc[s]
  <2> DEFINE c == pc[Idle]
             x == mx[Idle]
  <2>1. pc' = pc
    BY <1>3, <1>4, <1>7
  <2>2. /\ MxOK(m, pc[s], mx[s]) /\ m.on \subseteq l.on
        /\ l.wake = "DONE" => m.wake = "DONE"
    <3>1. MxOK(l, pc[s], mx[s])
      BY <1>4
    <3> HIDE DEF l, m
    <3>2. CASE pc[s] \in PC \cup {"relock"}
      <4>1. SleeperOK(l, {})
        BY <3>1, <3>2 DEF MxOK
      <4>2. SleeperOK(m, {}) /\ m.on \subseteq l.on /\ (l.wake = "DONE" => m.wake = "DONE")
        BY <1>4, <1>7, <4>1, AffectedSleeper
      <4> QED BY <3>1, <3>2, <4>2 DEF MxOK, PC, AtLock, AtCond
    <3>3. CASE pc[s] \in AtLock
      <4>1. SleeperOK(l, {mx[s]})
        BY <3>1, <3>3 DEF MxOK
      <4>2. /\ SleeperOK(m, {mx[s]}) /\ m.on \subseteq l.on
            /\ l.wake = "DONE" => m.wake = "DONE"
        BY <1>4, <1>7, <4>1, AffectedSleeper
      <4> QED BY <3>1, <3>3, <4>2 DEF MxOK, PC, AtLock, AtCond
    <3>4. CASE pc[s] \in AtCond
      <4>1. PICK v \in Condvars : SleeperOK(l, {v})
        BY <3>1, <3>4 DEF MxOK
      <4>2. SleeperOK(m, {v}) /\ m.on \subseteq l.on /\ (l.wake = "DONE" => m.wake = "DONE")
        BY <1>4, <1>7, <4>1, AffectedSleeper
      <4> QED BY <3>1, <3>4, <4>1, <4>2 DEF MxOK, PC, AtLock, AtCond
    <3> QED BY <3>1, <3>2, <3>3, <3>4 DEF MxOK, MutexPC
  <2>3. \A t \in AllThread :
          /\ MxOK(Life(k', t), pc[t], mx[t]) /\ Life(k', t).on \subseteq Life(k, t).on
          /\ Life(k, t).wake = "DONE" => Life(k', t).wake = "DONE"
    BY <1>3, <1>4, <2>2
  <2>4. ASSUME NEW q \in Mutexes
        PROVE  owner'[q] \in {owner[q], Idle, None} /\ StaysCovered(k', Idle, q)
    <3>1. ~Claims(Life(k, Idle), pc[Idle], mx[Idle], q)
      BY <1>4 DEF Claims, AtLock
    <3> QED BY <1>4, <2>3, <3>1 DEF StaysCovered
  <2>5. /\ MxOK(Life(k', Idle), c, x) /\ c \notin AtLock
        /\ pc' = [pc EXCEPT ![Idle] = c] /\ mx' = [mx EXCEPT ![Idle] = x]
    BY <1>4, <2>1, <2>3 DEF AtLock
  <2> HIDE DEF c, x
  <2>6. MutexInv'
    BY <1>1, <1>4, <1>6, <2>3, <2>4, <2>5, MutexCore
  <2>7. CondReturns
    BY <2>1 DEF CondReturns, AtCond
  <2> QED BY <1>6, <2>6, <2>7
<1>8. CASE s # Idle /\ Acts(l, pc[s], m, pc'[s])
  <2> DEFINE c == pc'[s]
             x == mx[s]
  <2>1. l.state = {} /\ MxOK(l, pc[s], mx[s])
    BY <1>4, <1>8 DEF Acts
  <2>2. SleeperOK(l, {}) /\ l.on = {}
    BY <2>1, MxSettled
  <2>3. SleeperOK(m, {}) /\ pc[s] \in PC /\ c \in PC
    BY <1>4, <1>8, <2>2, ActsSleeper
  <2>4. m.on = {}
    BY <2>3 DEF SleeperOK
  <2>5. /\ MxOK(m, c, x) /\ c \notin AtLock /\ pc[s] \notin AtLock
        /\ pc[s] \notin AtCond \cup {"relock", "cvlock"}
    BY <2>3 DEF MxOK, MutexPC, PC, AtLock, AtCond
  <2>6. ASSUME NEW q \in Mutexes
        PROVE  owner'[q] \in {owner[q], s, None} /\ StaysCovered(k', s, q)
    <3>1. ~Claims(Life(k, s), pc[s], mx[s], q)
      BY <2>5 DEF Claims
    <3>2. \A t \in AllThread : q \in Life(k', t).on => q \in Life(k, t).on
      BY <1>3, <2>4
    <3>3. \A t \in Thread \ {s} : Life(k', t) = Life(k, t)
      BY <1>3, <1>4
    <3> QED BY <3>1, <3>2, <3>3 DEF StaysCovered
  <2>7. pc' = [pc EXCEPT ![s] = c] /\ mx' = [mx EXCEPT ![s] = x]
        /\ \A t \in AllThread \ {s} : MxOK(Life(k', t), pc[t], mx[t])
    BY <1>3, <1>4
  <2>8. CondReturns
    BY <1>4, <1>5, <2>5 DEF CondReturns, AtCond
  <2> HIDE DEF c, x
  <2>9. MutexInv'
    BY <1>1, <1>2, <1>4, <1>6, <2>5, <2>6, <2>7, MutexCore
  <2> QED BY <1>6, <2>8, <2>9
<1> QED BY <1>3, <1>7, <1>8

-----------------------------------------------------------------------------
(* The theorems about every instance *)

\* get_priority() of a thread stays, or is what set_priority() sets.
BaseKept ==
    \A t \in Thread :
        \/ GetPriority(k', t) = GetPriority(k, t)
        \/ \E p \in UserPriority : ThreadSetPriority(t, p) /\ GetPriority(k', t) = p

\* set_priority() sets what get_priority() reports of the thread, and of no other.
LEMMA SetPriorityBase ==
    ASSUME MutexInv, NEW s \in Thread, NEW p \in UserPriority, ThreadSetPriority(s, p)
    PROVE  BaseKept
<1> DEFINE n == SetPriority(k, s, p)
           i == k.priority_inherited[s]
<1>1. k \in KernelState /\ KernelInv(k) /\ \A t \in Thread : t \in AllThread
  BY MutexFacts
<1>2. k' = Unlock(n) /\ KernelInv(n)
  BY <1>1, SetPriorityInv, MutexFacts DEF ThreadSetPriority
<1>3. Loan(n, k, s, IF i /\ k.priority[s] <= p THEN k.priority[s] ELSE p,
           IF i THEN p ELSE k.original_priority[s], i)
  BY <1>1, SetPriorityLoans
<1> HIDE DEF n
<1>4. /\ k'.priority = n.priority /\ k'.original_priority = n.original_priority
      /\ k'.priority_inherited = n.priority_inherited
  BY <1>2, LockLoans DEF KernelInv, SameLoans
<1>5. /\ k.priority \in [AllThread -> Priority]
      /\ k.original_priority \in [AllThread -> Priority]
      /\ k.priority_inherited \in [AllThread -> BOOLEAN]
  BY <1>1 DEF KernelState
<1>6. ASSUME NEW t \in Thread
      PROVE  GetPriority(k', t) = IF t = s THEN p ELSE GetPriority(k, t)
  <2>1. CASE t = s
    BY <1>1, <1>3, <1>4, <1>5, <2>1 DEF Loan, GetPriority
  <2>2. CASE t # s
    BY <1>1, <1>3, <1>4, <1>5, <2>2 DEF Loan, GetPriority
  <2> QED BY <2>1, <2>2
<1> QED BY <1>6 DEF BaseKept

\* The invariant holds at the start.
LEMMA MutexInitInv == MutexInit => MutexInv
<1> SUFFICES ASSUME MutexInit PROVE MutexInv
  OBVIOUS
<1>1. KInv /\ Init
  BY InitKInv DEF MutexInit
<1>2. \A t \in AllThread : /\ pc[t] = "user" /\ Life(k, t).on = {}
                           /\ Life(k, t).sleep = "NONE"
                           /\ "SLEEPING" \notin Life(k, t).state
                           /\ "COUNTSLEEP" \notin Life(k, t).state
  BY <1>1, InitKInv
<1>3. \A t \in AllThread : MxOK(Life(k, t), pc[t], mx[t])
  BY <1>2 DEF MxOK, MutexPC, PC, AtLock, AtCond, SleeperOK
<1>4. MutexTypes
  BY MutexAssumption DEF MutexInit, MutexTypes
<1>5. \A t \in Thread : t \in AllThread /\ ~InLock(t)
  BY <1>2 DEF InLock, AllThread
<1>6. k \in KernelState
  BY <1>1 DEF KInv, KernelInv
<1>7. NoLostWakeup
  <2>1. \A m \in Mutexes : Covered(m)
    BY <1>2 DEF Covered
  <2> QED BY <1>6, <2>1, LostWakeupIsCovered
<1>8. \A t \in AllThread : ~k.priority_inherited[t]
  BY <1>1 DEF Init, KernelInit
<1> QED BY <1>1, <1>3, <1>4, <1>5, <1>7, <1>8 DEF MutexInv, LoansOK

\* Every step keeps it, brings the waits on condition variables back to the
\* owner, and keeps the base priorities.
LEMMA MutexNextInv == MutexInv /\ [MutexNext]_mutexVars => MutexInv' /\ CondReturns /\ BaseKept
<1> SUFFICES ASSUME MutexInv, [MutexNext]_mutexVars
             PROVE  MutexInv' /\ CondReturns /\ BaseKept
  OBVIOUS
<1>1. ASSUME GoodStep PROVE MutexInv' /\ CondReturns /\ BaseKept
  BY <1>1, MutexFacts DEF GoodStep, Repays, BaseKept
<1>2. ASSUME NEW m \in Mutexes, MutexOperation(m) PROVE GoodStep
  BY <1>2, MutexLockInv, MutexTrylockInv, MutexUnlockInv, MutexReleaseDequeues,
     DequeuesInv, MutexSetInv DEF MutexOperation
<1>3. ASSUME NEW v \in Condvars, CondOperation(v) PROVE GoodStep
  <2>1. ASSUME NEW m \in Mutexes,
               CondWait(v, m) \/ \E past \in BOOLEAN : CondTimedWait(v, m, past)
        PROVE  GoodStep
    <3>1. \E n, l, c : CondSleep(n, l, c, v, m)
      BY <2>1, CondWaitSleeps, CondTimedWaitSleeps
    <3> QED BY <3>1, CondSleepInv
  <2>2. CASE CondSignal(v)
    BY <2>2, CondSignalDequeues, DequeuesInv
  <2>3. CASE CondBroadcast(v)
    BY <2>3, CondBroadcastDequeues, DequeuesInv
  <2> QED BY <1>3, <2>1, <2>2, <2>3 DEF CondOperation
<1>4. CASE UNCHANGED mutexVars
  <2>1. UNCHANGED <<k, pc, ticks, owner, protocol, ceiling, mx>>
    BY <1>4 DEF mutexVars
  <2>2. MutexInv'
    <3>1. KInv' /\ MutexTypes' /\ LoansOK(k')
      BY <2>1 DEF MutexInv, KInv, MutexTypes
    <3>2. NoLostWakeup' /\ \A t \in Thread : InLock(t)' => owner'[mx'[t]] # t
      BY <2>1 DEF MutexInv, NoLostWakeup, InLock
    <3>3. \A t \in AllThread : MxOK(Life(k', t), pc'[t], mx'[t])
      BY <2>1 DEF MutexInv
    <3> QED BY <3>1, <3>2, <3>3 DEF MutexInv
  <2>3. CondReturns
    BY <2>1 DEF CondReturns, AtCond
  <2>4. BaseKept
    BY <2>1 DEF BaseKept
  <2> QED BY <2>2, <2>3, <2>4
<1>5. CASE Next /\ UNCHANGED <<owner, protocol, ceiling, mx>>
  <2>1. /\ MutexInv' /\ CondReturns
        /\ Repays(k', k) \/ \E t \in Thread, p \in UserPriority : ThreadSetPriority(t, p)
    BY <1>5, MutexOtherInv
  <2>2. CASE Repays(k', k)
    BY <2>1, <2>2, MutexFacts DEF Repays, BaseKept
  <2>3. CASE \E t \in Thread, p \in UserPriority : ThreadSetPriority(t, p)
    BY <2>1, <2>3, SetPriorityBase
  <2> QED BY <2>1, <2>2, <2>3
<1>6. MutexLockWoken \/ CondWoken \/ CondRelock => GoodStep
  BY MutexLockWokenInv, CondWokenInv, CondRelockInv
<1> QED BY <1>1, <1>2, <1>3, <1>4, <1>5, <1>6 DEF MutexNext

\* The inductive invariant holds along every behaviour.
THEOREM MutexInvTheorem == MutexSpec => []MutexInv
BY MutexInitInv, MutexNextInv, PTL DEF MutexSpec

\* Exactly the threads asleep in lock() and in the condition waits are queued,
\* each on its mutex or on a condition variable, whatever unlock(), signal(),
\* broadcast(), timeouts, release(), suspend() and kill() have done to them.
THEOREM WaitersQueuedTheorem == MutexSpec => []WaitersAreQueued
<1>1. MutexInv => WaitersAreQueued
  <2> SUFFICES ASSUME MutexInv PROVE WaitersAreQueued
    OBVIOUS
  <2>1. /\ k \in KernelState /\ QueuesDistinct(k)
        /\ \A t \in AllThread : MxOK(Life(k, t), pc[t], mx[t])
        /\ \A t \in Thread : t \in AllThread
        /\ Mutexes \cup Condvars \subseteq WaitQueue
    BY MutexFacts, MutexAssumption
  <2>2. \A t \in AllThread : "SLEEPING" \in k.state[t] <=> "SLEEPING" \in Life(k, t).state
    BY DEF Life
  <2>3. ASSUME NEW t \in AllThread
        PROVE  /\ Life(k, t).on # {} => "SLEEPING" \in k.state[t]
               /\ \A q, r : q \in Life(k, t).on /\ r \in Life(k, t).on => q = r
               /\ "SLEEPING" \in k.state[t] /\ pc[t] \in AtLock => mx[t] \in Life(k, t).on
               /\ "SLEEPING" \in k.state[t] /\ pc[t] \in AtCond =>
                     \E v \in Condvars : v \in Life(k, t).on
               /\ pc[t] \in AtLock => mx[t] \in Mutexes
    <3>1. MxOK(Life(k, t), pc[t], mx[t])
      BY <2>1
    <3> QED BY <2>2, <3>1 DEF MxOK, MutexPC, SleeperOK, AtLock, PC
  <2>4. ASSUME NEW q \in WaitQueue, NEW t \in Range(k.wait_queue[q])
        PROVE  t \in AllThread /\ q \in Life(k, t).on
    <3>1. k.wait_queue[q] \in Seq(AllThread)
      BY <2>1 DEF KernelState
    <3>2. t \in AllThread
      BY <3>1, ElementOfSeq, LenProperties DEF Range
    <3> QED BY <2>1, <3>2, QueueLife
  <2>5. WaitQueuesOK(k)
    BY <2>1, <2>3, <2>4 DEF WaitQueuesOK, QueuesDistinct
  <2>6. ASSUME NEW t \in Thread, "SLEEPING" \in k.state[t]
        PROVE  /\ InLock(t) => t \in Range(k.wait_queue[mx[t]])
               /\ pc[t] \in {"cwait", "ctwait"} =>
                    \E v \in Condvars : t \in Range(k.wait_queue[v])
    <3>1. CASE InLock(t)
      <4>1. mx[t] \in Life(k, t).on /\ mx[t] \in WaitQueue
        BY <2>1, <2>3, <2>6, <3>1 DEF InLock, AtLock
      <4> QED BY <2>1, <3>1, <4>1, QueueLife DEF InLock
    <3>2. CASE pc[t] \in AtCond
      <4>1. PICK v \in Condvars : v \in Life(k, t).on
        BY <2>1, <2>3, <2>6, <3>2
      <4>2. t \in Range(k.wait_queue[v])
        BY <2>1, <4>1, QueueLife
      <4> QED BY <3>2, <4>1, <4>2 DEF InLock, AtCond
    <3> QED BY <3>1, <3>2 DEF InLock, AtCond
  <2> QED BY <2>5, <2>6 DEF WaitersAreQueued
<1> QED BY <1>1, MutexInvTheorem, PTL

\* No wakeup of unlock() is lost: a free mutex with sleepers has a thread that
\* was woken to claim it, even if others take and free the mutex meanwhile.
THEOREM NoLostWakeupTheorem == MutexSpec => []NoLostWakeup
<1>1. MutexInv => NoLostWakeup
  BY DEF MutexInv
<1> QED BY <1>1, MutexInvTheorem, PTL

\* A condition wait returns to its caller as the owner of the mutex, or has
\* exited, however often the relocking was broken by release().
THEOREM CondWaitReturnsTheorem == MutexSpec => CondWaitReturnsOwner
<1> DEFINE Returns ==
              \A t \in Thread :
                 pc[t] \in {"cwait", "ctwait", "relock", "cvlock"} /\ pc'[t] = "user" =>
                    owner'[mx[t]] = t \/ "EXITED" \in k'.state[t]
<1>1. MutexInv /\ [MutexNext]_mutexVars => Returns
  BY MutexNextInv DEF CondReturns, AtCond
<1> HIDE DEF Returns
<1>2. MutexSpec => [][Returns]_mutexVars
  BY <1>1, MutexInvTheorem, PTL DEF MutexSpec
<1> QED BY <1>2 DEF CondWaitReturnsOwner, Returns

\* Inheriting, relaying, raising and giving back priorities never changes what
\* get_priority() reports.
THEOREM BasePriorityTheorem == MutexSpec => BasePriorityKept
<1>1. MutexInv /\ [MutexNext]_mutexVars => BaseKept
  BY MutexNextInv
<1>2. MutexSpec => [][BaseKept]_mutexVars
  BY <1>1, MutexInvTheorem, PTL DEF MutexSpec
<1> QED BY <1>2 DEF BasePriorityKept, BaseKept

-----------------------------------------------------------------------------
(* The kinds of steps, for the mutex counts and the priorities *)

\* What a step by the current thread, which leads to kernel state n, does to the
\* counts and the priorities: its own count changes by d, h is the thread to
\* which a priority is lent.
LoanStep(n, d, h) ==
    /\ n.mutex_count = [k.mutex_count EXCEPT ![self] = k.mutex_count[self] + d]
    /\ \A t \in Thread \ {self} :
         /\ n.priority_inherited[t] => k.priority_inherited[t] \/ t = h
         /\ n.priority[t] <= k.priority[t]
         /\ t # h => n.priority[t] = k.priority[t]
    /\ d = -1 /\ n.priority_inherited[self] => n.mutex_count[self] # 0
    /\ d = 0 /\ n.priority_inherited[self] => k.priority_inherited[self]
    /\ d # -1 => n.priority[self] <= k.priority[self]

\* The current thread goes for m: for the first time, or back in lock().
Enters(m, d) ==
    /\ self \in Thread /\ k.sched_lock \in {"thread", "inner"}
    /\ IF pc[self] \in AtLock THEN d = 0 /\ mx[self] = m
       ELSE /\ d = 1 /\ owner[m] # self /\ pc[self] \in {"user", "relock"}
            /\ pc[self] = "user" => Cardinality(Held(self)) < MaxHeld

\* It takes m.
TakeStep(m, d) ==
    /\ Enters(m, d) /\ LoanStep(k', d, None) /\ Same(k', k)
    /\ owner[m] = None /\ owner' = [owner EXCEPT ![m] = self]
    /\ pc' = [pc EXCEPT ![self] = "user"]
    /\ \A t \in AllThread \ {self} : mx'[t] = mx[t]

\* It waits for m.
BlockStep(m, d) ==
    /\ Enters(m, d) /\ LoanStep(k', d, owner[m])
    /\ Only(k', k, self, Blocked(Life(k, self), "WAIT", m))
    /\ owner[m] \in Thread \ {self} /\ UNCHANGED owner
    /\ pc' = [pc EXCEPT ![self] = pc'[self]] /\ pc'[self] \in AtLock
    /\ mx' = [mx EXCEPT ![self] = m]
    /\ protocol[m] = "INHERIT" => k'.priority[owner[m]] <= k'.priority[self]

\* Its lock() fails.
FailStep ==
    /\ self \in Thread /\ pc[self] \in AtLock
    /\ Life(k, self).state = {} /\ Life(k, self).wake # "DONE"
    /\ LoanStep(k', -1, None) /\ Same(k', k)
    /\ pc' = [pc EXCEPT ![self] = pc'[self]] /\ pc'[self] \in {"user", "relock"}
    /\ UNCHANGED <<owner, mx>>

\* It frees m, and may go on to sleep on a condition variable.
FreeStep(m) ==
    /\ InThread /\ owner[m] = self /\ owner' = [owner EXCEPT ![m] = None]
    /\ LoanStep(k', -1, Heir(m)) /\ Heir(m) # self
    /\ Heir(m) = None \/ (Heir(m) \in Thread /\ m \in Life(k, Heir(m)).on)
    /\ Heir(m) = None => \A t \in AllThread : m \notin Life(k, t).on
    /\ \A t \in AllThread \ {self} :
         Life(k', t) = IF t = Heir(m) THEN Dequeued(Life(k, t), "DONE") ELSE Life(k, t)
    /\ Life(k', self).on \cap Mutexes = {} /\ Life(k', self).state \subseteq SLEEPSET
    /\ pc' = [pc EXCEPT ![self] = pc'[self]] /\ pc'[self] \in {"user"} \cup AtCond
    /\ \A t \in AllThread \ {self} : mx'[t] = mx[t]
    /\ protocol[m] = "INHERIT" /\ Heir(m) \in Thread /\ OthersWait(m, Heir(m)) =>
         k'.priority[Heir(m)] <= k.priority[self]

\* Nobody suspends or kills a thread, or sets its priority.
Undisturbed == Ops \cap {"suspend", "kill", "set_priority"} = {}

\* A thread stays in its call on a mutex or out of all of them, or exits.
RestsAt(t) ==
    \/ pc'[t] = pc[t] /\ mx'[t] = mx[t]
    \/ /\ pc[t] \notin AtLock /\ pc'[t] \notin AtLock
       /\ pc'[t] \notin PC => pc[t] \notin PC
    \/ /\ Life(k, t).wake # "DONE" /\ pc'[t] = "user"
       /\ "EXITED" \in Life(k', t).state

\* Mutexes and counts stay.
RestStep ==
    /\ UNCHANGED owner
    /\ k'.mutex_count = k.mutex_count /\ k'.priority_inherited = k.priority_inherited
    /\ Undisturbed => k'.priority = k.priority
    /\ \A t \in Thread :
         /\ RestsAt(t)
         /\ "EXITED" \in Life(k, t).state => "EXITED" \in Life(k', t).state
         /\ Life(k', t).on \cap Mutexes \subseteq Life(k, t).on
         /\ pc'[t] \notin PC =>
              /\ Life(k, t).wake = "DONE" => Life(k', t).wake = "DONE"
              /\ Undisturbed => Life(k', t).state \subseteq Life(k, t).state

MutexStep ==
    \/ \E m \in Mutexes : \/ \E d \in {0, 1} : TakeStep(m, d) \/ BlockStep(m, d)
                          \/ FreeStep(m)
    \/ FailStep
    \/ RestStep

\* Later operations that leave the loans alone.
LEMMA LoanStepKept ==
    ASSUME NEW n, NEW r, NEW d, NEW h, LoanStep(n, d, h), SameLoans(r, n)
    PROVE  LoanStep(r, d, h)
BY DEF LoanStep, SameLoans

\* An operation that leaves them alone.
LEMMA LoanStepNone ==
    ASSUME MutexInv, NEW n, SameLoans(n, k)
    PROVE  LoanStep(n, 0, None)
<1>1. k \in KernelState /\ self \in AllThread
  BY MutexFacts
<1>2. /\ k.mutex_count \in [AllThread -> Int] /\ k.priority \in [AllThread -> Int]
      /\ \A t \in Thread : t \in AllThread
  BY <1>1, LoanTypes
<1>3. k.mutex_count = [k.mutex_count EXCEPT ![self] = k.mutex_count[self] + 0]
  BY <1>1, <1>2
<1>4. \A t \in AllThread : k.priority[t] <= k.priority[t]
  BY <1>2
<1> QED BY <1>1, <1>2, <1>3, <1>4 DEF LoanStep, SameLoans

\* count_mutex() and set_priority_ceiling() at the start of lock() and trylock().
LEMMA ClaimLoans ==
    ASSUME MutexInv, k.sched_lock = "thread", self # Idle, NEW m \in Mutexes,
           protocol[m] # "NONE"
    PROVE  LoanStep(RaiseToCeiling(CountMutex(k, m, self), m, self), 1, None)
<1> DEFINE k1 == CountMutex(k, m, self)
           n  == RaiseToCeiling(k1, m, self)
           c  == ceiling[m]
<1>1. KernelInv(k) /\ QueuesDistinct(k) /\ self \in Thread /\ self \in AllThread
      /\ Settled(k, self) /\ c \in UserPriority /\ k \in KernelState
  BY MutexFacts, MutexCaller, MutexAssumption DEF MutexInv, MutexTypes
<1>2. Quiet(k1, k) /\ Counted(k1, k, self, 1)
  BY <1>1, CountMutexFacts
<1> HIDE DEF k1
<1>3. KernelInv(k1) /\ QueuesDistinct(k1) /\ Settled(k1, self) /\ k1 \in KernelState
  BY <1>1, <1>2 DEF Quiet, Same, Settled, KernelInv
<1>4. IF protocol[m] = "CEILING" THEN Lent(n, k1, self, c) ELSE n = k1
  BY <1>1, <1>3, RaiseToCeilingFacts
<1> HIDE DEF n
<1>5. /\ k.priority \in [AllThread -> Int] /\ k.mutex_count \in [AllThread -> Int]
      /\ k1.priority = k.priority /\ k1.priority_inherited = k.priority_inherited
      /\ k1.mutex_count = [k.mutex_count EXCEPT ![self] = k.mutex_count[self] + 1]
      /\ \A t \in Thread : t \in AllThread
      /\ k.priority_inherited \in [AllThread -> BOOLEAN]
  BY <1>1, <1>2, LoanTypes DEF Counted
<1>6. c \in Int
  BY <1>1 DEF UserPriority
<1>7. /\ n.mutex_count = k1.mutex_count
      /\ \A t \in Thread \ {self} : /\ n.priority_inherited[t] = k.priority_inherited[t]
                                    /\ n.priority[t] = k.priority[t]
      /\ n.priority[self] <= k.priority[self]
  <2> HIDE DEF c
  <2>1. CASE n = k1 \/ SameLoans(n, k1)
    BY <1>1, <1>5, <2>1 DEF SameLoans
  <2>2. CASE Lent(n, k1, self, c) /\ ~SameLoans(n, k1)
    <3>1. c < k.priority[self]
      BY <1>1, <1>5, <1>6, <2>2 DEF Lent
    <3> QED BY <1>1, <1>5, <1>6, <2>2, <3>1 DEF Lent, Loan
  <2> QED BY <1>4, <2>1, <2>2
<1>8. \A t \in Thread : n.priority[t] <= k.priority[t]
  BY <1>5, <1>7
<1> QED BY <1>5, <1>7, <1>8 DEF LoanStep, n, k1

\* A loan to another thread.
LEMMA LoanStepLent ==
    ASSUME MutexInv, NEW n \in KernelState, NEW d \in {0, 1}, LoanStep(n, d, None),
           NEW o \in Thread \ {self}, NEW p \in Int, NEW r, Lent(r, n, o, p)
    PROVE  LoanStep(r, d, o) /\ r.priority[o] <= p /\ r.priority[self] = n.priority[self]
<1>1. /\ n.priority \in [AllThread -> Int] /\ n.priority_inherited \in [AllThread -> BOOLEAN]
      /\ k.priority \in [AllThread -> Int] /\ k.priority_inherited \in [AllThread -> BOOLEAN]
      /\ \A t \in Thread : t \in AllThread
      /\ self \in AllThread /\ None \notin Thread
  BY MutexFacts, LoanTypes
<1>2. /\ n.mutex_count = [k.mutex_count EXCEPT ![self] = k.mutex_count[self] + d]
      /\ \A t \in Thread \ {self} :
            /\ n.priority_inherited[t] => k.priority_inherited[t]
            /\ n.priority[t] = k.priority[t]
      /\ d = 0 /\ n.priority_inherited[self] => k.priority_inherited[self]
      /\ n.priority[self] <= k.priority[self]
  BY <1>1 DEF LoanStep
<1>3. /\ r.mutex_count = n.mutex_count
      /\ \A t \in AllThread \ {o} : /\ r.priority_inherited[t] = n.priority_inherited[t]
                                    /\ r.priority[t] = n.priority[t]
      /\ r.priority[o] <= n.priority[o] /\ r.priority[o] <= p
  <2>1. CASE p >= n.priority[o]
    BY <1>1, <2>1 DEF Lent, SameLoans
  <2>2. CASE p < n.priority[o]
    BY <1>1, <2>2 DEF Lent, Loan
  <2> QED BY <1>1, <2>1, <2>2
<1>4. \A t \in Thread \ {self} :
         /\ r.priority_inherited[t] => k.priority_inherited[t] \/ t = o
         /\ r.priority[t] <= k.priority[t]
         /\ t # o => r.priority[t] = k.priority[t]
  <2> SUFFICES ASSUME NEW t \in Thread \ {self}
               PROVE  /\ r.priority_inherited[t] => k.priority_inherited[t] \/ t = o
                      /\ r.priority[t] <= k.priority[t]
                      /\ t # o => r.priority[t] = k.priority[t]
    OBVIOUS
  <2>1. CASE t = o
    BY <1>1, <1>2, <1>3, <2>1
  <2>2. CASE t # o
    BY <1>1, <1>2, <1>3, <2>2
  <2> QED BY <2>1, <2>2
<1>5. r.priority[self] = n.priority[self]
      /\ r.priority_inherited[self] = n.priority_inherited[self]
  BY <1>1, <1>3
<1>6. d # -1
  OBVIOUS
<1> QED BY <1>2, <1>3, <1>4, <1>5, <1>6 DEF LoanStep

\* A turn of the loop of lock() takes the mutex or waits for it.
LEMMA AcquireStep ==
    ASSUME MutexInv, NEW n, Quiet(n, k), NEW d \in {0, 1}, LoanStep(n, d, None),
           NEW m \in Mutexes, NEW at \in AtLock, Enters(m, d), owner[m] # self,
           Acquire(n, m, at), mx' = [mx EXCEPT ![self] = m]
    PROVE  TakeStep(m, d) \/ BlockStep(m, d)
<1> DEFINE l == Life(k, self)
<1>1. /\ KernelInv(k) /\ QueuesDistinct(k) /\ k \in KernelState
      /\ self \in AllThread /\ self = k.current /\ self \in Thread /\ self # Idle
      /\ m \in WaitQueue /\ owner[m] \in Thread \cup {None}
      /\ l.state = {} /\ MxOK(l, pc[self], mx[self])
      /\ \A t \in Thread : t \in AllThread
      /\ mx = [t \in AllThread |-> mx[t]] /\ pc = [t \in AllThread |-> pc[t]]
  BY MutexFacts DEF Enters
<1>2. /\ KernelInv(n) /\ QueuesDistinct(n) /\ n.current = self /\ n \in KernelState
      /\ Same(n, k) /\ \A t \in AllThread : Life(n, t) = Life(k, t)
  BY <1>1 DEF Quiet, Same, Keeps, KernelInv
<1>3. l.on = {}
  BY <1>1, MxSettled
<1>4. CASE /\ owner[m] = None /\ k' = Unlock(n)
           /\ owner' = [owner EXCEPT ![m] = self]
           /\ pc' = [pc EXCEPT ![self] = "user"]
  <2>1. SameLoans(k', n) /\ Same(k', n)
    BY <1>2, <1>4, LockLoans, LockLife
  <2>2. LoanStep(k', d, None) /\ Same(k', k)
    BY <1>2, <2>1, LoanStepKept, SameTransitive
  <2>3. \A t \in AllThread \ {self} : mx'[t] = mx[t]
    BY <1>1
  <2> QED BY <1>4, <2>2, <2>3 DEF TakeStep
<1>5. CASE /\ owner[m] # None
           /\ k' = Reschedule(Inherit(Enqueue(Sleep(SetSleepReason(n, "WAIT")), m, self), m, self))
           /\ pc' = [pc EXCEPT ![self] = at] /\ UNCHANGED owner
  <2> DEFINE k2 == Enqueue(Sleep(SetSleepReason(n, "WAIT")), m, self)
             r  == Inherit(k2, m, self)
             o  == owner[m]
             b  == Blocked(l, "WAIT", m)
             p  == k2.priority[self]
  <2>1. KernelInv(k2) /\ Only(k2, n, self, b)
    BY <1>1, <1>2, <1>3, BlockLife DEF SleepReason
  <2>2. SameLoans(k2, n)
    BY <1>1, <1>2, BlockLoans DEF SleepReason
  <2> HIDE DEF k2
  <2>3. o \in Thread \ {self} /\ o \in AllThread
    BY <1>1, <1>5
  <2>4. QueuesDistinct(k2) /\ Life(k2, o) = Life(k, o) /\ Settled(k2, o) /\ k2 \in KernelState
    BY <1>2, <2>1, <2>3, MutexFacts DEF Only, Settled, KernelInv
  <2>5. /\ Quiet(r, k2)
        /\ IF protocol[m] = "INHERIT" THEN Lent(r, k2, o, p) ELSE r = k2
    BY <1>1, <2>1, <2>3, <2>4, InheritFacts
  <2>6. k' = Reschedule(r)
    BY <1>5 DEF r, k2
  <2> HIDE DEF r
  <2>7. KernelInv(r) /\ Only(r, n, self, b) /\ QueuesDistinct(r) /\ r \in KernelState
    BY <1>1, <2>1, <2>5, OnlySame DEF Quiet, Same, KernelInv
  <2>8. Only(k', k, self, b) /\ SameLoans(k', r)
    <3>1. Same(k', r) /\ SameLoans(k', r)
      BY <2>6, <2>7, LockLife, LockLoans
    <3>2. Only(k', n, self, b)
      BY <1>1, <2>7, <3>1, OnlySame
    <3> QED BY <1>2, <3>1, <3>2 DEF Only
  <2>9. LoanStep(k2, d, None) /\ p \in Int
    BY <1>1, <2>2, <2>4, LoanStepKept, LoanTypes
  <2> HIDE DEF o, p, b
  <2>10. LoanStep(r, d, o) /\ (protocol[m] = "INHERIT" => r.priority[o] <= r.priority[self])
    <3>1. CASE protocol[m] = "INHERIT"
      <4>1. Lent(r, k2, o, p)
        BY <2>5, <3>1
      <4>2. LoanStep(r, d, o) /\ r.priority[o] <= p /\ r.priority[self] = k2.priority[self]
        BY <2>3, <2>4, <2>9, <4>1, LoanStepLent
      <4> QED BY <4>2 DEF p
    <3>2. CASE protocol[m] # "INHERIT"
      <4>1. r = k2
        BY <2>5, <3>2
      <4>2. LoanStep(k2, d, o)
        BY <2>9, MutexFacts DEF LoanStep
      <4> QED BY <3>2, <4>1, <4>2
    <3> QED BY <3>1, <3>2
  <2>11. LoanStep(k', d, o) /\ (protocol[m] = "INHERIT" => k'.priority[o] <= k'.priority[self])
    BY <2>8, <2>10, LoanStepKept DEF SameLoans
  <2>12. pc'[self] = at
    BY <1>1, <1>5
  <2> QED BY <1>5, <2>3, <2>8, <2>11, <2>12 DEF BlockStep, o, b
<1> QED BY <1>4, <1>5 DEF Acquire

\* lock(), and the end of a condition wait.
LEMMA LockStep ==
    ASSUME MutexInv, "NONE" \notin Protocols,
           (\E m \in Mutexes : MutexLock(m)) \/ CondRelock
    PROVE  MutexStep
<1>1. ASSUME NEW m \in Mutexes, NEW at \in AtLock, k.sched_lock = "thread", self # Idle,
             Lock(m, at), pc[self] \in {"user", "relock"},
             pc[self] = "user" => Cardinality(Held(self)) < MaxHeld
      PROVE  MutexStep
  <2> DEFINE n == RaiseToCeiling(CountMutex(k, m, self), m, self)
  <2>1. protocol[m] # "NONE"
    BY DEF MutexInv, MutexTypes
  <2>2. Quiet(n, k) /\ LoanStep(n, 1, None)
    BY <1>1, <2>1, ClaimFacts, ClaimLoans
  <2>3. owner[m] # self /\ Acquire(n, m, at) /\ mx' = [mx EXCEPT ![self] = m]
    BY <1>1 DEF Lock
  <2>4. Enters(m, 1)
    BY <1>1, <2>3, MutexCaller DEF Enters, AtLock
  <2> HIDE DEF n
  <2>5. TakeStep(m, 1) \/ BlockStep(m, 1)
    BY <1>1, <2>2, <2>3, <2>4, AcquireStep
  <2> QED BY <2>5 DEF MutexStep
<1>2. ASSUME NEW m \in Mutexes, MutexLock(m) PROVE MutexStep
  BY <1>1, <1>2 DEF MutexLock, InThread, AtLock
<1>3. CASE CondRelock
  <2>1. k.sched_lock = "thread" /\ pc[self] = "relock" /\ Lock(mx[self], "cvlock")
    BY <1>3 DEF CondRelock
  <2>2. self # Idle /\ mx[self] \in Mutexes
    BY <2>1, MutexFacts DEF MxOK, PC
  <2> QED BY <1>1, <2>1, <2>2 DEF AtLock
<1> QED BY <1>2, <1>3

\* trylock().
LEMMA TrylockStep ==
    ASSUME MutexInv, "NONE" \notin Protocols, NEW m \in Mutexes, MutexTrylock(m),
           owner[m] = None
    PROVE  TakeStep(m, 1)
<1> DEFINE n == RaiseToCeiling(CountMutex(k, m, self), m, self)
<1>1. /\ InThread /\ Cardinality(Held(self)) < MaxHeld
      /\ owner' = [owner EXCEPT ![m] = self] /\ k' = Unlock(n)
      /\ UNCHANGED <<pc, ticks, protocol, ceiling, mx>>
  BY DEF MutexTrylock
<1>2. /\ self \in Thread /\ pc[self] = "user" /\ pc = [pc EXCEPT ![self] = "user"]
      /\ self # Idle /\ k.sched_lock = "thread" /\ protocol[m] # "NONE" /\ self # None
  BY <1>1, MutexUser, MutexFacts DEF InThread
<1>3. Quiet(n, k) /\ LoanStep(n, 1, None)
  BY <1>2, ClaimFacts, ClaimLoans
<1> HIDE DEF n
<1>4. KernelInv(n) /\ QueuesDistinct(n) /\ Same(n, k)
  BY <1>3 DEF Quiet, Same
<1>5. SameLoans(k', n) /\ Same(k', n)
  BY <1>1, <1>4, LockLoans, LockLife DEF KernelInv
<1>6. LoanStep(k', 1, None) /\ Same(k', k)
  BY <1>3, <1>4, <1>5, LoanStepKept, SameTransitive
<1> QED BY <1>1, <1>2, <1>6 DEF TakeStep, Enters, AtLock

\* What others do to a thread does not bring it back to life, and keeps it
\* from running only if they suspend or kill it.
LEMMA AffectedState ==
    ASSUME NEW l \in LifeType, NEW m, Affected(l, m)
    PROVE  /\ "EXITED" \in l.state => "EXITED" \in m.state
           /\ Undisturbed => m.state \subseteq l.state
<1>1. CASE m = l
  BY <1>1
<1>2. CASE m = Unsuspended(l)
  BY <1>2, UnsuspendedFields
<1>3. CASE m = Released(l)
  BY <1>3, ReleasedFields DEF SLEEPSET
<1>4. CASE m = CountWoken(l)
  BY <1>4, CountWokenFields DEF SLEEPSET
<1>5. CASE m = Readied(l)
  BY <1>5 DEF Readied, Unqueued
<1>6. CASE "suspend" \in Ops /\ m = Suspended(l)
  BY <1>6 DEF Suspended, WithState, Undisturbed
<1>7. CASE "kill" \in Ops /\ m = Killed(l)
  <2>1. "EXITED" \in l.state => "EXITED" \in m.state
    BY <1>7, KilledFields DEF SLEEPSET
  <2> QED BY <1>7, <2>1 DEF Undisturbed
<1>8. CASE l.timer /\ m = Alarmed(l)
  <2>1. CASE l.sleep \in {"DELAY", "TIMEOUT"}
    BY <1>8, <2>1, AlarmedFields DEF SLEEPSET
  <2>2. CASE l.sleep \notin {"DELAY", "TIMEOUT"}
    <3>1. m = TimerOff(l)
      BY <1>8, <2>2, AlarmedFields
    <3> QED BY <3>1 DEF TimerOff
  <2> QED BY <2>1, <2>2
<1> QED BY <1>1, <1>2, <1>3, <1>4, <1>5, <1>6, <1>7, <1>8 DEF Affected

\* A step of Threads on the loans.
LEMMA OtherLoans ==
    ASSUME MutexInv, Next
    PROVE  /\ k'.mutex_count = k.mutex_count
           /\ k'.priority_inherited = k.priority_inherited
           /\ Undisturbed => k'.priority = k.priority
<1>1. KInv /\ KernelInv(k) /\ k \in KernelState /\ \A t \in Thread : t \in AllThread
  BY MutexFacts
<1>2. CASE SameLoans(k', k)
  BY <1>2 DEF SameLoans
<1>3. ASSUME NEW t \in Thread, NEW p \in UserPriority, ThreadSetPriority(t, p)
      PROVE  /\ k'.mutex_count = k.mutex_count
             /\ k'.priority_inherited = k.priority_inherited
             /\ ~Undisturbed
  <2> DEFINE n == SetPriority(k, t, p)
             i == k.priority_inherited[t]
  <2>1. k' = Unlock(n) /\ KernelInv(n) /\ ~Undisturbed
    BY <1>1, <1>3, SetPriorityInv, MutexFacts DEF ThreadSetPriority, Undisturbed
  <2>2. Loan(n, k, t, IF i /\ k.priority[t] <= p THEN k.priority[t] ELSE p,
             IF i THEN p ELSE k.original_priority[t], i)
    BY <1>1, <1>3, SetPriorityLoans
  <2> HIDE DEF n
  <2>3. SameLoans(k', n)
    BY <2>1, LockLoans DEF KernelInv
  <2>4. k.priority_inherited \in [AllThread -> BOOLEAN]
    BY <1>1 DEF KernelState
  <2>5. n.mutex_count = k.mutex_count /\ n.priority_inherited = k.priority_inherited
    BY <1>1, <1>3, <2>2, <2>4 DEF Loan
  <2> QED BY <2>1, <2>3, <2>5 DEF SameLoans
<1> QED BY <1>1, <1>2, <1>3, NextLoans

\* A step of Threads.
LEMMA OtherStep ==
    ASSUME MutexInv, Next, UNCHANGED <<owner, protocol, ceiling, mx>>
    PROVE  RestStep
<1>1. KInv /\ k \in KernelState /\ \E t \in AllThread : Moves(t)
  BY MutexFacts, NextMoves
<1>2. PICK s \in AllThread : Moves(s)
  BY <1>1
<1> DEFINE l == Life(k, s)
           m == Life(k', s)
<1>3. /\ \A u \in AllThread \ {s} : Life(k', u) = Life(k, u)
      /\ pc' = [pc EXCEPT ![s] = pc'[s]]
      /\ \/ Affected(l, m) /\ pc'[s] = pc[s]
         \/ s # Idle /\ Acts(l, pc[s], m, pc'[s])
  BY <1>2 DEF Moves, Turn, Only
<1>4. /\ pc = [t \in AllThread |-> pc[t]] /\ \A t \in Thread : t \in AllThread
      /\ MxOK(l, pc[s], mx[s]) /\ l \in LifeType
  BY <1>1, MutexFacts, LifeTyped
<1>5. \A u \in AllThread \ {s} : pc'[u] = pc[u]
  BY <1>3, <1>4
<1>6. /\ pc'[s] = pc[s] \/ (pc[s] \in PC /\ pc'[s] \in PC)
      /\ "EXITED" \in l.state => "EXITED" \in m.state
      /\ m.on \subseteq l.on
      /\ pc'[s] \notin PC => /\ l.wake = "DONE" => m.wake = "DONE"
                             /\ Undisturbed => m.state \subseteq l.state
  <2>1. CASE Affected(l, m) /\ pc'[s] = pc[s]
    <3>1. \E Q : SleeperOK(l, Q)
      BY <1>4 DEF MxOK, MutexPC
    <3>2. m.on \subseteq l.on /\ (l.wake = "DONE" => m.wake = "DONE")
      <4> HIDE DEF l, m
      <4> QED BY <1>4, <2>1, <3>1, AffectedSleeper
    <3>3. /\ "EXITED" \in l.state => "EXITED" \in m.state
          /\ Undisturbed => m.state \subseteq l.state
      <4> HIDE DEF l, m
      <4> QED BY <1>4, <2>1, AffectedState
    <3> QED BY <2>1, <3>2, <3>3
  <2>2. CASE s # Idle /\ Acts(l, pc[s], m, pc'[s])
    <3>1. l.state = {}
      BY <2>2 DEF Acts
    <3>2. SleeperOK(l, {}) /\ l.on = {}
      BY <1>4, <3>1, MxSettled
    <3>3. SleeperOK(m, {}) /\ pc[s] \in PC /\ pc'[s] \in PC
      BY <1>4, <2>2, <3>2, ActsSleeper
    <3>4. m.on = {}
      BY <3>3 DEF SleeperOK
    <3> QED BY <3>1, <3>3, <3>4
  <2> QED BY <1>3, <2>1, <2>2
<1>7. ASSUME NEW t \in Thread
      PROVE  /\ RestsAt(t)
             /\ "EXITED" \in Life(k, t).state => "EXITED" \in Life(k', t).state
             /\ Life(k', t).on \cap Mutexes \subseteq Life(k, t).on
             /\ pc'[t] \notin PC =>
                  /\ Life(k, t).wake = "DONE" => Life(k', t).wake = "DONE"
                  /\ Undisturbed => Life(k', t).state \subseteq Life(k, t).state
  <2>1. CASE t # s
    BY <1>3, <1>4, <1>5, <2>1 DEF RestsAt
  <2>2. CASE t = s
    BY <1>6, <2>2 DEF RestsAt, PC, AtLock
  <2> QED BY <2>1, <2>2
<1> QED BY <1>7, OtherLoans DEF RestStep

\* A step that moves nobody.
LEMMA SameRests ==
    ASSUME MutexInv, Same(k', k), SameLoans(k', k), UNCHANGED <<owner, mx>>, pc' = pc
    PROVE  RestStep
<1>1. \A t \in Thread : Life(k', t) = Life(k, t)
  BY MutexFacts DEF Same
<1> QED BY <1>1 DEF RestStep, RestsAt, SameLoans

\* A step that only takes threads off a queue.
LEMMA DequeuesRests ==
    ASSUME MutexInv, NEW r, NEW n, Dequeues(n, r)
    PROVE  RestStep
<1>1. /\ KernelInv(n) /\ QueuesDistinct(n) /\ SameLoans(n, k) /\ k' = Unlock(n)
      /\ UNCHANGED <<pc, owner, mx>> /\ n \in KernelState
      /\ \A t \in AllThread :
            \/ Life(n, t) = Life(k, t)
            \/ Life(k, t).on # {} /\ Life(n, t) = Dequeued(Life(k, t), r)
  BY DEF Dequeues, KernelInv
<1>2. SameLoans(k', n) /\ \A t \in AllThread : Life(k', t) = Life(n, t)
  BY <1>1, LockLife, LockLoans DEF Same
<1>3. SameLoans(k', k)
  BY <1>1, <1>2, SameLoansTransitive
<1>4. ASSUME NEW t \in Thread
      PROVE  /\ RestsAt(t)
             /\ "EXITED" \in Life(k, t).state => "EXITED" \in Life(k', t).state
             /\ Life(k', t).on \cap Mutexes \subseteq Life(k, t).on
             /\ Life(k, t).wake = "DONE" => Life(k', t).wake = "DONE"
             /\ Life(k', t).state \subseteq Life(k, t).state
  <2>1. t \in AllThread /\ MxOK(Life(k, t), pc[t], mx[t]) /\ Life(k', t) = Life(n, t)
    BY <1>2, MutexFacts
  <2>2. RestsAt(t)
    BY <1>1 DEF RestsAt
  <2>3. CASE Life(n, t) = Life(k, t)
    BY <2>1, <2>2, <2>3
  <2>4. CASE Life(k, t).on # {} /\ Life(n, t) = Dequeued(Life(k, t), r)
    <3>1. Life(k, t).wake = "NONE"
      BY <2>1, <2>4 DEF MxOK, MutexPC, SleeperOK
    <3> QED BY <2>1, <2>2, <2>4, <3>1 DEF Dequeued, SLEEPSET
  <2> QED BY <1>1, <2>1, <2>3, <2>4
<1> QED BY <1>1, <1>3, <1>4 DEF RestStep, SameLoans

\* A step in which the current thread, in no lock() any more, moves on.
LEMMA SelfRests ==
    ASSUME MutexInv, self \in Thread, NEW l, Only(k', k, self, l), SameLoans(k', k),
           UNCHANGED <<owner, mx>>, NEW c, pc' = [pc EXCEPT ![self] = c],
           Life(k, self).state = {}, l.on = {},
           \/ pc[self] \in AtCond /\ c = "relock" /\ l.state = {} /\ l.wake = Life(k, self).wake
           \/ /\ pc[self] \in AtCond \/ Life(k, self).wake # "DONE"
              /\ c = "user" /\ "EXITED" \in l.state
    PROVE  RestStep
<1>1. /\ Life(k', self) = l /\ self \in AllThread /\ pc'[self] = c
      /\ \A t \in Thread : t \in AllThread
      /\ \A t \in AllThread \ {self} : Life(k', t) = Life(k, t) /\ pc'[t] = pc[t]
  BY MutexFacts DEF Only
<1>2. /\ RestsAt(self)
      /\ pc'[self] \notin PC =>
           /\ Life(k, self).wake = "DONE" => Life(k', self).wake = "DONE"
           /\ Undisturbed => Life(k', self).state \subseteq Life(k, self).state
  BY <1>1 DEF RestsAt, PC, AtLock, AtCond
<1>3. ASSUME NEW t \in Thread
      PROVE  /\ RestsAt(t)
             /\ "EXITED" \in Life(k, t).state => "EXITED" \in Life(k', t).state
             /\ Life(k', t).on \cap Mutexes \subseteq Life(k, t).on
             /\ pc'[t] \notin PC =>
                  /\ Life(k, t).wake = "DONE" => Life(k', t).wake = "DONE"
                  /\ Undisturbed => Life(k', t).state \subseteq Life(k, t).state
  <2>1. CASE t = self
    BY <1>1, <1>2, <2>1
  <2>2. CASE t # self
    BY <1>1, <2>2 DEF RestsAt
  <2> QED BY <2>1, <2>2
<1> QED BY <1>3 DEF RestStep, SameLoans

\* The current thread exits.
LEMMA ExitRests ==
    ASSUME MutexInv, self \in Thread, NEW n, KernelInv(n), n.current = self, SameLoans(n, k),
           NEW l, Only(n, k, self, l), l.state = {}, Life(k, self).state = {}, l.on = {},
           k' = Reschedule(Exit(n)), pc' = [pc EXCEPT ![self] = "user"],
           UNCHANGED <<owner, mx>>,
           pc[self] \in AtCond \/ Life(k, self).wake # "DONE"
    PROVE  RestStep
<1> DEFINE r == Exit(n)
           e == Exited(l)
<1>1. /\ self \in AllThread /\ self # Idle /\ QueuesDistinct(n) /\ Life(n, self) = l
      /\ Runnable(n, n.current)
  BY MutexFacts, LifeRunnable DEF Only
<1>2. KernelInv(r) /\ Only(r, n, self, e) /\ SameLoans(r, n)
  BY <1>1, ExitInv, ExitLife, ThreadLoans
<1>3. k' = Reschedule(r)
  OBVIOUS
<1> HIDE DEF r
<1>4. Only(r, k, self, e) /\ SameLoans(r, k) /\ QueuesDistinct(r) /\ r \in KernelState
  BY <1>1, <1>2, OnlyTransitive, SameLoansTransitive DEF Only, KernelInv
<1>5. Only(k', k, self, e) /\ SameLoans(k', k)
  BY <1>1, <1>2, <1>3, <1>4, LockLife, LockLoans, OnlySame, SameLoansTransitive
<1>6. "EXITED" \in e.state /\ e.on = {}
  BY DEF Exited, TimerOff, WithState
<1> HIDE DEF e
<1> QED BY <1>5, <1>6, SelfRests

\* Back from a condition wait.
LEMMA CondWokenRests ==
    ASSUME MutexInv, CondWoken
    PROVE  RestStep
<1> DEFINE l  == Life(k, self)
           kc == ClearTimer(k, self)
           u  == Unlock(kc)
           k1 == IF pc[self] = "ctwait" THEN Unlock(kc) ELSE k
           j  == IF pc[self] = "ctwait" THEN TimerOff(l) ELSE l
<1>1. /\ k.sched_lock = "thread" /\ pc[self] \in AtCond
      /\ \/ k' = Reschedule(Exit(k1)) /\ pc' = [pc EXCEPT ![self] = "user"]
         \/ k' = k1 /\ pc' = [pc EXCEPT ![self] = "relock"]
      /\ UNCHANGED <<owner, mx>>
  BY DEF CondWoken, AtCond
<1>2. self # Idle
  BY <1>1, MutexFacts DEF AtCond
<1>3. /\ self \in Thread /\ self \in AllThread /\ self = k.current
      /\ l.state = {} /\ l.on = {}
      /\ KernelInv(k) /\ QueuesDistinct(k) /\ k \in KernelState
  BY <1>1, <1>2, MutexCaller, MutexFacts
<1>4. /\ KernelInv(kc) /\ kc.current = self /\ Only(kc, k, self, TimerOff(l))
      /\ SameLoans(kc, k)
  BY <1>3, ClearTimerInv, ClearTimerLife, ReasonLoans DEF Keeps
<1>5. TimerOff(l).state = {} /\ TimerOff(l).on = {} /\ TimerOff(l).wake = l.wake
  BY <1>3 DEF TimerOff
<1> HIDE DEF kc
<1>6. QueuesDistinct(kc) /\ kc \in KernelState
  BY <1>4 DEF Only, KernelInv
<1>7. KernelInv(u) /\ Same(u, kc) /\ SameLoans(u, kc) /\ u.current = self
  BY <1>4, <1>6, UnlockFacts, LockLife, LockLoans DEF Unlock, SchedLock, KernelState
<1>8. Only(u, k, self, TimerOff(l)) /\ SameLoans(u, k)
  BY <1>3, <1>4, <1>7, OnlySame, SameLoansTransitive
<1>9. /\ KernelInv(k1) /\ k1.current = self /\ SameLoans(k1, k) /\ Only(k1, k, self, j)
      /\ j.state = {} /\ j.on = {} /\ j.wake = l.wake
  <2>1. CASE pc[self] = "ctwait"
    BY <1>5, <1>7, <1>8, <2>1
  <2>2. CASE pc[self] # "ctwait"
    BY <1>3, <2>2 DEF Only, SameLoans
  <2> QED BY <2>1, <2>2
<1> HIDE DEF k1, j, l
<1>10. CASE k' = Reschedule(Exit(k1)) /\ pc' = [pc EXCEPT ![self] = "user"]
  BY <1>1, <1>3, <1>9, <1>10, ExitRests DEF l
<1>11. CASE k' = k1 /\ pc' = [pc EXCEPT ![self] = "relock"]
  BY <1>1, <1>3, <1>9, <1>11, SelfRests DEF l
<1> QED BY <1>1, <1>10, <1>11

\* lock() back from the reschedule() of its loop.
LEMMA LockWokenStep ==
    ASSUME MutexInv, "NONE" \notin Protocols, MutexLockWoken
    PROVE  MutexStep
<1> DEFINE m == mx[self]
           l == Life(k, self)
<1>1. /\ k.sched_lock = "inner" /\ pc[self] \in AtLock
      /\ UNCHANGED <<ticks, protocol, ceiling, mx>>
      /\ \/ /\ k.wake_reason[self] = "EXIT" /\ k' = Reschedule(Exit(k))
            /\ pc' = [pc EXCEPT ![self] = "user"] /\ UNCHANGED owner
         \/ /\ k.wake_reason[self] \in {"DESTRUCT", "BREAK"}
            /\ k' = Unlock(UncountMutex(k, m, self))
            /\ pc' = [pc EXCEPT ![self] = IF @ = "lock" THEN "user" ELSE "relock"]
            /\ UNCHANGED owner
         \/ Acquire(k, m, pc[self])
  BY DEF MutexLockWoken, AtLock
<1>2. /\ KernelInv(k) /\ QueuesDistinct(k) /\ Settled(k, self) /\ k \in KernelState
      /\ self \in Thread /\ self \in AllThread /\ self = k.current
      /\ l.state = {} /\ l.on = {} /\ m \in Mutexes /\ l.wake = k.wake_reason[self]
      /\ pc = [t \in AllThread |-> pc[t]] /\ mx = [mx EXCEPT ![self] = m]
  <2>1. self \in AllThread /\ self # Idle /\ l.state = {} /\ MxOK(l, pc[self], m)
    BY <1>1, MutexFacts DEF AtLock
  <2>2. l.on = {} /\ m \in Mutexes
    BY <1>1, <2>1, MxSettled DEF MxOK, AtLock, PC
  <2> QED BY <2>1, <2>2, MutexFacts DEF Life, AllThread
<1>3. owner[m] # self /\ protocol[m] # "NONE"
  BY <1>1, <1>2 DEF MutexInv, MutexTypes, InLock, AtLock
<1>4. Quiet(k, k) /\ SameLoans(k, k) /\ LoanStep(k, 0, None) /\ Only(k, k, self, l)
  BY <1>2, QuietSelf, LoanStepNone DEF Only
<1>5. CASE /\ k.wake_reason[self] = "EXIT" /\ k' = Reschedule(Exit(k))
           /\ pc' = [pc EXCEPT ![self] = "user"] /\ UNCHANGED owner
  <2>1. RestStep
    BY <1>1, <1>2, <1>4, <1>5, ExitRests
  <2> QED BY <2>1 DEF MutexStep
<1>6. CASE /\ k.wake_reason[self] \in {"DESTRUCT", "BREAK"}
           /\ k' = Unlock(UncountMutex(k, m, self))
           /\ pc' = [pc EXCEPT ![self] = IF @ = "lock" THEN "user" ELSE "relock"]
           /\ UNCHANGED owner
  <2> DEFINE n == UncountMutex(k, m, self)
  <2>1. Quiet(n, k) /\ \E c \in KernelState : Counted(c, k, self, -1) /\ Cleared(n, c, self)
    BY <1>2, <1>3, UncountMutexFacts
  <2>2. k' = Unlock(n)
    BY <1>6
  <2> HIDE DEF n
  <2>3. PICK c \in KernelState : Counted(c, k, self, -1) /\ Cleared(n, c, self)
    BY <2>1
  <2>4. LoanStep(n, -1, None)
    <3>1. /\ k.priority \in [AllThread -> Int] /\ k.mutex_count \in [AllThread -> Int]
          /\ k.priority_inherited \in [AllThread -> BOOLEAN]
          /\ \A t \in Thread : t \in AllThread
      BY <1>2, LoanTypes, MutexFacts
    <3>2. /\ n.mutex_count = c.mutex_count
          /\ c.mutex_count = [k.mutex_count EXCEPT ![self] = k.mutex_count[self] + -1]
          /\ c.priority = k.priority /\ c.priority_inherited = k.priority_inherited
      BY <2>3 DEF Counted, Cleared, SameLoans, Loan
    <3>3. \A t \in Thread \ {self} : /\ n.priority_inherited[t] = k.priority_inherited[t]
                                     /\ n.priority[t] = k.priority[t]
      BY <2>3, <3>1, <3>2 DEF Cleared, SameLoans, Loan
    <3>4. n.priority_inherited[self] => n.mutex_count[self] # 0
      BY <1>2, <2>3, <3>1, <3>2 DEF Cleared, SameLoans, Loan
    <3>5. \A t \in Thread \ {self} : n.priority[t] <= k.priority[t]
      BY <3>1, <3>3
    <3> QED BY <3>2, <3>3, <3>4, <3>5 DEF LoanStep
  <2>5. LoanStep(k', -1, None) /\ Same(k', k)
    <3>1. KernelInv(n) /\ n \in KernelState /\ QueuesDistinct(n) /\ Same(n, k)
      BY <2>1 DEF Quiet, Same, KernelInv
    <3>2. SameLoans(k', n) /\ Same(k', n)
      BY <2>2, <3>1, LockLoans, LockLife
    <3> QED BY <2>4, <3>1, <3>2, LoanStepKept, SameTransitive
  <2>6. pc' = [pc EXCEPT ![self] = pc'[self]] /\ pc'[self] \in {"user", "relock"}
    BY <1>2, <1>6
  <2>7. FailStep
    BY <1>1, <1>2, <1>6, <2>5, <2>6 DEF FailStep
  <2> QED BY <2>7 DEF MutexStep
<1>7. CASE Acquire(k, m, pc[self])
  <2> DEFINE at == pc[self]
  <2>1. at \in AtLock /\ Acquire(k, m, at) /\ mx' = [mx EXCEPT ![self] = m]
    BY <1>1, <1>2, <1>7
  <2>2. Enters(m, 0)
    BY <1>1, <1>2 DEF Enters
  <2> HIDE DEF at, m
  <2>3. TakeStep(m, 0) \/ BlockStep(m, 0)
    BY <1>2, <1>3, <1>4, <2>1, <2>2, AcquireStep
  <2> QED BY <1>2, <2>3 DEF MutexStep
<1> QED BY <1>1, <1>5, <1>6, <1>7

\* unlock() as a call, or within a condition wait.
LEMMA FreeCore ==
    ASSUME MutexInv, "NONE" \notin Protocols, InThread, NEW m \in Mutexes, owner[m] = self
    PROVE  LET r == Unlocked(m)
           IN  /\ KernelInv(r) /\ QueuesDistinct(r) /\ LoanStep(r, -1, Heir(m))
               /\ Heir(m) # self
               /\ Heir(m) = None \/ (Heir(m) \in Thread /\ m \in Life(k, Heir(m)).on)
               /\ Heir(m) = None => \A t \in AllThread : m \notin Life(k, t).on
               /\ \A t \in AllThread :
                    Life(r, t) = IF t = Heir(m) THEN Dequeued(Life(k, t), "DONE")
                                 ELSE Life(k, t)
               /\ protocol[m] = "INHERIT" /\ Heir(m) \in Thread /\ OthersWait(m, Heir(m)) =>
                    r.priority[Heir(m)] <= k.priority[self]
<1> DEFINE r == Unlocked(m)
<1>1. /\ KInv /\ m \in WaitQueue /\ owner[m] \in Thread /\ Settled(k, owner[m])
      /\ \A t \in AllThread : m \in Life(k, t).on => t \in Thread
      /\ Heir(m) # self /\ protocol[m] # "NONE" /\ k \in KernelState
  BY MutexUser, MutexFacts, MutexFrees
<1>2. /\ KernelInv(r) /\ UnlockLives(r, m) /\ UnlockLoans(r, m)
      /\ Heir(m) = None \/ (Heir(m) \in Thread /\ m \in Life(k, Heir(m)).on)
      /\ Heir(m) = None => \A t \in AllThread : m \notin Life(k, t).on
  BY <1>1, UnlockedFacts
<1> HIDE DEF r
<1>3. k.mutex_count \in [AllThread -> Int] /\ self \in AllThread
  BY <1>1, LoanTypes, MutexFacts
<1>4. LoanStep(r, -1, Heir(m))
  <2>1. r.mutex_count = [k.mutex_count EXCEPT ![self] = k.mutex_count[self] + -1]
    BY <1>1, <1>2, <1>3 DEF UnlockLoans
  <2> QED BY <1>1, <1>2, <2>1 DEF UnlockLoans, LoanStep
<1> QED BY <1>1, <1>2, <1>4 DEF UnlockLives, UnlockLoans, r

\* unlock().
LEMMA UnlockStep ==
    ASSUME MutexInv, "NONE" \notin Protocols, NEW m \in Mutexes, MutexUnlock(m)
    PROVE  FreeStep(m)
<1> DEFINE r == Unlocked(m)
<1>1. /\ InThread /\ owner[m] = self /\ k' = Unlock(r)
      /\ owner' = [owner EXCEPT ![m] = None] /\ UNCHANGED <<pc, mx>>
  BY DEF MutexUnlock
<1>2. /\ KernelInv(r) /\ QueuesDistinct(r) /\ LoanStep(r, -1, Heir(m))
      /\ Heir(m) # self
      /\ Heir(m) = None \/ (Heir(m) \in Thread /\ m \in Life(k, Heir(m)).on)
      /\ Heir(m) = None => \A t \in AllThread : m \notin Life(k, t).on
      /\ \A t \in AllThread :
           Life(r, t) = IF t = Heir(m) THEN Dequeued(Life(k, t), "DONE") ELSE Life(k, t)
      /\ protocol[m] = "INHERIT" /\ Heir(m) \in Thread /\ OthersWait(m, Heir(m)) =>
           r.priority[Heir(m)] <= k.priority[self]
  BY <1>1, FreeCore
<1> HIDE DEF r
<1>3. SameLoans(k', r) /\ \A t \in AllThread : Life(k', t) = Life(r, t)
  BY <1>1, <1>2, LockLoans, LockLife DEF KernelInv, Same
<1>4. LoanStep(k', -1, Heir(m)) /\ k'.priority = r.priority
  BY <1>2, <1>3, LoanStepKept DEF SameLoans
<1>5. /\ self \in AllThread /\ Life(k, self).state = {} /\ Life(k, self).on = {}
      /\ pc[self] = "user" /\ pc = [pc EXCEPT ![self] = pc[self]]
  BY <1>1, MutexUser, MutexFacts DEF InThread
<1>6. Life(k', self).on \cap Mutexes = {} /\ Life(k', self).state \subseteq SLEEPSET
  BY <1>2, <1>3, <1>5
<1> QED BY <1>1, <1>2, <1>3, <1>4, <1>5, <1>6 DEF FreeStep

\* The start of a condition wait.
LEMMA CondSleepStep ==
    ASSUME MutexInv, "NONE" \notin Protocols, NEW m \in Mutexes, NEW v \in Condvars,
           NEW n, NEW l, NEW c, CondSleep(n, l, c, v, m)
    PROVE  FreeStep(m)
<1> DEFINE r == Unlocked(m)
<1>1. /\ InThread /\ owner[m] = self
      /\ KernelInv(n) /\ Only(n, r, self, l) /\ SameLoans(n, r)
      /\ l.on \subseteq {v} /\ l.state \subseteq {"SLEEPING"}
      /\ k' = Unlock(n) /\ owner' = [owner EXCEPT ![m] = None] /\ c \in AtCond
      /\ pc' = [pc EXCEPT ![self] = c] /\ mx' = [mx EXCEPT ![self] = m]
  BY DEF CondSleep
<1>2. /\ KernelInv(r) /\ QueuesDistinct(r) /\ LoanStep(r, -1, Heir(m))
      /\ Heir(m) # self
      /\ Heir(m) = None \/ (Heir(m) \in Thread /\ m \in Life(k, Heir(m)).on)
      /\ Heir(m) = None => \A t \in AllThread : m \notin Life(k, t).on
      /\ \A t \in AllThread :
           Life(r, t) = IF t = Heir(m) THEN Dequeued(Life(k, t), "DONE") ELSE Life(k, t)
      /\ protocol[m] = "INHERIT" /\ Heir(m) \in Thread /\ OthersWait(m, Heir(m)) =>
           r.priority[Heir(m)] <= k.priority[self]
  BY <1>1, FreeCore
<1> HIDE DEF r
<1>3. /\ self \in AllThread /\ pc = [t \in AllThread |-> pc[t]]
      /\ mx = [t \in AllThread |-> mx[t]]
  BY MutexFacts
<1>4. /\ QueuesDistinct(n) /\ Life(n, self) = l
      /\ \A t \in AllThread \ {self} : Life(n, t) = Life(r, t)
  BY <1>1 DEF Only
<1>5. SameLoans(k', r) /\ \A t \in AllThread : Life(k', t) = Life(n, t)
  BY <1>1, <1>4, LockLoans, LockLife, SameLoansTransitive DEF KernelInv, Same
<1>6. LoanStep(k', -1, Heir(m)) /\ k'.priority = r.priority
  BY <1>2, <1>5, LoanStepKept DEF SameLoans
<1>7. Life(k', self).on \cap Mutexes = {} /\ Life(k', self).state \subseteq SLEEPSET
  BY <1>1, <1>3, <1>4, <1>5, MutexAssumption DEF SLEEPSET
<1>8. /\ pc'[self] = c /\ \A t \in AllThread \ {self} : mx'[t] = mx[t]
  BY <1>1, <1>3
<1>9. \A t \in AllThread \ {self} :
         Life(k', t) = IF t = Heir(m) THEN Dequeued(Life(k, t), "DONE") ELSE Life(k, t)
  BY <1>2, <1>4, <1>5
<1> QED BY <1>1, <1>2, <1>6, <1>7, <1>8, <1>9 DEF FreeStep

\* Every step is of one of the kinds.
LEMMA MutexSteps ==
    ASSUME MutexInv, "NONE" \notin Protocols, [MutexNext]_mutexVars
    PROVE  MutexStep
<1>1. KernelInv(k) /\ QueuesDistinct(k) /\ k \in KernelState
  BY MutexFacts
<1>2. ASSUME k' = Unlock(k), UNCHANGED <<pc, owner, mx>> PROVE MutexStep
  <2>1. Same(k', k) /\ SameLoans(k', k)
    BY <1>1, <1>2, LockLife, LockLoans
  <2>2. RestStep
    BY <1>2, <2>1, SameRests
  <2> QED BY <2>2 DEF MutexStep
<1>3. ASSUME NEW m \in Mutexes, MutexOperation(m) PROVE MutexStep
  <2>1. CASE MutexLock(m)
    BY <2>1, LockStep
  <2>2. CASE MutexTrylock(m)
    <3>1. CASE owner[m] = None
      <4>1. TakeStep(m, 1)
        BY <2>2, <3>1, TrylockStep
      <4> QED BY <4>1 DEF MutexStep
    <3>2. CASE owner[m] # None
      BY <1>2, <2>2, <3>2 DEF MutexTrylock
    <3> QED BY <3>1, <3>2
  <2>3. CASE MutexUnlock(m)
    BY <2>3, UnlockStep DEF MutexStep
  <2>4. CASE MutexRelease(m)
    BY <2>4, MutexReleaseDequeues, DequeuesRests DEF MutexStep
  <2>5. ASSUME NEW p, MutexSetCeiling(m, p) PROVE MutexStep
    BY <1>2, <2>5 DEF MutexSetCeiling
  <2>6. ASSUME NEW p, MutexSetProtocol(m, p) PROVE MutexStep
    BY <1>2, <2>6 DEF MutexSetProtocol
  <2> QED BY <1>3, <2>1, <2>2, <2>3, <2>4, <2>5, <2>6 DEF MutexOperation
<1>4. ASSUME NEW v \in Condvars, CondOperation(v) PROVE MutexStep
  <2>1. ASSUME NEW m \in Mutexes, CondWait(v, m) PROVE MutexStep
    <3>1. PICK n, l : CondSleep(n, l, "cwait", v, m)
      BY <2>1, CondWaitSleeps
    <3> QED BY <3>1, CondSleepStep DEF MutexStep
  <2>2. ASSUME NEW m \in Mutexes, NEW past \in BOOLEAN, CondTimedWait(v, m, past)
        PROVE  MutexStep
    <3>1. PICK n, l : CondSleep(n, l, "ctwait", v, m)
      BY <2>2, CondTimedWaitSleeps
    <3> QED BY <3>1, CondSleepStep DEF MutexStep
  <2>3. CASE CondSignal(v)
    <3>1. PICK n : Dequeues(n, "DONE")
      BY <2>3, CondSignalDequeues
    <3> QED BY <3>1, DequeuesRests DEF MutexStep
  <2>4. CASE CondBroadcast(v)
    BY <2>4, CondBroadcastDequeues, DequeuesRests DEF MutexStep
  <2> QED BY <1>4, <2>1, <2>2, <2>3, <2>4 DEF CondOperation
<1>5. CASE UNCHANGED mutexVars
  <2>1. k' = k /\ pc' = pc /\ owner' = owner /\ mx' = mx
    BY <1>5 DEF mutexVars
  <2>2. Same(k', k) /\ SameLoans(k', k)
    BY <1>1, <2>1 DEF Same, SameLoans
  <2> QED BY <2>1, <2>2, SameRests DEF MutexStep
<1>6. CASE MutexLockWoken
  BY <1>6, LockWokenStep
<1>7. CASE CondWoken
  BY <1>7, CondWokenRests DEF MutexStep
<1>8. CASE CondRelock
  BY <1>8, LockStep
<1>9. CASE Next /\ UNCHANGED <<owner, protocol, ceiling, mx>>
  BY <1>9, OtherStep DEF MutexStep
<1> QED BY <1>3, <1>4, <1>5, <1>6, <1>7, <1>8, <1>9 DEF MutexNext

-----------------------------------------------------------------------------
(* The counts of mutexes *)

\* The mutexes a thread owns, and the one it is after.
Claimed(t) == Held(t) \cup IF InLock(t) THEN {mx[t]} ELSE {}

\* The invariant under the mutex counts.  A thread that exits within lock()
\* leaves its count as it is, so that the count is only a bound then; that is
\* enough for the priority it may have inherited.
CountInv ==
    \A t \in Thread :
        /\ k.mutex_count[t] >= Cardinality(Claimed(t))
        /\ "EXITED" \notin Life(k, t).state => k.mutex_count[t] = Cardinality(Claimed(t))
        /\ k.priority_inherited[t] => k.mutex_count[t] > 0

\* Claims are finite sets of mutexes.
LEMMA ClaimedFinite ==
    MutexInv => \A t \in Thread : /\ IsFiniteSet(Claimed(t))
                                  /\ Cardinality(Claimed(t)) \in Nat
                                  /\ Claimed(t) # {} => Cardinality(Claimed(t)) > 0
<1> SUFFICES ASSUME MutexInv, NEW t \in Thread
             PROVE  /\ IsFiniteSet(Claimed(t)) /\ Cardinality(Claimed(t)) \in Nat
                    /\ Claimed(t) # {} => Cardinality(Claimed(t)) > 0
  OBVIOUS
<1>1. Held(t) \subseteq Mutexes /\ IsFiniteSet(Mutexes)
  BY MutexAssumption DEF Held
<1>2. InLock(t) => mx[t] \in Mutexes
  <2>1. MxOK(Life(k, t), pc[t], mx[t])
    BY MutexFacts
  <2> QED BY <2>1 DEF MxOK, InLock, PC
<1>3. Claimed(t) \subseteq Mutexes
  BY <1>1, <1>2 DEF Claimed
<1>4. IsFiniteSet(Claimed(t))
  BY <1>1, <1>3, FS_Subset
<1>5. Cardinality(Claimed(t)) \in Nat
  BY <1>4, FS_CardinalityType
<1>6. Claimed(t) # {} => Cardinality(Claimed(t)) # 0
  BY <1>4, FS_EmptySet
<1> QED BY <1>4, <1>5, <1>6

\* The claims of a thread whose place in the program stays, or that is in no
\* call of lock().
LEMMA ClaimedSame ==
    ASSUME NEW t, {m \in Mutexes : owner'[m] = t} = {m \in Mutexes : owner[m] = t},
           \/ pc'[t] = pc[t] /\ mx'[t] = mx[t]
           \/ pc[t] \notin AtLock /\ pc'[t] \notin AtLock
    PROVE  Claimed(t)' = Claimed(t)
BY DEF Claimed, Held, InLock, AtLock

\* A step in which the count of the current thread s follows what it claims.
LEMMA CountCore ==
    ASSUME MutexInv, MutexInv', CountInv, NEW s \in Thread, s = self, NEW d \in {-1, 0, 1},
           NEW h, LoanStep(k', d, h), h \in Thread => Claimed(h) # {},
           \A t \in Thread \ {s} :
              /\ Claimed(t)' = Claimed(t)
              /\ "EXITED" \in Life(k, t).state => "EXITED" \in Life(k', t).state,
           "EXITED" \notin Life(k, s).state,
           Cardinality(Claimed(s))' = Cardinality(Claimed(s)) + d
    PROVE  CountInv'
<1>1. /\ \A t \in Thread : t \in AllThread /\ k.mutex_count[t] \in Int
      /\ k.mutex_count \in [AllThread -> Int]
  BY LoanTypes, MutexFacts
<1>2. \A t \in Thread : Cardinality(Claimed(t)) \in Nat /\ (Claimed(t) # {} => Cardinality(Claimed(t)) > 0)
  BY ClaimedFinite
<1>3. \A t \in Thread : (Cardinality(Claimed(t)) \in Nat)'
  <2>1. (MutexInv => \A t \in Thread : /\ IsFiniteSet(Claimed(t))
                                       /\ Cardinality(Claimed(t)) \in Nat
                                       /\ Claimed(t) # {} => Cardinality(Claimed(t)) > 0)'
    BY ClaimedFinite, PTL
  <2> QED BY <2>1
<1>4. ASSUME NEW t \in Thread
      PROVE  /\ k'.mutex_count[t] >= Cardinality(Claimed(t))'
             /\ "EXITED" \notin Life(k', t).state => k'.mutex_count[t] = Cardinality(Claimed(t))'
             /\ k'.priority_inherited[t] => k'.mutex_count[t] > 0
  <2>1. /\ k.mutex_count[t] >= Cardinality(Claimed(t))
        /\ "EXITED" \notin Life(k, t).state => k.mutex_count[t] = Cardinality(Claimed(t))
        /\ k.priority_inherited[t] => k.mutex_count[t] > 0
    BY DEF CountInv
  <2>2. CASE t = s
    <3>1. k'.mutex_count[s] = k.mutex_count[s] + d /\ k.mutex_count[s] = Cardinality(Claimed(s))
      BY <1>1, <2>1, <2>2 DEF LoanStep
    <3>2. k'.mutex_count[s] = Cardinality(Claimed(s))'
      BY <3>1
    <3>3. Cardinality(Claimed(s))' \in Nat /\ Cardinality(Claimed(s)) \in Nat
      BY <1>2, <1>3
    <3>4. k'.priority_inherited[s] => k'.mutex_count[s] > 0
      <4>1. CASE d = -1
        BY <3>2, <3>3, <4>1 DEF LoanStep
      <4>2. CASE d = 0
        BY <2>1, <2>2, <3>1, <3>3, <4>2 DEF LoanStep
      <4>3. CASE d = 1
        BY <3>1, <3>3, <4>3
      <4> QED BY <4>1, <4>2, <4>3
    <3> QED BY <2>2, <3>2, <3>3, <3>4
  <2>3. CASE t # s
    <3>1. k'.mutex_count[t] = k.mutex_count[t]
      BY <1>1, <2>3 DEF LoanStep
    <3>2. Cardinality(Claimed(t))' = Cardinality(Claimed(t))
      BY <2>3
    <3>3. k'.priority_inherited[t] => k.priority_inherited[t] \/ t = h
      BY <2>3 DEF LoanStep
    <3>4. t = h => Cardinality(Claimed(t)) > 0
      BY <1>2
    <3>5. "EXITED" \in Life(k, t).state => "EXITED" \in Life(k', t).state
      BY <2>3
    <3> QED BY <1>1, <1>2, <2>1, <3>1, <3>2, <3>3, <3>4, <3>5
  <2> QED BY <2>2, <2>3
<1> QED BY <1>4 DEF CountInv

\* One more mutex, or one less.
LEMMA CountOne ==
    ASSUME NEW S, IsFiniteSet(S), NEW m
    PROVE  /\ m \notin S => Cardinality(S \cup {m}) = Cardinality(S) + 1
           /\ m \in S => Cardinality(S \ {m}) = Cardinality(S) - 1
<1>1. Cardinality(S) \in Nat
  BY FS_CardinalityType
<1>2. m \notin S => Cardinality(S \cup {m}) = Cardinality(S) + 1
  BY FS_AddElement
<1>3. m \in S => Cardinality(S \ {m}) = Cardinality(S) - 1
  BY FS_RemoveElement
<1> QED BY <1>2, <1>3

\* The current thread takes m.
LEMMA TakeCount ==
    ASSUME MutexInv, MutexInv', CountInv, NEW m \in Mutexes, NEW d \in {0, 1}, TakeStep(m, d)
    PROVE  CountInv'
<1>1. PICK s \in Thread : s = self
  BY DEF TakeStep, Enters
<1>2. /\ LoanStep(k', d, None) /\ owner[m] = None /\ owner' = [owner EXCEPT ![m] = s]
      /\ pc' = [pc EXCEPT ![s] = "user"] /\ \A t \in AllThread \ {s} : mx'[t] = mx[t]
      /\ IF pc[s] \in AtLock THEN d = 0 /\ mx[s] = m ELSE d = 1
      /\ Life(k, s).state = {} /\ Same(k', k)
  BY <1>1, MutexFacts DEF TakeStep, Enters
<1>3. /\ owner \in [Mutexes -> Thread \cup {None}] /\ pc = [t \in AllThread |-> pc[t]]
      /\ None \notin Thread /\ \A t \in Thread : t \in AllThread
  BY MutexFacts, MutexAssumption DEF MutexInv, MutexTypes
<1>4. \A t \in Thread \ {s} : Claimed(t)' = Claimed(t) /\ Life(k', t) = Life(k, t)
  <2> SUFFICES ASSUME NEW t \in Thread \ {s}
               PROVE  Claimed(t)' = Claimed(t) /\ Life(k', t) = Life(k, t)
    OBVIOUS
  <2>1. {q \in Mutexes : owner'[q] = t} = {q \in Mutexes : owner[q] = t}
    BY <1>2, <1>3
  <2>2. pc'[t] = pc[t] /\ mx'[t] = mx[t] /\ Life(k', t) = Life(k, t)
    BY <1>2, <1>3 DEF Same
  <2> QED BY <2>1, <2>2, ClaimedSame
<1>5. Claimed(s)' = Claimed(s) \cup {m}
  <2>1. {q \in Mutexes : owner'[q] = s} = {q \in Mutexes : owner[q] = s} \cup {m}
    BY <1>2, <1>3
  <2>2. pc'[s] = "user"
    BY <1>2, <1>3
  <2> QED BY <1>2, <2>1, <2>2 DEF Claimed, Held, InLock, AtLock
<1>6. IF d = 0 THEN m \in Claimed(s) ELSE m \notin Claimed(s)
  BY <1>2, <1>3 DEF Claimed, Held, InLock, AtLock
<1>7. IsFiniteSet(Claimed(s)) /\ Cardinality(Claimed(s)) \in Nat
  BY ClaimedFinite
<1>8. Cardinality(Claimed(s))' = Cardinality(Claimed(s)) + d
  <2>1. CASE d = 0
    <3>1. Claimed(s)' = Claimed(s)
      BY <1>5, <1>6, <2>1
    <3> QED BY <1>7, <2>1, <3>1
  <2>2. CASE d = 1
    BY <1>5, <1>6, <1>7, <2>2, CountOne
  <2> QED BY <2>1, <2>2
<1> QED BY <1>1, <1>2, <1>3, <1>4, <1>8, CountCore

\* It waits for m.
LEMMA BlockCount ==
    ASSUME MutexInv, MutexInv', CountInv, NEW m \in Mutexes, NEW d \in {0, 1}, BlockStep(m, d)
    PROVE  CountInv'
<1>1. PICK s \in Thread : s = self
  BY DEF BlockStep, Enters
<1>2. /\ LoanStep(k', d, owner[m]) /\ owner[m] # s /\ owner' = owner
      /\ pc' = [pc EXCEPT ![s] = pc'[s]] /\ pc'[s] \in AtLock /\ mx' = [mx EXCEPT ![s] = m]
      /\ IF pc[s] \in AtLock THEN d = 0 /\ mx[s] = m ELSE d = 1
      /\ Life(k, s).state = {} /\ \A t \in AllThread \ {s} : Life(k', t) = Life(k, t)
  BY <1>1, MutexFacts DEF BlockStep, Enters, Only
<1>3. /\ pc = [t \in AllThread |-> pc[t]] /\ mx = [t \in AllThread |-> mx[t]]
      /\ \A t \in Thread : t \in AllThread
  BY MutexFacts
<1>4. \A t \in Thread \ {s} : Claimed(t)' = Claimed(t) /\ Life(k', t) = Life(k, t)
  <2> SUFFICES ASSUME NEW t \in Thread \ {s}
               PROVE  Claimed(t)' = Claimed(t) /\ Life(k', t) = Life(k, t)
    OBVIOUS
  <2>1. pc'[t] = pc[t] /\ mx'[t] = mx[t] /\ Life(k', t) = Life(k, t)
    BY <1>2, <1>3
  <2> QED BY <1>2, <2>1, ClaimedSame
<1>5. Claimed(s)' = Claimed(s) \cup {m}
  <2>1. mx'[s] = m
    BY <1>2, <1>3
  <2> QED BY <1>2, <2>1 DEF Claimed, Held, InLock, AtLock
<1>6. IF d = 0 THEN m \in Claimed(s) ELSE m \notin Claimed(s)
  BY <1>2, <1>3 DEF Claimed, Held, InLock, AtLock
<1>7. IsFiniteSet(Claimed(s)) /\ Cardinality(Claimed(s)) \in Nat
  BY ClaimedFinite
<1>8. Cardinality(Claimed(s))' = Cardinality(Claimed(s)) + d
  <2>1. CASE d = 0
    <3>1. Claimed(s)' = Claimed(s)
      BY <1>5, <1>6, <2>1
    <3> QED BY <1>7, <2>1, <3>1
  <2>2. CASE d = 1
    BY <1>5, <1>6, <1>7, <2>2, CountOne
  <2> QED BY <2>1, <2>2
<1>9. Claimed(owner[m]) # {}
  BY DEF Claimed, Held
<1> QED BY <1>1, <1>2, <1>3, <1>4, <1>8, <1>9, CountCore

\* Its lock() fails.
LEMMA FailCount ==
    ASSUME MutexInv, MutexInv', CountInv, FailStep
    PROVE  CountInv'
<1>1. PICK s \in Thread : s = self
  BY DEF FailStep
<1> DEFINE m == mx[s]
<1>2. /\ LoanStep(k', -1, None) /\ owner' = owner /\ mx' = mx /\ Same(k', k)
      /\ pc' = [pc EXCEPT ![s] = pc'[s]] /\ pc'[s] \in {"user", "relock"}
      /\ pc[s] \in AtLock /\ Life(k, s).state = {}
  BY <1>1 DEF FailStep
<1>3. /\ pc = [t \in AllThread |-> pc[t]] /\ None \notin Thread
      /\ \A t \in Thread : t \in AllThread
  BY MutexFacts, MutexAssumption
<1>4. \A t \in Thread \ {s} : Claimed(t)' = Claimed(t) /\ Life(k', t) = Life(k, t)
  <2> SUFFICES ASSUME NEW t \in Thread \ {s}
               PROVE  Claimed(t)' = Claimed(t) /\ Life(k', t) = Life(k, t)
    OBVIOUS
  <2>1. pc'[t] = pc[t] /\ mx'[t] = mx[t] /\ Life(k', t) = Life(k, t)
    BY <1>2, <1>3 DEF Same
  <2> QED BY <1>2, <2>1, ClaimedSame
<1>5. owner[m] # s
  BY <1>2 DEF MutexInv, InLock, AtLock
<1>6. Claimed(s)' = Claimed(s) \ {m} /\ m \in Claimed(s)
  BY <1>2, <1>5 DEF Claimed, Held, InLock, AtLock
<1>7. IsFiniteSet(Claimed(s)) /\ Cardinality(Claimed(s)) \in Nat
  BY ClaimedFinite
<1>8. Cardinality(Claimed(s))' = Cardinality(Claimed(s)) + -1
  <2>1. Cardinality(Claimed(s) \ {m}) = Cardinality(Claimed(s)) - 1
    BY <1>6, <1>7, CountOne
  <2> QED BY <1>6, <1>7, <2>1
<1> HIDE DEF m
<1> QED BY <1>1, <1>2, <1>3, <1>4, <1>8, CountCore

\* It frees m.
LEMMA FreeCount ==
    ASSUME MutexInv, MutexInv', CountInv, NEW m \in Mutexes, FreeStep(m)
    PROVE  CountInv'
<1>1. PICK s \in Thread : s = self
  BY MutexUser DEF FreeStep
<1> DEFINE h == Heir(m)
<1>2. /\ LoanStep(k', -1, h) /\ owner[m] = s /\ owner' = [owner EXCEPT ![m] = None]
      /\ h = None \/ (h \in Thread /\ m \in Life(k, h).on)
      /\ \A t \in AllThread \ {s} :
            Life(k', t) = IF t = h THEN Dequeued(Life(k, t), "DONE") ELSE Life(k, t)
      /\ \A t \in AllThread \ {s} : mx'[t] = mx[t]
      /\ pc' = [pc EXCEPT ![s] = pc'[s]] /\ pc'[s] \in {"user"} \cup AtCond
      /\ pc[s] = "user" /\ Life(k, s).state = {}
  BY <1>1, MutexUser DEF FreeStep, InThread
<1>3. /\ owner \in [Mutexes -> Thread \cup {None}] /\ pc = [t \in AllThread |-> pc[t]]
      /\ None \notin Thread /\ \A t \in Thread : t \in AllThread
  BY MutexFacts, MutexAssumption DEF MutexInv, MutexTypes
<1>4. \A t \in Thread \ {s} :
         /\ Claimed(t)' = Claimed(t)
         /\ "EXITED" \in Life(k, t).state => "EXITED" \in Life(k', t).state
  <2> SUFFICES ASSUME NEW t \in Thread \ {s}
               PROVE  /\ Claimed(t)' = Claimed(t)
                      /\ "EXITED" \in Life(k, t).state => "EXITED" \in Life(k', t).state
    OBVIOUS
  <2>1. {q \in Mutexes : owner'[q] = t} = {q \in Mutexes : owner[q] = t}
    BY <1>2, <1>3
  <2>2. pc'[t] = pc[t] /\ mx'[t] = mx[t]
    BY <1>2, <1>3
  <2>3. "EXITED" \in Life(k, t).state => "EXITED" \in Life(k', t).state
    BY <1>2, <1>3 DEF Dequeued, SLEEPSET
  <2> QED BY <2>1, <2>2, <2>3, ClaimedSame
<1>5. Claimed(s)' = Claimed(s) \ {m} /\ m \in Claimed(s)
  <2>1. {q \in Mutexes : owner'[q] = s} = {q \in Mutexes : owner[q] = s} \ {m}
    BY <1>2, <1>3
  <2> QED BY <1>2, <2>1 DEF Claimed, Held, InLock, AtCond
<1>6. IsFiniteSet(Claimed(s)) /\ Cardinality(Claimed(s)) \in Nat
  BY ClaimedFinite
<1>7. Cardinality(Claimed(s))' = Cardinality(Claimed(s)) + -1
  <2>1. Cardinality(Claimed(s) \ {m}) = Cardinality(Claimed(s)) - 1
    BY <1>5, <1>6, CountOne
  <2> QED BY <1>5, <1>6, <2>1
<1>8. h \in Thread => Claimed(h) # {}
  <2>1. h \in Thread => pc[h] \in AtLock
    BY <1>2, <1>3, MutexFacts
  <2> QED BY <2>1 DEF Claimed, InLock, AtLock
<1> HIDE DEF h
<1> QED BY <1>1, <1>2, <1>3, <1>4, <1>7, <1>8, CountCore

\* Mutexes and counts stay.
LEMMA RestCount ==
    ASSUME MutexInv, MutexInv', CountInv, RestStep
    PROVE  CountInv'
<1> SUFFICES ASSUME NEW t \in Thread
             PROVE  /\ k'.mutex_count[t] >= Cardinality(Claimed(t))'
                    /\ "EXITED" \notin Life(k', t).state =>
                         k'.mutex_count[t] = Cardinality(Claimed(t))'
                    /\ k'.priority_inherited[t] => k'.mutex_count[t] > 0
  BY DEF CountInv
<1>1. /\ owner' = owner /\ k'.mutex_count = k.mutex_count
      /\ k'.priority_inherited = k.priority_inherited /\ RestsAt(t)
      /\ "EXITED" \in Life(k, t).state => "EXITED" \in Life(k', t).state
  BY DEF RestStep
<1>2. /\ k.mutex_count[t] >= Cardinality(Claimed(t))
      /\ "EXITED" \notin Life(k, t).state => k.mutex_count[t] = Cardinality(Claimed(t))
      /\ k.priority_inherited[t] => k.mutex_count[t] > 0
  BY DEF CountInv
<1>3. IsFiniteSet(Claimed(t)) /\ Cardinality(Claimed(t)) \in Nat /\ k.mutex_count[t] \in Int
  BY ClaimedFinite, LoanTypes, MutexFacts
<1>4. CASE \/ pc'[t] = pc[t] /\ mx'[t] = mx[t]
           \/ pc[t] \notin AtLock /\ pc'[t] \notin AtLock
  <2>1. Claimed(t)' = Claimed(t)
    BY <1>1, <1>4, ClaimedSame
  <2>2. Cardinality(Claimed(t))' = Cardinality(Claimed(t))
    BY <2>1
  <2> QED BY <1>1, <1>2, <2>2
<1>5. CASE pc'[t] = "user" /\ "EXITED" \in Life(k', t).state
  <2>1. Claimed(t)' \subseteq Claimed(t)
    BY <1>1, <1>5 DEF Claimed, Held, InLock
  <2>2. Cardinality(Claimed(t))' <= Cardinality(Claimed(t)) /\ Cardinality(Claimed(t))' \in Nat
    <3>1. \A S \in SUBSET Claimed(t) : Cardinality(S) <= Cardinality(Claimed(t)) /\ Cardinality(S) \in Nat
      BY <1>3, FS_Subset, FS_CardinalityType
    <3> QED BY <2>1, <3>1
  <2> QED BY <1>1, <1>2, <1>3, <1>5, <2>2
<1> QED BY <1>1, <1>4, <1>5 DEF RestsAt

\* Every step keeps the counts right.
LEMMA CountNext ==
    "NONE" \notin Protocols /\ MutexInv /\ MutexInv' /\ CountInv /\ [MutexNext]_mutexVars
        => CountInv'
<1> SUFFICES ASSUME "NONE" \notin Protocols, MutexInv, MutexInv', CountInv,
                    [MutexNext]_mutexVars
             PROVE  CountInv'
  OBVIOUS
<1>1. MutexStep
  BY MutexSteps
<1> QED BY <1>1, TakeCount, BlockCount, FailCount, FreeCount, RestCount DEF MutexStep

\* The counts at the start.
LEMMA CountInit == MutexInit => CountInv
<1> SUFFICES ASSUME MutexInit, NEW t \in Thread
             PROVE  /\ k.mutex_count[t] >= Cardinality(Claimed(t))
                    /\ "EXITED" \notin Life(k, t).state =>
                         k.mutex_count[t] = Cardinality(Claimed(t))
                    /\ k.priority_inherited[t] => k.mutex_count[t] > 0
  BY DEF CountInv
<1>1. k.mutex_count[t] = 0 /\ ~k.priority_inherited[t] /\ pc[t] = "user"
  BY DEF MutexInit, Init, KernelInit, AllThread
<1>2. owner = [m \in Mutexes |-> None] /\ None # t
  BY MutexAssumption DEF MutexInit, AllThread
<1>3. Claimed(t) = {}
  BY <1>1, <1>2 DEF Claimed, Held, InLock
<1>4. Cardinality(Claimed(t)) = 0
  BY <1>3, FS_EmptySet
<1> QED BY <1>1, <1>4

\* The counts are right wherever every mutex has a protocol.
LEMMA CountInvariant == "NONE" \notin Protocols /\ MutexSpec => []CountInv
<1>1. CASE "NONE" \notin Protocols
  <2>1. MutexInv /\ MutexInv' /\ CountInv /\ [MutexNext]_mutexVars => CountInv'
    BY <1>1, CountNext
  <2>2. MutexSpec => []CountInv
    BY <2>1, CountInit, MutexInvTheorem, PTL DEF MutexSpec
  <2> QED BY <2>2, PTL
<1>2. CASE ~("NONE" \notin Protocols)
  BY <1>2, PTL
<1> QED BY <1>1, <1>2

\* mutex_count counts the mutexes a thread owns and the one it waits for, for
\* any threads, mutexes and operations, as long as no mutex is switched to the
\* protocol NONE: count_mutex() and uncount_mutex() look at the protocol the
\* mutex has at that moment, so that such a switch would leave a mutex counted.
THEOREM MutexCountTheorem == "NONE" \notin Protocols /\ MutexSpec => []MutexCountAgrees
<1>1. CountInv => MutexCountAgrees
  BY DEF CountInv, MutexCountAgrees, Claimed, Life
<1> QED BY <1>1, CountInvariant, PTL

\* A thread that runs with an inherited priority has a mutex to give back, and
\* uncount_mutex() of the last one ends the loan.
THEOREM PriorityGivenBackTheorem == "NONE" \notin Protocols /\ MutexSpec => []PriorityGivenBack
<1>1. CountInv => PriorityGivenBack
  BY DEF CountInv, PriorityGivenBack
<1> QED BY <1>1, CountInvariant, PTL

-----------------------------------------------------------------------------
(* Priority inheritance *)

\* The invariant under OwnerIsUrgent.  A thread in a call on a mutex holds
\* none, so that the priority of a waiter never changes; a free mutex with
\* waiters has a thread on its way that is as urgent as they are, and whoever
\* takes the mutex before it is more urgent still, since it runs.
Unencumbered == \A t \in Thread : pc[t] \notin PC =>
                    Held(t) = {} /\ Life(k, t).state \subseteq SLEEPSET
OneEach == \A m, q \in Mutexes : owner[m] # None /\ owner[m] = owner[q] => m = q
OwnersUrgent == \A m \in Mutexes, t \in Thread :
                    owner[m] # None /\ m \in Life(k, t).on =>
                        k.priority[owner[m]] <= k.priority[t]
UrgentHeir(m, h) ==
    /\ Claims(Life(k, h), pc[h], mx[h], m)
    /\ \A t \in Thread : m \in Life(k, t).on => k.priority[h] <= k.priority[t]
HeirsUrgent == \A m \in Mutexes :
                  owner[m] = None /\ (\E t \in Thread : m \in Life(k, t).on) =>
                      \E h \in Thread : UrgentHeir(m, h)
UrgentInv == Unencumbered /\ OneEach /\ OwnersUrgent /\ HeirsUrgent

\* What it rests on.
SingleInherit == Protocols = {"INHERIT"} /\ MaxHeld = 1 /\ Undisturbed

\* A thread that waits holds nothing, and the running thread does not wait.
LEMMA UrgentFacts ==
    ASSUME MutexInv, UrgentInv, self \in Thread, k.sched_lock \in {"thread", "inner"}
    PROVE  /\ Life(k, self).state = {} /\ Life(k, self).on = {}
           /\ \A t \in Thread, m, q \in Mutexes : m \in Life(k, t).on => owner[q] # t /\ t # self
           /\ \A t \in Thread : Life(k, t).state = {} => k.priority[self] <= k.priority[t]
           /\ \A t \in Thread, m \in Mutexes :
                 Claims(Life(k, t), pc[t], mx[t], m) => k.priority[self] <= k.priority[t]
<1>1. /\ self \in AllThread /\ \A t \in Thread : t \in AllThread
      /\ Life(k, self).state = {} /\ MxOK(Life(k, self), pc[self], mx[self])
      /\ self = k.current /\ k \in KernelState /\ KInv
  BY MutexFacts
<1>2. Life(k, self).on = {}
  BY <1>1, MxSettled
<1>3. \A t \in Thread, m, q \in Mutexes : m \in Life(k, t).on => owner[q] # t /\ t # self
  <2> SUFFICES ASSUME NEW t \in Thread, NEW m \in Mutexes, NEW q \in Mutexes,
                      m \in Life(k, t).on
               PROVE  owner[q] # t /\ t # self
    OBVIOUS
  <2>1. pc[t] \in AtLock
    BY <1>1, MutexFacts
  <2>2. Held(t) = {}
    BY <2>1 DEF UrgentInv, Unencumbered, AtLock, PC
  <2> QED BY <1>2, <2>2 DEF Held
<1>4. \A t \in Thread : Life(k, t).state = {} => k.priority[self] <= k.priority[t]
  <2>1. CurrentOK(k)
    BY <1>1 DEF KInv
  <2> QED BY <1>1, <2>1, LifeRunnable DEF CurrentOK
<1>5. ASSUME NEW t \in Thread, NEW m \in Mutexes, Claims(Life(k, t), pc[t], mx[t], m)
      PROVE  k.priority[self] <= k.priority[t]
  <2>1. Life(k, t).state \subseteq SLEEPSET
    BY <1>5 DEF UrgentInv, Unencumbered, Claims, AtLock, PC
  <2>2. SleeperOK(Life(k, t), {mx[t]})
    BY <1>1, <1>5, MutexFacts DEF MxOK, Claims
  <2>3. Life(k, t).state = {}
    BY <1>5, <2>1, <2>2 DEF SleeperOK, SLEEPSET, Claims
  <2> QED BY <1>4, <2>3
<1> QED BY <1>1, <1>2, <1>3, <1>4, <1>5

\* A thread that goes for a mutex holds none.
LEMMA EntersAlone ==
    ASSUME MutexInv, UrgentInv, MaxHeld = 1, NEW m \in Mutexes, NEW d, Enters(m, d)
    PROVE  /\ self \in Thread /\ Held(self) = {}
           /\ \A q \in Mutexes : owner[q] # self
           /\ \A q \in Mutexes : Claims(Life(k, self), pc[self], mx[self], q) => q = m
<1>1. self \in Thread
  BY DEF Enters
<1>2. Held(self) = {}
  <2>1. CASE pc[self] = "user"
    <3>1. Cardinality(Held(self)) < 1
      BY <2>1 DEF Enters, AtLock
    <3>2. Held(self) \subseteq Mutexes
      BY DEF Held
    <3>3. IsFiniteSet(Held(self))
      BY <3>2, FS_Subset, MutexAssumption
    <3>4. Cardinality(Held(self)) \in Nat
      BY <3>3, FS_CardinalityType
    <3>5. Cardinality(Held(self)) = 0
      BY <3>1, <3>4
    <3> QED BY <3>3, <3>5, FS_EmptySet
  <2>2. CASE pc[self] # "user"
    <3>1. pc[self] \notin PC
      BY <2>2 DEF Enters, AtLock, PC
    <3> QED BY <1>1, <3>1 DEF UrgentInv, Unencumbered
  <2> QED BY <2>1, <2>2
<1> QED BY <1>1, <1>2 DEF Held, Enters, Claims

\* Priorities are numbers.
LEMMA PrioritiesTyped == MutexInv => \A t \in Thread : k.priority[t] \in Int
BY MutexFacts, LoanTypes

\* The priorities after a step of the current thread.
LEMMA StepPriorities ==
    ASSUME MutexInv, MutexInv', NEW d, NEW h, LoanStep(k', d, h)
    PROVE  /\ \A t \in Thread : k.priority[t] \in Int /\ k'.priority[t] \in Int
           /\ \A t \in Thread \ {self} : /\ k'.priority[t] <= k.priority[t]
                                         /\ t # h => k'.priority[t] = k.priority[t]
           /\ d # -1 => k'.priority[self] <= k.priority[self]
<1>1. \A t \in Thread : k.priority[t] \in Int
  BY PrioritiesTyped
<1>2. \A t \in Thread : k'.priority[t] \in Int
  <2>1. (MutexInv => \A t \in Thread : k.priority[t] \in Int)'
    BY PrioritiesTyped, PTL
  <2> QED BY <2>1
<1> QED BY <1>1, <1>2 DEF LoanStep

\* The current thread takes m: it is at least as urgent as the heir, since it
\* runs and the heir is ready to.
LEMMA TakeUrgent ==
    ASSUME MutexInv, MutexInv', UrgentInv, MaxHeld = 1, NEW m \in Mutexes, NEW d \in {0, 1},
           TakeStep(m, d)
    PROVE  UrgentInv'
<1>1. /\ Enters(m, d) /\ LoanStep(k', d, None) /\ Same(k', k) /\ owner[m] = None
      /\ k.sched_lock \in {"thread", "inner"} /\ d # -1
  BY DEF TakeStep, Enters
<1>2. PICK s \in Thread : s = self
  BY <1>1 DEF Enters
<1>3. /\ owner' = [owner EXCEPT ![m] = s] /\ pc' = [pc EXCEPT ![s] = "user"]
      /\ \A t \in AllThread \ {s} : mx'[t] = mx[t]
  BY <1>2 DEF TakeStep
<1>4. /\ Held(s) = {} /\ \A q \in Mutexes : owner[q] # s
      /\ \A q \in Mutexes : Claims(Life(k, s), pc[s], mx[s], q) => q = m
  BY <1>1, <1>2, EntersAlone
<1>5. /\ \A t \in Thread, q \in Mutexes : q \in Life(k, t).on => t # s
      /\ \A t \in Thread, q \in Mutexes :
            Claims(Life(k, t), pc[t], mx[t], q) => k.priority[s] <= k.priority[t]
  BY <1>1, <1>2, UrgentFacts
<1>6. /\ \A t \in Thread : k.priority[t] \in Int /\ k'.priority[t] \in Int
      /\ \A t \in Thread \ {s} : k'.priority[t] = k.priority[t]
      /\ k'.priority[s] <= k.priority[s]
      /\ None \notin Thread /\ \A t \in Thread : t \in AllThread
  BY <1>1, <1>2, StepPriorities, MutexFacts
<1>7. /\ owner \in [Mutexes -> Thread \cup {None}] /\ pc = [t \in AllThread |-> pc[t]]
  BY MutexFacts DEF MutexInv, MutexTypes
<1>8. /\ \A t \in Thread : Life(k', t) = Life(k, t)
      /\ \A t \in Thread \ {s} : pc'[t] = pc[t] /\ mx'[t] = mx[t]
      /\ pc'[s] = "user" /\ owner'[m] = s /\ \A q \in Mutexes \ {m} : owner'[q] = owner[q]
  BY <1>1, <1>3, <1>6, <1>7 DEF Same
<1>9. Unencumbered'
  <2> SUFFICES ASSUME NEW t \in Thread, pc'[t] \notin PC
               PROVE  {q \in Mutexes : owner'[q] = t} = {} /\ Life(k', t).state \subseteq SLEEPSET
    BY DEF Unencumbered, Held
  <2>1. t # s
    BY <1>8 DEF PC
  <2>2. Held(t) = {} /\ Life(k, t).state \subseteq SLEEPSET
    BY <1>8, <2>1 DEF UrgentInv, Unencumbered
  <2> QED BY <1>8, <2>1, <2>2 DEF Held
<1>10. OneEach'
  BY <1>4, <1>8 DEF UrgentInv, OneEach
<1>11. OwnersUrgent'
  <2> SUFFICES ASSUME NEW q \in Mutexes, NEW t \in Thread, owner'[q] # None, q \in Life(k', t).on
               PROVE  k'.priority[owner'[q]] <= k'.priority[t]
    BY DEF OwnersUrgent
  <2>1. q \in Life(k, t).on /\ t # s /\ k'.priority[t] = k.priority[t]
    BY <1>5, <1>6, <1>8
  <2>2. CASE q = m
    <3>1. PICK h \in Thread : UrgentHeir(m, h)
      BY <1>1, <2>1, <2>2 DEF UrgentInv, HeirsUrgent
    <3>2. k.priority[s] <= k.priority[h] /\ k.priority[h] <= k.priority[t]
      BY <1>5, <2>1, <2>2, <3>1 DEF UrgentHeir
    <3> QED BY <1>6, <1>8, <2>1, <2>2, <3>2
  <2>3. CASE q # m
    <3>1. owner[q] \in Thread \ {s} /\ owner'[q] = owner[q]
      BY <1>4, <1>7, <1>8, <2>3
    <3>2. k.priority[owner[q]] <= k.priority[t]
      BY <1>6, <2>1, <3>1 DEF UrgentInv, OwnersUrgent
    <3> QED BY <1>6, <2>1, <3>1, <3>2
  <2> QED BY <2>2, <2>3
<1>12. HeirsUrgent'
  <2> SUFFICES ASSUME NEW q \in Mutexes, owner'[q] = None, NEW t \in Thread, q \in Life(k', t).on
               PROVE  \E h \in Thread : UrgentHeir(q, h)'
    BY DEF HeirsUrgent
  <2>1. q # m /\ owner[q] = None /\ q \in Life(k, t).on
    BY <1>6, <1>8
  <2>2. PICK h \in Thread : UrgentHeir(q, h)
    BY <2>1 DEF UrgentInv, HeirsUrgent
  <2>3. h # s
    BY <1>4, <2>1, <2>2 DEF UrgentHeir
  <2>4. UrgentHeir(q, h)'
    BY <1>5, <1>6, <1>8, <2>2, <2>3 DEF UrgentHeir
  <2> QED BY <2>4
<1> QED BY <1>9, <1>10, <1>11, <1>12 DEF UrgentInv

\* It waits for m, and lends its priority to the owner.
LEMMA BlockUrgent ==
    ASSUME MutexInv, MutexInv', UrgentInv, SingleInherit, NEW m \in Mutexes, NEW d \in {0, 1},
           BlockStep(m, d)
    PROVE  UrgentInv'
<1> DEFINE o == owner[m]
<1>1. /\ Enters(m, d) /\ LoanStep(k', d, o) /\ o \in Thread \ {self} /\ owner' = owner
      /\ Only(k', k, self, Blocked(Life(k, self), "WAIT", m))
      /\ k.sched_lock \in {"thread", "inner"} /\ d # -1 /\ MaxHeld = 1
      /\ protocol[m] = "INHERIT" /\ k'.priority[o] <= k'.priority[self]
  <2>1. protocol[m] = "INHERIT"
    BY DEF SingleInherit, MutexInv, MutexTypes
  <2> QED BY <2>1 DEF BlockStep, Enters, SingleInherit
<1>2. PICK s \in Thread : s = self
  BY <1>1 DEF Enters
<1>3. /\ pc' = [pc EXCEPT ![s] = pc'[s]] /\ pc'[s] \in AtLock /\ mx' = [mx EXCEPT ![s] = m]
  BY <1>2 DEF BlockStep
<1>4. /\ Held(s) = {} /\ \A q \in Mutexes : owner[q] # s
      /\ \A q \in Mutexes : Claims(Life(k, s), pc[s], mx[s], q) => q = m
  BY <1>1, <1>2, EntersAlone
<1>5. /\ \A t \in Thread, q \in Mutexes : q \in Life(k, t).on => t # s /\ t # o
      /\ Life(k, s).state = {}
  BY <1>1, <1>2, UrgentFacts
<1>6. /\ \A t \in Thread : k.priority[t] \in Int /\ k'.priority[t] \in Int
      /\ \A t \in Thread \ {s} : /\ k'.priority[t] <= k.priority[t]
                                 /\ t # o => k'.priority[t] = k.priority[t]
      /\ \A t \in Thread : t \in AllThread
  BY <1>1, <1>2, StepPriorities, MutexFacts
<1>7. /\ owner \in [Mutexes -> Thread \cup {None}] /\ pc = [t \in AllThread |-> pc[t]]
      /\ mx = [t \in AllThread |-> mx[t]] /\ None \notin Thread
  BY MutexFacts DEF MutexInv, MutexTypes
<1>8. /\ Life(k', s) = Blocked(Life(k, s), "WAIT", m)
      /\ \A t \in Thread \ {s} : Life(k', t) = Life(k, t) /\ pc'[t] = pc[t] /\ mx'[t] = mx[t]
  BY <1>1, <1>2, <1>3, <1>6, <1>7 DEF Only
<1>9. Life(k', s).on \cap Mutexes \subseteq {m} /\ Life(k', s).state \subseteq SLEEPSET
  <2>1. Life(k, s).on = {}
    BY <1>1, <1>2, UrgentFacts
  <2> QED BY <1>5, <1>8, <2>1 DEF Blocked, SLEEPSET
<1> HIDE DEF o
<1>10. Unencumbered'
  <2> SUFFICES ASSUME NEW t \in Thread, pc'[t] \notin PC
               PROVE  {q \in Mutexes : owner'[q] = t} = {} /\ Life(k', t).state \subseteq SLEEPSET
    BY DEF Unencumbered, Held
  <2>1. CASE t = s
    BY <1>1, <1>4, <1>9, <2>1
  <2>2. CASE t # s
    <3>1. Held(t) = {} /\ Life(k, t).state \subseteq SLEEPSET
      BY <1>8, <2>2 DEF UrgentInv, Unencumbered
    <3> QED BY <1>1, <1>8, <2>2, <3>1 DEF Held
  <2> QED BY <2>1, <2>2
<1>11. OneEach'
  BY <1>1 DEF UrgentInv, OneEach
<1>12. OwnersUrgent'
  <2> SUFFICES ASSUME NEW q \in Mutexes, NEW t \in Thread, owner'[q] # None, q \in Life(k', t).on
               PROVE  k'.priority[owner'[q]] <= k'.priority[t]
    BY DEF OwnersUrgent
  <2>1. owner'[q] = owner[q] /\ owner[q] \in Thread \ {s}
    BY <1>1, <1>4, <1>7
  <2>2. CASE t = s
    BY <1>1, <1>2, <1>9, <2>1, <2>2 DEF o
  <2>3. CASE t # s
    <3>1. q \in Life(k, t).on /\ t # o
      BY <1>5, <1>8, <2>3
    <3>2. k.priority[owner[q]] <= k.priority[t]
      BY <1>7, <2>1, <3>1 DEF UrgentInv, OwnersUrgent
    <3>3. k'.priority[t] = k.priority[t] /\ k'.priority[owner[q]] <= k.priority[owner[q]]
      BY <1>6, <2>1, <2>3, <3>1
    <3> QED BY <1>6, <2>1, <3>2, <3>3
  <2> QED BY <2>2, <2>3
<1>13. HeirsUrgent'
  <2> SUFFICES ASSUME NEW q \in Mutexes, owner'[q] = None, NEW t \in Thread, q \in Life(k', t).on
               PROVE  \E h \in Thread : UrgentHeir(q, h)'
    BY DEF HeirsUrgent
  <2>1. q # m /\ owner[q] = None
    BY <1>1, <1>7 DEF o
  <2>2. \A u \in Thread : q \in Life(k', u).on => u # s /\ q \in Life(k, u).on /\ u # o
    BY <1>5, <1>8, <1>9, <2>1
  <2>3. PICK h \in Thread : UrgentHeir(q, h)
    BY <2>1, <2>2 DEF UrgentInv, HeirsUrgent
  <2>4. h # s
    BY <1>4, <2>1, <2>3 DEF UrgentHeir
  <2>5. Claims(Life(k', h), pc'[h], mx'[h], q)
    BY <1>8, <2>3, <2>4 DEF UrgentHeir
  <2>6. ASSUME NEW u \in Thread, q \in Life(k', u).on PROVE k'.priority[h] <= k'.priority[u]
    <3>1. k.priority[h] <= k.priority[u] /\ k'.priority[u] = k.priority[u]
      BY <1>6, <2>2, <2>3, <2>6 DEF UrgentHeir
    <3>2. k'.priority[h] <= k.priority[h]
      BY <1>6, <2>4
    <3> QED BY <1>6, <3>1, <3>2
  <2> QED BY <2>5, <2>6 DEF UrgentHeir
<1> QED BY <1>10, <1>11, <1>12, <1>13 DEF UrgentInv

\* Its lock() fails.
LEMMA FailUrgent ==
    ASSUME MutexInv, MutexInv', UrgentInv, FailStep
    PROVE  UrgentInv'
<1>1. PICK s \in Thread : s = self
  BY DEF FailStep
<1>2. /\ LoanStep(k', -1, None) /\ owner' = owner /\ mx' = mx /\ Same(k', k)
      /\ pc' = [pc EXCEPT ![s] = pc'[s]] /\ pc[s] \in AtLock
      /\ Life(k, s).state = {} /\ Life(k, s).wake # "DONE"
  BY <1>1 DEF FailStep
<1>3. /\ \A t \in Thread \ {s} : k'.priority[t] = k.priority[t]
      /\ \A t \in Thread : t \in AllThread /\ t # None
      /\ owner \in [Mutexes -> Thread \cup {None}] /\ pc = [t \in AllThread |-> pc[t]]
  <2>1. \A t \in Thread : t \in AllThread /\ t # None
    BY MutexFacts
  <2>2. \A t \in Thread \ {s} : k'.priority[t] = k.priority[t]
    BY <1>1, <1>2, <2>1, StepPriorities
  <2>3. owner \in [Mutexes -> Thread \cup {None}] /\ pc = [t \in AllThread |-> pc[t]]
    BY MutexFacts DEF MutexInv, MutexTypes
  <2> QED BY <2>1, <2>2, <2>3
<1>4. /\ \A t \in Thread : Life(k', t) = Life(k, t)
      /\ \A t \in Thread \ {s} : pc'[t] = pc[t]
  BY <1>2, <1>3 DEF Same
<1>5. Held(s) = {} /\ \A q \in Mutexes : owner[q] # s
  BY <1>2 DEF UrgentInv, Unencumbered, Held, AtLock, PC
<1>6. \A q \in Mutexes : q \notin Life(k, s).on
  BY <1>2, <1>3, MxSettled, MutexFacts
<1>7. Unencumbered'
  <2> SUFFICES ASSUME NEW t \in Thread, pc'[t] \notin PC
               PROVE  {q \in Mutexes : owner'[q] = t} = {} /\ Life(k', t).state \subseteq SLEEPSET
    BY DEF Unencumbered, Held
  <2>1. CASE t = s
    BY <1>2, <1>4, <1>5, <2>1
  <2>2. CASE t # s
    <3>1. Held(t) = {} /\ Life(k, t).state \subseteq SLEEPSET
      BY <1>4, <2>2 DEF UrgentInv, Unencumbered
    <3> QED BY <1>2, <1>4, <2>2, <3>1 DEF Held
  <2> QED BY <2>1, <2>2
<1>8. OneEach'
  BY <1>2 DEF UrgentInv, OneEach
<1>9. OwnersUrgent'
  <2> SUFFICES ASSUME NEW q \in Mutexes, NEW t \in Thread, owner'[q] # None, q \in Life(k', t).on
               PROVE  k'.priority[owner'[q]] <= k'.priority[t]
    BY DEF OwnersUrgent
  <2>1. owner'[q] = owner[q] /\ owner[q] \in Thread \ {s} /\ t # s /\ q \in Life(k, t).on
    BY <1>2, <1>3, <1>4, <1>5, <1>6
  <2> QED BY <1>3, <2>1 DEF UrgentInv, OwnersUrgent
<1>10. HeirsUrgent'
  <2> SUFFICES ASSUME NEW q \in Mutexes, owner'[q] = None, NEW t \in Thread, q \in Life(k', t).on
               PROVE  \E h \in Thread : UrgentHeir(q, h)'
    BY DEF HeirsUrgent
  <2>1. PICK h \in Thread : UrgentHeir(q, h)
    BY <1>2, <1>4 DEF UrgentInv, HeirsUrgent
  <2>2. h # s
    BY <1>2, <2>1 DEF UrgentHeir, Claims
  <2>3. UrgentHeir(q, h)'
    BY <1>2, <1>3, <1>4, <1>6, <2>1, <2>2 DEF UrgentHeir
  <2> QED BY <2>3
<1> QED BY <1>7, <1>8, <1>9, <1>10 DEF UrgentInv

\* It frees m: the heir is as urgent as the owner was, if others wait.
LEMMA FreeUrgent ==
    ASSUME MutexInv, MutexInv', UrgentInv, SingleInherit, NEW m \in Mutexes, FreeStep(m)
    PROVE  UrgentInv'
<1> DEFINE h == Heir(m)
<1>1. PICK s \in Thread : s = self
  BY MutexUser DEF FreeStep
<1>2. /\ LoanStep(k', -1, h) /\ owner[m] = s /\ owner' = [owner EXCEPT ![m] = None]
      /\ h # s /\ (h = None \/ (h \in Thread /\ m \in Life(k, h).on))
      /\ h = None => \A t \in AllThread : m \notin Life(k, t).on
      /\ \A t \in AllThread \ {s} :
            Life(k', t) = IF t = h THEN Dequeued(Life(k, t), "DONE") ELSE Life(k, t)
      /\ Life(k', s).on \cap Mutexes = {} /\ Life(k', s).state \subseteq SLEEPSET
      /\ \A t \in AllThread \ {s} : mx'[t] = mx[t]
      /\ pc' = [pc EXCEPT ![s] = pc'[s]] /\ pc[s] = "user"
      /\ k.sched_lock \in {"thread", "inner"}
  BY <1>1 DEF FreeStep, InThread
<1>3. h \in Thread /\ OthersWait(m, h) => k'.priority[h] <= k.priority[s]
  <2>1. protocol[m] = "INHERIT"
    BY DEF SingleInherit, MutexInv, MutexTypes
  <2> QED BY <1>1, <2>1 DEF FreeStep
<1>4. /\ owner \in [Mutexes -> Thread \cup {None}] /\ pc = [t \in AllThread |-> pc[t]]
      /\ \A t \in Thread : t \in AllThread /\ t # None
  <2>1. \A t \in Thread : t \in AllThread /\ t # None
    BY MutexFacts
  <2> QED BY <2>1, MutexFacts DEF MutexInv, MutexTypes
<1>5. /\ \A t \in Thread : k.priority[t] \in Int /\ k'.priority[t] \in Int
      /\ \A t \in Thread \ {s} : /\ k'.priority[t] <= k.priority[t]
                                 /\ t # h => k'.priority[t] = k.priority[t]
  BY <1>1, <1>2, StepPriorities
<1>6. h \in Thread => pc[h] \in AtLock /\ mx[h] = m /\ Life(k, h).wake = "NONE"
  BY <1>2, <1>4, MutexFacts
<1> HIDE DEF h
<1>7. /\ owner'[m] = None /\ \A q \in Mutexes \ {m} : owner'[q] = owner[q] /\ owner[q] # s
  BY <1>2, <1>4 DEF UrgentInv, OneEach
<1>8. /\ \A t \in Thread \ {s} : pc'[t] = pc[t] /\ mx'[t] = mx[t]
      /\ \A t \in Thread \ {s} : t # h => Life(k', t) = Life(k, t)
      /\ h \in Thread => Life(k', h) = Dequeued(Life(k, h), "DONE")
  BY <1>2, <1>4
<1>9. \A t \in Thread, q \in Mutexes :
         q \in Life(k', t).on => t # s /\ t # h /\ q \in Life(k, t).on
  BY <1>2, <1>8 DEF Dequeued
<1>10. Unencumbered'
  <2> SUFFICES ASSUME NEW t \in Thread, pc'[t] \notin PC
               PROVE  {q \in Mutexes : owner'[q] = t} = {} /\ Life(k', t).state \subseteq SLEEPSET
    BY DEF Unencumbered, Held
  <2>1. CASE t = s
    BY <1>2, <1>4, <1>7, <2>1
  <2>2. CASE t # s
    <3>1. Held(t) = {} /\ Life(k, t).state \subseteq SLEEPSET
      BY <1>8, <2>2 DEF UrgentInv, Unencumbered
    <3>2. Life(k', t).state \subseteq SLEEPSET
      BY <1>8, <2>2, <3>1 DEF Dequeued
    <3> QED BY <1>4, <1>7, <3>1, <3>2 DEF Held
  <2> QED BY <2>1, <2>2
<1>11. OneEach'
  BY <1>7 DEF UrgentInv, OneEach
<1>12. OwnersUrgent'
  <2> SUFFICES ASSUME NEW q \in Mutexes, NEW t \in Thread, owner'[q] # None, q \in Life(k', t).on
               PROVE  k'.priority[owner'[q]] <= k'.priority[t]
    BY DEF OwnersUrgent
  <2>1. owner'[q] = owner[q] /\ owner[q] \in Thread \ {s}
    BY <1>4, <1>7
  <2>2. q \in Life(k, t).on /\ k'.priority[t] = k.priority[t]
    BY <1>5, <1>9
  <2>3. k.priority[owner[q]] <= k.priority[t] /\ k'.priority[owner[q]] <= k.priority[owner[q]]
    BY <1>4, <1>5, <2>1, <2>2 DEF UrgentInv, OwnersUrgent
  <2> QED BY <1>5, <2>1, <2>2, <2>3
<1>13. HeirsUrgent'
  <2> SUFFICES ASSUME NEW q \in Mutexes, owner'[q] = None, NEW t \in Thread, q \in Life(k', t).on
               PROVE  \E g \in Thread : UrgentHeir(q, g)'
    BY DEF HeirsUrgent
  <2>0. t # s /\ t # h /\ q \in Life(k, t).on
    BY <1>9
  <2>1. CASE q = m
    <3>1. h \in Thread
      BY <1>2, <1>4, <2>0, <2>1
    <3>2. Claims(Life(k', h), pc'[h], mx'[h], m)
      BY <1>2, <1>6, <1>8, <3>1 DEF Claims, Dequeued
    <3>3. OthersWait(m, h)
      BY <1>4, <2>0, <2>1 DEF OthersWait
    <3>4. ASSUME NEW u \in Thread, m \in Life(k', u).on PROVE k'.priority[h] <= k'.priority[u]
      <4>1. u # s /\ u # h /\ m \in Life(k, u).on /\ k'.priority[u] = k.priority[u]
        BY <1>5, <1>9, <3>4
      <4>2. k.priority[s] <= k.priority[u]
        BY <1>2, <1>4, <4>1 DEF UrgentInv, OwnersUrgent
      <4> QED BY <1>3, <1>5, <3>1, <3>3, <4>1, <4>2
    <3> QED BY <2>1, <3>1, <3>2, <3>4 DEF UrgentHeir
  <2>2. CASE q # m
    <3>1. PICK g \in Thread : UrgentHeir(q, g)
      BY <1>7, <2>0, <2>2 DEF UrgentInv, HeirsUrgent
    <3>2. g # s /\ g # h
      BY <1>2, <1>6, <3>1 DEF UrgentHeir, Claims, AtLock
    <3>3. Claims(Life(k', g), pc'[g], mx'[g], q)
      BY <1>8, <3>1, <3>2 DEF UrgentHeir
    <3>4. \A u \in Thread : q \in Life(k', u).on => k'.priority[g] <= k'.priority[u]
      BY <1>5, <1>9, <3>1, <3>2 DEF UrgentHeir
    <3> QED BY <3>3, <3>4 DEF UrgentHeir
  <2> QED BY <2>1, <2>2
<1> QED BY <1>10, <1>11, <1>12, <1>13 DEF UrgentInv

\* Mutexes and priorities stay.
LEMMA RestUrgent ==
    ASSUME MutexInv, MutexInv', UrgentInv, Undisturbed, RestStep
    PROVE  UrgentInv'
<1>1. owner' = owner /\ k'.priority = k.priority
  BY DEF RestStep
<1>2. \A t \in Thread :
        /\ RestsAt(t)
        /\ Life(k', t).on \cap Mutexes \subseteq Life(k, t).on
        /\ pc'[t] \notin PC => /\ Life(k, t).wake = "DONE" => Life(k', t).wake = "DONE"
                               /\ Life(k', t).state \subseteq Life(k, t).state
  BY DEF RestStep
<1>3. Unencumbered'
  <2> SUFFICES ASSUME NEW t \in Thread, pc'[t] \notin PC
               PROVE  {q \in Mutexes : owner'[q] = t} = {} /\ Life(k', t).state \subseteq SLEEPSET
    BY DEF Unencumbered, Held
  <2>1. pc[t] \notin PC
    BY <1>2 DEF RestsAt, PC
  <2>2. Held(t) = {} /\ Life(k, t).state \subseteq SLEEPSET
    BY <2>1 DEF UrgentInv, Unencumbered
  <2> QED BY <1>1, <1>2, <2>2 DEF Held
<1>4. OneEach'
  BY <1>1 DEF UrgentInv, OneEach
<1>5. OwnersUrgent'
  <2>1. \A q \in Mutexes, t \in Thread : q \in Life(k', t).on => q \in Life(k, t).on
    BY <1>2
  <2> QED BY <1>1, <2>1 DEF UrgentInv, OwnersUrgent
<1>6. HeirsUrgent'
  <2> SUFFICES ASSUME NEW q \in Mutexes, owner'[q] = None, NEW t \in Thread, q \in Life(k', t).on
               PROVE  \E g \in Thread : UrgentHeir(q, g)'
    BY DEF HeirsUrgent
  <2>1. \A u \in Thread : q \in Life(k', u).on => q \in Life(k, u).on
    BY <1>2
  <2>2. PICK h \in Thread : UrgentHeir(q, h)
    BY <1>1, <2>1 DEF UrgentInv, HeirsUrgent
  <2>3. Claims(Life(k, h), pc[h], mx[h], q)
    BY <2>2 DEF UrgentHeir
  <2>4. pc'[h] = pc[h] /\ mx'[h] = mx[h]
    BY <1>2, <2>3 DEF RestsAt, Claims
  <2>5. Claims(Life(k', h), pc'[h], mx'[h], q)
    BY <1>2, <2>3, <2>4 DEF Claims, AtLock, PC
  <2>6. UrgentHeir(q, h)'
    BY <1>1, <2>1, <2>2, <2>5 DEF UrgentHeir
  <2> QED BY <2>6
<1> QED BY <1>3, <1>4, <1>5, <1>6 DEF UrgentInv

\* Every step keeps the invariant.
LEMMA UrgentNext ==
    SingleInherit /\ MutexInv /\ MutexInv' /\ UrgentInv /\ [MutexNext]_mutexVars => UrgentInv'
<1> SUFFICES ASSUME SingleInherit, MutexInv, MutexInv', UrgentInv, [MutexNext]_mutexVars
             PROVE  UrgentInv'
  OBVIOUS
<1>1. "NONE" \notin Protocols /\ MaxHeld = 1 /\ Undisturbed
  BY DEF SingleInherit
<1>2. MutexStep
  BY <1>1, MutexSteps
<1> QED BY <1>1, <1>2, TakeUrgent, BlockUrgent, FailUrgent, FreeUrgent, RestUrgent DEF MutexStep

\* It holds at the start.
LEMMA UrgentInit == MutexInit => UrgentInv
<1> SUFFICES ASSUME MutexInit PROVE UrgentInv
  OBVIOUS
<1>1. Init /\ owner = [m \in Mutexes |-> None]
  BY DEF MutexInit
<1>2. \A t \in Thread : pc[t] = "user" /\ Life(k, t).on = {}
  BY <1>1, InitKInv DEF AllThread
<1> QED BY <1>1, <1>2 DEF UrgentInv, Unencumbered, OneEach, OwnersUrgent, HeirsUrgent, PC

\* No thread waits for a mutex whose owner is less urgent, for any threads,
\* mutexes and condition variables, where every mutex is INHERIT, a thread
\* holds one mutex at a time, and nobody suspends or kills a thread or sets its
\* priority.  The simple protocol does not promise more: an inherited priority
\* is not passed on along a chain of owners that wait for each other, and
\* set_priority() of a waiter does not reach the owner.
THEOREM OwnerIsUrgentTheorem == SingleInherit /\ MutexSpec => []OwnerIsUrgent
<1>1. CASE SingleInherit
  <2>1. MutexInv /\ MutexInv' /\ UrgentInv /\ [MutexNext]_mutexVars => UrgentInv'
    BY <1>1, UrgentNext
  <2>2. MutexInv /\ UrgentInv => OwnerIsUrgent
    <3> SUFFICES ASSUME MutexInv, UrgentInv, NEW m \in Mutexes, owner[m] # None,
                        NEW t \in Range(k.wait_queue[m])
                 PROVE  k.priority[owner[m]] <= k.priority[t]
      BY DEF OwnerIsUrgent
    <3>1. m \in WaitQueue /\ k \in KernelState
      BY MutexFacts
    <3>2. t \in AllThread /\ m \in Life(k, t).on
      BY <3>1 DEF Life, OnQueue, KernelState, Range
    <3>3. t \in Thread
      BY <3>2, MutexFacts
    <3> QED BY <3>2, <3>3 DEF UrgentInv, OwnersUrgent
  <2>3. MutexSpec => []OwnerIsUrgent
    BY <2>1, <2>2, UrgentInit, MutexInvTheorem, PTL DEF MutexSpec
  <2> QED BY <2>3, PTL
<1>2. CASE ~SingleInherit
  BY <1>2, PTL
<1> QED BY <1>1, <1>2
=============================================================================
