----------------------------- MODULE Semaphore ------------------------------
(***************************************************************************)
(* Cyg_Counting_Semaphore on top of the kernel: threads that wait, with or *)
(* without a deadline, threads and DSRs that post, and all that the module *)
(* Threads lets happen to a waiting thread meanwhile: timeouts, release(), *)
(* suspend(), kill() and preemption between wake-up and running.           *)
(***************************************************************************)
EXTENDS Threads

CONSTANTS
    sem,        \* the wait queue of the semaphore
    InitCount,  \* the count it is constructed with
    MaxCount    \* bound on the posts outstanding

ASSUME SemaphoreAssumption ==
    /\ sem \in WaitQueue
    /\ InitCount \in Nat
    /\ MaxCount \in Nat
    /\ InitCount <= MaxCount

VARIABLE
    count       \* Cyg_Counting_Semaphore::count

semVars == <<k, pc, ticks, count>>

\* "wait", "twait": asleep in, or woken from, the loop of wait(), wait(timeout).
SemPC == PC \cup {"wait", "twait"}

SemInit == Init /\ count = InitCount

-----------------------------------------------------------------------------

\* One turn of the waiting loop: sleep, enqueue, reschedule.
Block(k1, reason) ==
    Reschedule(Enqueue(Sleep(SetSleepReason(k1, reason)), sem, self))

SemWait ==
    /\ "wait" \in Ops
    /\ InThread
    /\ \/ /\ count = 0
          /\ k' = Block(k, "WAIT")
          /\ pc' = [pc EXCEPT ![self] = "wait"]
          /\ UNCHANGED <<count, ticks>>
       \/ /\ count > 0
          /\ k' = Unlock(k)
          /\ count' = count - 1
          /\ UNCHANGED <<pc, ticks>>

\* Mutant: the count is not tested again after the wake-up.
SemWaitWokenUnchecked ==
    LET reason == k.wake_reason[self]
    IN  /\ k.sched_lock = "inner"
        /\ pc[self] = "wait"
        /\ pc' = [pc EXCEPT ![self] = "user"]
        /\ UNCHANGED ticks
        /\ \/ /\ reason = "EXIT"
              /\ k' = Reschedule(Exit(k))
              /\ UNCHANGED count
           \/ /\ reason \in {"DESTRUCT", "BREAK"}
              /\ k' = Unlock(k)
              /\ UNCHANGED count
           \/ /\ reason \notin {"EXIT", "DESTRUCT", "BREAK"}
              /\ k' = Unlock(k)
              /\ count' = count - 1

SemWaitWoken ==
    LET reason == k.wake_reason[self]
    IN  /\ k.sched_lock = "inner"
        /\ pc[self] = "wait"
        /\ UNCHANGED ticks
        /\ \/ /\ reason = "EXIT"
              /\ k' = Reschedule(Exit(k))
              /\ pc' = [pc EXCEPT ![self] = "user"]
              /\ UNCHANGED count
           \/ /\ reason \in {"DESTRUCT", "BREAK"}
              /\ k' = Unlock(k)
              /\ pc' = [pc EXCEPT ![self] = "user"]
              /\ UNCHANGED count
           \/ /\ reason \notin {"EXIT", "DESTRUCT", "BREAK"}
              /\ count > 0
              /\ k' = Unlock(k)
              /\ pc' = [pc EXCEPT ![self] = "user"]
              /\ count' = count - 1
           \/ /\ reason \notin {"EXIT", "DESTRUCT", "BREAK"}
              /\ count = 0
              /\ k' = Block(k, "WAIT")
              /\ UNCHANGED <<pc, count>>

\* The timer is set once, before the loop; past: the deadline has passed, so
\* that it expires at once.
SemTimedWait(past) ==
    LET k1 == SetTimer(k, "TIMEOUT", past)
    IN  /\ "twait" \in Ops
        /\ InThread
        /\ UNCHANGED ticks
        /\ \/ /\ count = 0
              /\ k1.wake_reason[self] # "NONE"
              /\ k' = Unlock(ClearTimer(k1, self))
              /\ UNCHANGED <<pc, count>>
           \/ /\ count = 0
              /\ k1.wake_reason[self] = "NONE"
              /\ k' = Block(k1, "TIMEOUT")
              /\ pc' = [pc EXCEPT ![self] = "twait"]
              /\ UNCHANGED count
           \/ /\ count > 0
              /\ k' = Unlock(ClearTimer(k1, self))
              /\ count' = count - 1
              /\ UNCHANGED pc

SemTimedWaitWoken ==
    LET reason == k.wake_reason[self]
    IN  /\ k.sched_lock = "inner"
        /\ pc[self] = "twait"
        /\ UNCHANGED ticks
        /\ \/ /\ reason = "EXIT"
              /\ k' = Reschedule(Exit(k))
              /\ pc' = [pc EXCEPT ![self] = "user"]
              /\ UNCHANGED count
           \/ /\ reason \in {"TIMEOUT", "DESTRUCT", "BREAK"}
              /\ k' = Unlock(ClearTimer(k, self))
              /\ pc' = [pc EXCEPT ![self] = "user"]
              /\ UNCHANGED count
           \/ /\ reason \notin {"EXIT", "TIMEOUT", "DESTRUCT", "BREAK"}
              /\ count > 0
              /\ k' = Unlock(ClearTimer(k, self))
              /\ pc' = [pc EXCEPT ![self] = "user"]
              /\ count' = count - 1
           \/ /\ reason \notin {"EXIT", "TIMEOUT", "DESTRUCT", "BREAK"}
              /\ count = 0
              /\ k' = Block(k, "TIMEOUT")
              /\ UNCHANGED <<pc, count>>

SemTrywait ==
    /\ "trywait" \in Ops
    /\ InThreadOrDsr
    /\ k' = Unlock(k)
    /\ count' = IF count > 0 THEN count - 1 ELSE count
    /\ UNCHANGED <<pc, ticks>>

\* dequeue() takes the head off the queue before it is woken.
WakeHead(q, reason) ==
    LET t == Head(k.wait_queue[q])
    IN  Wake(SetWakeReason(LeaveQueue(k, t), t, reason), t)

\* Mutant: a waiter is woken only by the post that makes the count positive.
SemPostFirstOnly ==
    /\ "post" \in Ops
    /\ InThreadOrDsr
    /\ count < MaxCount
    /\ count' = count + 1
    /\ k' = Unlock(IF k.wait_queue[sem] = <<>> \/ count > 0
                   THEN k ELSE WakeHead(sem, "DONE"))
    /\ UNCHANGED <<pc, ticks>>

SemPost ==
    /\ "post" \in Ops
    /\ InThreadOrDsr
    /\ count < MaxCount
    /\ count' = count + 1
    /\ k' = Unlock(IF k.wait_queue[sem] = <<>> THEN k ELSE WakeHead(sem, "DONE"))
    /\ UNCHANGED <<pc, ticks>>

SemNext ==
    \/ SemWait
    \/ SemWaitWoken
    \/ \E past \in BOOLEAN : SemTimedWait(past)
    \/ SemTimedWaitWoken
    \/ SemTrywait
    \/ SemPost
    \/ Next /\ UNCHANGED count

SemSpec == SemInit /\ [][SemNext]_semVars

-----------------------------------------------------------------------------
(* Properties *)

\* The kernel state, the continuations and the count have their types.
SemTypeOK ==
    /\ k \in KernelState
    /\ pc \in [AllThread -> SemPC]
    /\ ticks \in 0..MaxTicks
    /\ count \in 0..MaxCount

InWait(t) == pc[t] \in {"wait", "twait"}

\* Exactly the threads asleep in wait() are on the queue, so that post() can
\* reach each of them and wakes no other: timeouts, release(), suspend() and
\* kill() leave no stale or missing entry behind.
SleepersAreQueued ==
    /\ WaitQueuesOK(k)
    /\ \A t \in Thread :
         t \in Range(k.wait_queue[sem]) <=>
             InWait(t) /\ "SLEEPING" \in k.state[t]

\* Threads that post() woke and that have not taken the event yet, the ones
\* that kill() stopped on the way included.
Heirs == {t \in Thread : InWait(t) /\ k.wake_reason[t] = "DONE"}

\* No post is lost while a thread sleeps on the semaphore: each unit of the
\* count has a woken thread on its way to take it, whoever takes it first.
\* Only kill() loses a post, the one whose taker it stops.
NoLostPost == k.wait_queue[sem] # <<>> => count <= Cardinality(Heirs)

\* "wait until either an event has occurred or a number of clock ticks have
\* happened": a thread asleep in wait(timeout) has its timer armed.
TimedWaitHasTimer ==
    \A t \in Thread :
        pc[t] = "twait" /\ "SLEEPING" \in k.state[t] => k.timer[t]

=============================================================================
