----------------------------- MODULE Interrupts -----------------------------
(***************************************************************************)
(* The scheduler lock, the pending-DSR list and unlock_inner(), at the     *)
(* grain at which an interrupt can arrive.  Kernel.tla treats unlock() as  *)
(* one step taken with the lock held; this module looks inside it: an      *)
(* interrupt may come between any two of the steps, its DSR is queued, and *)
(* one of several threads, each stopped somewhere inside unlock_inner(),   *)
(* has to find it.                                                         *)
(*                                                                         *)
(* The configuration is the default one: DSRs kept in a FIFO list, one     *)
(* CPU, the MIPS HAL.  Its __default_interrupt_vsr increments sched_lock   *)
(* and leaves interrupts off until the return from interrupt_end(), except *)
(* while hal_interrupt_stack_call_pending_DSRs() runs the DSRs.            *)
(* Which thread is the best one is Kernel.tla's business: here schedule()  *)
(* may return any ready thread, and a locked section or a DSR may make any *)
(* thread ready or not ready.                                              *)
(***************************************************************************)
EXTENDS Integers, Sequences, SequencesExt, FiniteSets

CONSTANTS
    Thread,     \* the application's threads
    Idle,       \* the idle thread: always ready, never locks
    Intr,       \* the Cyg_Interrupt objects
    MaxLock,    \* bound on the nesting of lock()
    MaxPost     \* bound on the interrupts of one source not yet served

ASSUME InterruptsAssumption ==
    /\ Idle \notin Thread
    /\ MaxLock \in Nat \ {0}
    /\ MaxPost \in Nat \ {0}

AllThread == Thread \cup {Idle}

VARIABLES
    sched_lock,       \* Cyg_Scheduler_SchedLock::sched_lock
    current_thread,   \* Cyg_Scheduler::current_thread
    need_reschedule,  \* Cyg_Scheduler::need_reschedule
    ready,            \* the threads whose state is RUNNING
    stack,            \* for each thread, its calls of unlock_inner(), innermost last
    dsr_list,         \* Cyg_Interrupt::dsr_list .. dsr_list_tail
    dsr_count,        \* Cyg_Interrupt::dsr_count
    intr,             \* call_pending_DSRs_inner()'s intr and count, and the
    count,            \*   rest of the list it has taken off dsr_list
    next_dsr,
    held,             \* history: lock()s less unlock()s of each thread
    owed              \* history: interrupts less those a DSR has served

vars == <<sched_lock, current_thread, need_reschedule, ready, stack, dsr_list,
          dsr_count, intr, count, next_dsr, held, owed>>

sched == <<sched_lock, current_thread, need_reschedule, ready>>
dsrs  == <<dsr_list, dsr_count, intr, count, next_dsr>>
ghost == <<held, owed>>

NoIntr == "none"

\* A call of unlock_inner(new_lock), or thread_entry() on its way to one, and
\* the place it has reached.  `isr' is set when interrupt_end() made the call.
Enter(new_lock, isr) == [at |-> "dsrs", new_lock |-> new_lock, isr |-> isr]
EntryFrame == [at |-> "entry", new_lock |-> 0, isr |-> FALSE]

me == stack[current_thread]
InThreadCode == me = <<>>
InCall(place) == me # <<>> /\ Last(me).at = place

\* Replace the current thread's innermost frame, add one, remove it.
Goto(place) == stack' = [stack EXCEPT ![current_thread][Len(me)].at = place]
Call(f)     == stack' = [stack EXCEPT ![current_thread] = Append(@, f)]
Return      == stack' = [stack EXCEPT ![current_thread] = Front(@)]

\* start_cpu(): the first thread is loaded with the lock still at 1.
InterruptsInit ==
    /\ sched_lock = 1
    /\ current_thread \in AllThread
    /\ need_reschedule = FALSE
    /\ ready = AllThread
    /\ stack = [t \in AllThread |-> <<EntryFrame>>]
    /\ dsr_list = <<>>
    /\ dsr_count = [i \in Intr |-> 0]
    /\ intr = NoIntr /\ count = 0 /\ next_dsr = <<>>
    /\ held = [t \in AllThread |-> 0]
    /\ owed = [i \in Intr |-> 0]
-----------------------------------------------------------------------------
(* Thread code *)

Lock ==
    /\ InThreadCode
    /\ current_thread # Idle
    /\ sched_lock < MaxLock
    /\ sched_lock' = sched_lock + 1
    /\ held' = [held EXCEPT ![current_thread] = @ + 1]
    /\ UNCHANGED <<current_thread, need_reschedule, ready, stack, dsrs, owed>>

\* unlock(): the last one enters unlock_inner(0), the others decrement.
UnlockFrom(level) ==
    /\ InThreadCode
    /\ sched_lock = level
    /\ held' = [held EXCEPT ![current_thread] = @ - 1]
    /\ IF level = 1
       THEN Call(Enter(0, FALSE)) /\ UNCHANGED sched_lock
       ELSE sched_lock' = level - 1 /\ UNCHANGED stack
    /\ UNCHANGED <<current_thread, need_reschedule, ready, dsrs, owed>>

Unlock == \E level \in 1..MaxLock : UnlockFrom(level)

\* The threads that may be RUNNING after code that holds the lock has woken,
\* suspended or put to sleep at most one of them.
ReadyAfter == {ready} \cup {ready \cup {t} : t \in Thread} \cup {ready \ {t} : t \in Thread}

\* A thread puts itself to sleep inside a locked section and calls
\* reschedule(), to come back with the lock it had.
Reschedule ==
    /\ InThreadCode
    /\ sched_lock > 0
    /\ ready' = ready \ {current_thread}
    /\ Call(Enter(sched_lock, FALSE))
    /\ UNCHANGED <<sched_lock, current_thread, need_reschedule, dsrs, ghost>>

\* unlock_reschedule(), which mutex unlock and yield use.
UnlockReschedule ==
    /\ InThreadCode
    /\ sched_lock > 0
    /\ Call(Enter(sched_lock - 1, FALSE))
    /\ held' = [held EXCEPT ![current_thread] = @ - 1]
    /\ UNCHANGED <<sched_lock, current_thread, need_reschedule, ready, dsrs, owed>>

\* Scheduler calls on other threads made by a locked section.
ChangeReady ==
    /\ InThreadCode
    /\ sched_lock > 0
    /\ ready' \in ReadyAfter \ {ready}
    /\ current_thread \in ready'
    /\ need_reschedule' \in {need_reschedule, TRUE}
    /\ UNCHANGED <<sched_lock, current_thread, stack, dsrs, ghost>>
-----------------------------------------------------------------------------
(* Interrupts *)

\* On return to C the HAL has interrupts off, except around the DSRs.
InterruptsEnabled == ~InThreadCode => (Last(me).isr => Last(me).at = "run")

\* Mutant: a second post before the DSR runs is not counted.
post_dsrUncounted(i) ==
    /\ dsr_list'  = IF dsr_count[i] = 0 THEN Append(dsr_list, i) ELSE dsr_list
    /\ dsr_count' = [dsr_count EXCEPT ![i] = 1]

post_dsr(i) ==
    /\ dsr_list'  = IF dsr_count[i] = 0 THEN Append(dsr_list, i) ELSE dsr_list
    /\ dsr_count' = [dsr_count EXCEPT ![i] = @ + 1]

\* Mutant: an interrupt of a running DSR starts the waiting DSRs itself.
interrupt_endUnnested ==
    IF sched_lock = 0 \/ InCall("run")
    THEN sched_lock' = 1 /\ Call(Enter(0, TRUE))
    ELSE UNCHANGED <<sched_lock, stack>>

\* The VSR's increment and interrupt_end()'s unlock() cancel out unless the
\* lock was 0: then the interrupted thread enters unlock_inner(0).
interrupt_end ==
    IF sched_lock = 0
    THEN sched_lock' = 1 /\ Call(Enter(0, TRUE))
    ELSE UNCHANGED <<sched_lock, stack>>

\* The ISR of i returns CALL_DSR, or only HANDLED.
Interrupt(i) ==
    /\ InterruptsEnabled
    /\ \/ /\ owed[i] < MaxPost
          /\ owed' = [owed EXCEPT ![i] = @ + 1]
          /\ post_dsr(i)
       \/ UNCHANGED <<owed, dsr_list, dsr_count>>
    /\ interrupt_end
    /\ UNCHANGED <<current_thread, need_reschedule, ready, intr, count, next_dsr, held>>
-----------------------------------------------------------------------------
(* unlock_inner() *)

\* call_pending_DSRs_inner() fetches the head of `list', with interrupts off.
Fetch(list) ==
    /\ intr' = Head(list)
    /\ count' = dsr_count[Head(list)]
    /\ next_dsr' = Tail(list)
    /\ dsr_count' = [dsr_count EXCEPT ![Head(list)] = 0]

\* The loop's head: DSRs run only if the lock is being released.
CallDSRs ==
    /\ InCall("dsrs")
    /\ IF Last(me).new_lock = 0 /\ dsr_list # <<>>
       THEN Goto("run") /\ dsr_list' = <<>> /\ Fetch(dsr_list)
       ELSE Goto("resched") /\ UNCHANGED dsrs
    /\ UNCHANGED <<sched, ghost>>

\* A DSR returns; the next of the list is fetched.
DSRReturns ==
    /\ InCall("run")
    /\ owed' = [owed EXCEPT ![intr] = @ - count]
    /\ ready' \in ReadyAfter
    /\ need_reschedule' \in {need_reschedule, TRUE}
    /\ IF next_dsr # <<>>
       THEN Fetch(next_dsr) /\ UNCHANGED stack
       ELSE /\ Goto("resched")
            /\ intr' = NoIntr /\ count' = 0
            /\ UNCHANGED <<next_dsr, dsr_count>>
    /\ UNCHANGED <<sched_lock, current_thread, dsr_list, held>>

\* The context switch: the next thread continues where it left off, at the
\* same place of its own call, or starts in thread_entry().
Switch ==
    /\ InCall("resched")
    /\ Goto("switched")
    /\ IF current_thread \notin ready \/ need_reschedule
       THEN current_thread' \in ready /\ need_reschedule' = FALSE
       ELSE UNCHANGED <<current_thread, need_reschedule>>
    /\ UNCHANGED <<sched_lock, ready, dsrs, ghost>>

\* Leaving: the lock becomes what the caller asked for.
SetLock ==
    /\ InCall("switched")
    /\ sched_lock' = Last(me).new_lock
    /\ IF Last(me).new_lock = 0 THEN Goto("zeroed") ELSE Return
    /\ UNCHANGED <<current_thread, need_reschedule, ready, dsrs, ghost>>

\* Mutant: the list is not looked at again once the lock is zero.
TestAgainDropped ==
    /\ InCall("zeroed")
    /\ UNCHANGED sched_lock /\ Return
    /\ UNCHANGED <<current_thread, need_reschedule, ready, dsrs, ghost>>

\* The test for DSRs that were posted since, made after the lock was zeroed.
TestAgain ==
    /\ InCall("zeroed")
    /\ IF dsr_list # <<>>
       THEN sched_lock' = sched_lock + 1 /\ Goto("dsrs")
       ELSE UNCHANGED sched_lock /\ Return
    /\ UNCHANGED <<current_thread, need_reschedule, ready, dsrs, ghost>>

\* Mutant: thread_entry() unlocks once.
ThreadEntryOnce ==
    /\ InCall("entry")
    /\ IF sched_lock > 1
       THEN sched_lock' = sched_lock - 1 /\ Return
       ELSE Goto("dsrs") /\ UNCHANGED sched_lock
    /\ UNCHANGED <<current_thread, need_reschedule, ready, dsrs, ghost>>

\* thread_entry() unlocks until the lock is 0, whatever it was switched in with.
ThreadEntry ==
    /\ InCall("entry")
    /\ IF sched_lock > 1
       THEN sched_lock' = sched_lock - 1 /\ UNCHANGED stack
       ELSE Goto("dsrs") /\ UNCHANGED sched_lock
    /\ UNCHANGED <<current_thread, need_reschedule, ready, dsrs, ghost>>

KernelStep ==
    \/ CallDSRs \/ DSRReturns \/ Switch \/ SetLock \/ TestAgain \/ ThreadEntry

InterruptsNext ==
    \/ KernelStep
    \/ Lock \/ Unlock \/ Reschedule \/ UnlockReschedule \/ ChangeReady
    \/ \E i \in Intr : Interrupt(i)

(***************************************************************************)
(* The CPU goes on executing kernel code (DSRs return), and a locked       *)
(* section does not go on for ever: at each nesting level, a thread that   *)
(* is again and again in a position to unlock does so.  Strong fairness is *)
(* what that takes, because the section may sleep in between, as the loops *)
(* of the synchronization objects do.                                      *)
(***************************************************************************)
InterruptsFairness ==
    /\ WF_vars(KernelStep)
    /\ \A t \in Thread, level \in 1..MaxLock :
          SF_vars(current_thread = t /\ UnlockFrom(level))

InterruptsSpec == InterruptsInit /\ [][InterruptsNext]_vars /\ InterruptsFairness
-----------------------------------------------------------------------------
\* The calls of a thread that are in call_pending_DSRs().
Running(t) == {n \in 1..Len(stack[t]) : stack[t][n].at = "run"}

\* DSRs do not nest and no thread is switched out in the middle of one: all
\* of them share the one interrupt stack, which is reset to its top by
\* hal_interrupt_stack_call_pending_DSRs(), and the assertion of
\* call_pending_DSRs() that the lock is exactly 1 holds throughout.
DsrsNeverNested ==
    \A t \in AllThread : \A n \in Running(t) :
        /\ t = current_thread
        /\ n = Len(stack[t])
        /\ sched_lock = 1

\* "makes the scheduler lock a form of per-thread variable": whatever
\* happened while a thread was inside unlock_inner() or interrupted, it finds
\* the lock at the nesting it had itself reached; and unlock_inner() is only
\* entered with the lock its precondition allows.
LockIsPerThread ==
    /\ InThreadCode => sched_lock = held[current_thread]
    /\ InCall("dsrs") =>
          LET new_lock == Last(me).new_lock
          IN  IF new_lock = 0 THEN sched_lock = 1
                              ELSE sched_lock \in {new_lock, new_lock + 1}

\* Every interrupt whose ISR asked for it is counted in a DSR's count
\* argument exactly once, and its object is in exactly one of the list and
\* the part of it being worked off while it waits.
EveryPostCounted ==
    \A i \in Intr :
        /\ owed[i] = dsr_count[i] + (IF intr = i THEN count ELSE 0)
        /\ LET waiting == dsr_list \o next_dsr
           IN  Cardinality({n \in DOMAIN waiting : waiting[n] = i})
                   = IF dsr_count[i] > 0 THEN 1 ELSE 0

\* The comment after zero_sched_lock(): a thread never runs its own code with
\* the scheduler unlocked while a DSR is waiting.
NoDsrLeftBehind == InThreadCode /\ sched_lock = 0 => dsr_list = <<>>

\* No interrupt waits for ever for its DSR, even if interrupts never stop.
EveryDsrRuns == \A i \in Intr : dsr_count[i] > 0 ~> dsr_count[i] = 0
=============================================================================
