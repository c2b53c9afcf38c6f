# The eCos kernel of the QCA access point, in TLA+

The repository is an access point on the eCos real-time operating system:
`src/ecos/packages` is the eCos tree, `src/ecos/ecosap` the application. The
logic everything else rests on is the eCos kernel,
`src/ecos/packages/kernel/current` (below: `kernel/`). This project models the
kernel as the target configures it by default: one CPU, the MLQUEUE scheduler
with timeslicing, unsorted wait queues, one unsorted alarm list, thread timers,
a FIFO list of DSRs, mutexes with the SIMPLE priority-inversion protocol chosen
per mutex (INHERIT by default), no ASRs. On top of it stands the one part of the
application that is concurrent in its own right, the shell's thread reaper.

## Inventory

| Component | State | Operations | What makes it correct |
|---|---|---|---|
| Threads (`src/common/thread.cxx`, `include/thread.inl`) | state bits, suspend and wakeup counts, sleep and wake reason, timer | sleep, wake, counted sleep/wake, suspend, resume, release, delay, kill, exit, set_priority | states, counts, timers and queues agree; sleepers can be woken; death is final |
| MLQ scheduler (`src/sched/mlqueue.cxx`) | run queues, `queue_map`, `timeslice_count`, `need_reschedule` | schedule, add/rem_thread, timeslice, yield, rotate_queue | the best runnable thread runs; equals take turns |
| Generic scheduler (`src/sched/sched.cxx`, `include/sched.inl`) | scheduler lock, current thread, saved contexts | lock, unlock, reschedule, unlock_inner, start | DSRs run before every reschedule; no reschedule is missed; the lock is as good as per-thread |
| Interrupts and DSRs (`src/intr/intr.cxx`, MIPS `vectors.S`) | DSR list, counts | post_dsr, interrupt_end, call_pending_DSRs | each posted DSR runs, counted once, never nested, before the lock is seen free |
| Priority inversion (`sched.cxx:600-793`) | `priority`, `original_priority`, `priority_inherited`, `mutex_count` | inherit, relay, disinherit, ceilings | owners are as urgent as their waiters; priorities are given back |
| Counting semaphore (`src/sync/cnt_sem.cxx`) | count, wait queue | wait, timed wait, trywait, post | no lost post, exact queue, deadlines hold |
| Mutex, condition variable (`src/sync/mutex.cxx`) | owner, protocol, ceiling, wait queues | lock, trylock, unlock, release, set_*; wait, timed wait, signal, broadcast | no lost wake-up; counts balanced; a wait returns as the owner |
| Mailbox (`src/sync/mbox.cxx`, `include/mboxt.inl`) | ring buffer, two wait queues | get, put, their timed and try forms | a bounded FIFO; no message or slot is stranded |
| Event flag (`src/sync/flag.cxx`) | bits, wait queue, the waiters' patterns | setbits, maskbits, poll, wait, timed wait, destructor | no satisfied waiter sleeps; cleared events are taken once |
| Clock, counters, alarms (`src/common/clock.cxx`) | counter, alarm list, trigger, interval, enabled | initialize, enable, disable, tick, add/rem_alarm, synchronize | each alarm is served when due, in phase, and is queued once |
| Shell threads and reaper (`src/ecos/ecosap/shell`) | thread records, cleanup mailbox and semaphore | create, finish, reap | each finished thread is reaped, and only when the kernel is done with it |
| Access point (`src/ecos/ecosap/*.c`) | `eth0_flag`, configuration | main loop, LAN/WAN/WLAN start | no link change is lost |

Interaction. Every operation locks the scheduler, changes thread control
blocks, run queues and the wait queue of its object, and unlocks. The last
unlock runs pending DSRs (the clock DSR ticks the real-time counter, whose
alarms expire thread timers, and then timeslices; driver DSRs post, set or wake)
and switches threads if the current one is not runnable or a reschedule is due.
A wait loop calls `reschedule()` instead, which switches with the lock held, so
that the thread continues inside its loop without a DSR window. The shell's
threads hand themselves to the reaper through a mailbox and a semaphore.

What is hard. A woken thread competes again for what it was woken for, so
that anything (a barging thread, a timeout, release, suspend, kill, a
priority change) can happen between wake-up and running. DSRs run after the
current thread has changed its own state and before the scheduler looks at it.
Interrupts arrive between any two instructions of `unlock_inner()`. Timers
expire inside the call that arms them when the deadline has passed, and alarm
functions re-enter the code that calls them. And `sleep_reason`/`wake_reason`
are used both as a message to the sleeper and as a record of what the thread is
doing. PROJECT.json lists these hazards line by line with the properties that
watch them.

## Modules

                 Kernel                     Interrupts      Alarms       Fifo
                    |                      (inside unlock) (inside tick)   ^
                 Threads                                                   |
        ________/  |   \______                                             |
       |           |     |    \                                            |
    Semaphore   Mutex   Flag   Mbox ---------------- implements -----------+
       |                          \
       +---- INSTANCE ----------- Reaper

`Kernel` - the kernel state as one record `k` and every function that runs with
the scheduler locked as an operator from a kernel state to the one it leaves,
named after the C++ function (`AddThread`, `Wake`, `Kill`, `SetPriority`,
`SetInheritedPriority`, ...). The scheduler lock is abstracted to where the CPU
is: before start, in a thread, in `unlock_inner(0)`, in the clock DSR, in
`unlock_inner(1)`, back inside a wait loop. A descheduled thread keeps the place
it continues at in `context`. `timeslice_count` wraps at `CountMod` (2^32 in the
code). Its last part names the invariants of the kernel state.

`Threads` EXTENDS `Kernel` - the variables `k`, `pc` (the code each thread is in
when it next runs) and `ticks`, one action per operation a thread or DSR can
call, the continuations of `delay()` and `counted_sleep()`, scheduler start, the
clock DSR (any subset of the armed timers expires, then `timeslice()`), and the
reschedule. `Ops` selects the operations an instance uses.

`Semaphore` EXTENDS `Threads` - one counting semaphore: the call and the
woken-up part of `wait()` and `wait(timeout)` are separate actions, everything
`Threads` does to a waiter interleaves.

`Mutex` EXTENDS `Threads` - mutexes with owner, protocol and ceiling, and
condition variables. `unlock()` frees the mutex and wakes the head of the queue,
`MutexLockWoken` is the heir competing for it. The loops of `release()` and
`broadcast()` are recursive functions of the number of threads dequeued. A condition wait is
`CondWait`/`CondTimedWait`, `CondWoken`, `CondRelock` and the lock loop.

`Mbox` EXTENDS `Threads` - `itemqueue`, `base` and `count` as in the template
class, one wait queue for getters and one for putters. `get()` and `put()` have a
calling part and a woken part (`GetWoken`, `PutWoken`) that competes for the
message or slot again; `TakeNext` and `Store` are the ring arithmetic and wake
the other queue's head. `item` is what a waiting putter brings, `ritem` the
message most recently handed out.

`Fifo` - what a mailbox promises: at most `Size` messages, taken in the order
they were put. `Mbox` implements it: `queue` is the `count` ring cells from
`base` on, `out` is `ritem` (`ImplementsFifo`).

`Flag` EXTENDS `Threads` - `value` and each waiter's `FlagWaitInfo` (the masks,
`do_clear`, `value_out`), which lives on the waiter's stack and which `setbits()`
reaches through the thread. `setbits()` is one action: `SetbitsWalk` is the state
after each number of visits of its loop, a recursive function, and a visit
dequeues the head, tests, clears, and wakes it or puts it back. `FlagDestroy` is the destructor's wake-up of all waiters.

`Interrupts` - the scheduler lock, the DSR list and `unlock_inner()` at the grain
at which an interrupt can arrive. `stack[t]` holds the calls of `unlock_inner()`
of a thread and the place each has reached: `CallDSRs`, `DSRReturns`, `Switch`,
`SetLock`, `TestAgain` are the steps of its loop, `ThreadEntry` the loop of a new
thread, `Interrupt(i)` the entry of the MIPS HAL, the ISR, `post_dsr()` and
`interrupt_end()`. Which thread is best is `Kernel`'s matter; here any ready one
may be chosen.

`Alarms` - one counter with its alarms. All functions run locked; what
interleaves is re-entry, so the state has a call `stack`, and alarm functions may
initialize, enable and disable alarms at every depth. `add_alarm` is the whole of
`add_alarm()` up to its immediate call; `AddReturns` is what follows the call.
`node` is where `tick()` is in the list: `ScanNext` passes an alarm that is not
due, `Expire` takes one that is, `FunctionReturns` starts the walk again, and
`TickDone` is the walk that has come round to the head. Two constants mark where
the code is known to go wrong, so that the runs can stay on either side of it:
`RearmInside` (functions that queue their own alarm again from inside
`add_alarm()`) and `EnableAhead` (the intervals of the alarms that `enable()` may
meet more than an interval before they are due).

`Reaper` EXTENDS `Mbox` and INSTANCEs `Semaphore` - the composition: the programs
of `shell_thread_cleanup()` and `cleanup_thread()` (`stage` is each thread's next
statement) over one mailbox and one semaphore on the same kernel state.
`cyg_thread_delete()` is modelled in full, including its second kill of a thread
that has not exited and its refusal, which the reaper ignores. The thread of
`main()`, which creates the first threads while the scheduler runs already
(`ecosap.c:76-79`, `init.c:98`), is not modelled: what it creates is there when the
model's scheduler starts. `Work` stands for what a shell thread's function does
before it is done; `shell_init_thread` does nothing, `shelltask` reads commands
and is never done, and the model has threads that wait first and threads that do
not. The reaper's branch for a NULL from `get()` (`thread_cleanup.c:107-108`) is
not there, because `get()` returns NULL only to a released thread and the access
point has no call of `cyg_thread_release()`.

`MC*` - priority assignments for TLC. `*Proofs` and `SequenceFacts` - the proofs
(see Proofs). Operators marked `Mutant:` stand before the definition they vary; each is
a plausible mistake in that function which the properties must detect, and
nothing else uses them.

Abstractions. In `Kernel` and above, time is not counted: an armed timer may
expire at any clock DSR, and a deadline that has passed is the choice `past`
(`Alarms` counts). A DSR is an action that can happen when interrupts could be
served: in application code or at the DSR stage of an unlock; `Interrupts` shows
that these are the only places. Threads are application code that may call any
operation at any time, except in `Reaper`, whose programs are the application's.
The idle thread only runs. The ceiling that the constructor leaves uninitialised
is any member of `Ceilings`. `held`, `owed` (`Interrupts`) and `phase` (`Alarms`)
are history variables: no guard reads them.

## Runs

| Run | Instance | Distinct states | Result |
|---|---|---|---|
| `ThreadsControl` | 2 threads of 2 priorities and idle, one suspend, one queued wakeup | 4.54 M | pass |
| `ThreadsTimeslice` | 3 equal threads that never sleep, quantum of 2 ticks | 384 | pass, with liveness |
| `Semaphore` | 3 threads, at most 2 posts outstanding | 655 k | pass |
| `MutexInherit` | 3 threads of 3 priorities, one mutex | 416 k | pass |
| `MutexCond` | 2 threads, one mutex, one condition variable, INHERIT and CEILING switched at run time | 278 k | pass |
| `Mbox` | 2 threads and DSRs, 2 slots, 2 messages | 417 k | pass, with refinement |
| `Flag` | 2 threads and DSRs, 2 bits | 665 k | pass |
| `Interrupts` | 2 threads and idle, 2 sources, nesting 2 | 136 k | pass, with liveness |
| `Alarms` | 2 alarms, one-shot and intervals 1 to 3, counter to 5 | 213 k | pass |
| `Reaper` | 3 shell threads around the reaper's priority, 2 mailbox slots | 53 k | pass, with liveness |
| `SemaphoreDeadline` | 2 threads, timed waits and trywait | | violation |
| `AlarmRearm` | 2 alarms, functions that rearm their own alarm | | violation |

The passing runs show that through all interleavings of the operations:

* run queues, `queue_map` and thread states agree and the idle thread is there
  (`RunQueuesConsistent`); the best runnable thread runs (`BestThreadRuns`);
* every sleeper can be reached by its timer, release and kill
  (`SleepersCanBeWoken`), no timer outlives its sleep (`NoStaleTimer`), suspend
  bit and count agree (`SuspendCountAgrees`);
* a thread killed in a `delay()` or counted sleep never returns to its code
  (`KilledNeverReturns`) and death is final (`DeathIsFinal`);
* threads of equal priority that just compute take turns for ever
  (`EqualsTakeTurns`);
* the semaphore queue holds exactly the sleepers (`SleepersAreQueued`) and
  posts are not lost to barging, timeouts or release (`NoLostPost`);
* a free mutex with sleepers has a claimant on its way (`NoLostWakeup`), its
  owner is as urgent as its waiters (`OwnerIsUrgent`), priorities are given back
  (`PriorityGivenBack`) without disturbing the priority the application set
  (`BasePriorityKept`), `mutex_count` balances (`MutexCountAgrees`), waiters are
  queued where they wait (`WaitersAreQueued`);
* a condition wait returns only with the mutex (`CondWaitReturnsOwner`);
* the mailbox implements the bounded queue (`ImplementsFifo`), its wait queues are
  exact (`MboxWaitersQueued`), and a thread sleeps beside a message or a free slot
  only while a woken thread is on its way to it (`NoStrandedMessage`,
  `NoStrandedSlot`);
* no thread sleeps on a flag whose value satisfies it (`NoMatchingSleeper`), a
  wait has a result or a break reason and never both (`BreakXorResult`), of the
  waiters that clear only one is given an event (`ClearedEventsTakenOnce`), and
  `setbits()`, which takes every waiter off the queue and puts most back, keeps
  their order (`WaitOrderKept`);
* DSRs never nest and are never switched away from (`DsrsNeverNested`), each
  thread finds the one lock counter at its own nesting (`LockIsPerThread`), each
  post is counted once (`EveryPostCounted`), no thread runs unlocked past a
  pending DSR (`NoDsrLeftBehind`), and every posted DSR runs (`EveryDsrRuns`);
* an alarm is on the list once exactly if it is enabled (`QueuedIffEnabled`); the
  walk of a tick, node by node, leaves no due alarm behind whatever the functions
  it calls do to the list (`NoAlarmMissed`); and periodic alarms keep the phase
  `initialize()` gave them (`InPhase`), through `disable()` and `enable()` too,
  except where `EnableAhead` says (see Known disagreements);
* a shell thread's memory is freed only when the kernel has no way back to it
  (`FreedIsGone`), the reaper never sleeps on the semaphore beside a thread it
  could reap unless the post is still coming (`PostStillComing`), and every
  thread that reaches the mailbox is reaped (`EveryThreadReaped`).

### Findings

The violation runs are places where the code does not do what a comment or the
manual (`kernel/doc/kernel.sgml`) says; PROJECT.json quotes the lines.

* `SemaphoreDeadline`: a timer that fires after the waiter was woken and before
  it runs is used up; if another thread takes the event, the waiter sleeps again
  without a deadline. (The timed waits of the mailbox have the same loop.)
* `AlarmRearm`: `add_alarm()` calls the function of a due alarm before it has
  queued it. A one-shot alarm whose function initializes itself for later is
  queued inside; the outer call then clears `enabled` beside the queued alarm.
  `Alarms` passes with the constant `RearmInside` FALSE, where a function that
  `add_alarm()` called does not queue that same alarm again.

### Known disagreements

Further places, met while modelling, where the code and its documentation differ
or where a property is checked only away from an edge. No run is kept for them.

* `timeslice_cpu()` leaves the count at 0 if the current thread is just going to
  sleep, "Otherwise we are going to reschedule anyway" (`mlqueue.cxx:524-526`). A
  DSR of the same unlock that wakes the thread cancels that reschedule; the thread
  runs on with 0 and the next tick wraps the counter. The model does the same, and
  no property says that a running thread has a quantum left: it would not hold.
* `delay(0)` (`thread.cxx:972`) leaves the running thread at the tail of its run
  queue. The next timeslice rotates it to the head and does not switch, so an
  equal thread can starve if this happens in step with the ticks, against
  `kernel.sgml:1542-1544`. `EqualsTakeTurns` is checked without `delay(0)`.
* A timed semaphore wait that succeeds at once leaves `sleep_reason` set
  (`cnt_sem.cxx:155`); a later `kill()` of the thread while it is preempted takes
  it for a sleeping one (`thread.cxx:801`) and only records EXIT, where the comment
  of `thread.cxx:775-776` promises the thread's end. `KilledNeverReturns` is
  checked for the sleeps of `Cyg_Thread`.
* `set_priority()` of an owner or waiter (`thread.cxx:853`) breaks inheritance on a
  single mutex, where the manual admits problems only for nested mutexes
  (`kernel.sgml:2897-2899`). `MutexInherit` is without `set_priority()`.
* The manual says wait queues are last-in-first-out by default
  (`kernel.sgml:226-232`); `enqueue()` appends and `dequeue()` takes the head, and
  the model follows the code.
* The manual lets a semaphore start with a negative count; the wait loop tests for
  0, so such a semaphore lets its first waiters pass. `InitCount` is a natural
  number here.
* `enable()` of an alarm whose trigger lies more than an interval ahead makes the
  unsigned subtraction of `synchronize()` wrap (`clock.cxx:745-749`): the alarm
  fires about now and loses its phase unless the interval divides 2^64, where the
  comment at `clock.cxx:737-739` has alarms go on "as if they had never been
  disabled". `phase` is never set anew, so `InPhase` sees it: with 3 in
  `EnableAhead` TLC finds `initialize()`, `disable()`, `enable()`. The run and the
  theorem allow the wrap for the intervals that divide `TickMod`.
  `synchronize()` can also leave the trigger equal to the
  counter although the comment at `clock.cxx:313` speaks of "our future"; the
  alarm then fires with the next tick.
* `tick()` calls the function of a periodic alarm even if the requeueing in the
  same step led, through an immediate call, to its being disabled. The model
  follows the code (`CallOf` does not look at `enabled`).
* `new_data_index()` returns without unlocking the scheduler when all slots are
  taken (`thread.cxx:1055`).
* Nothing in the repository sets `eth0_flag`, which `ecosap.c` polls and clears
  non-atomically; the driver that does is a binary.

### Bounds

`MaxSuspend`, `MaxWakeup`, `MaxCount` and `MaxHeld` bound counters that the code
leaves unbounded; each only has to exceed the values the code compares with
(0 and 1), and the proofs do without them (they hold for every value).
In `ThreadsControl` `MaxSuspend` is 1, so that its run has no suspend of a
suspended thread; nested suspends are covered by the proof of `SuspendCountAgrees`.
`MaxTicks` is the number of clock DSRs in one unlock. It is 1: a tick is
milliseconds, an unlock microseconds. Other DSRs (those that post, put, set,
signal, wake or suspend) are not bounded. `TimesliceTicks` is 1 where
timeslicing is only a disturbance and 2 where it is the subject; `CountMod` is
just large enough to hold a quantum, and wraps as 2^32 would. Two threads and the
idle thread give every pairwise interleaving; barging and relaying need a waiter,
an owner and a third party, hence three threads in `Semaphore` and
`MutexInherit`; in `Mbox` and `Flag` a DSR is the third party.

* `Mbox`: `Size` 2 lets `base` wrap and the ring be empty, partly full and full;
  two different messages show the order.
* `Flag`: two bits distinguish AND from OR; all patterns and modes are tried.
* `Interrupts`: `MaxLock` 2 separates the outermost unlock from an inner one;
  `MaxPost` 2 is an interrupt that comes again before its DSR ran. Two sources
  are needed for a list with a rest.
* `Alarms`: `TickMod` 16 stands for 2^64 and has to exceed every sum of a counter
  value and an interval (assumed); times up to 8 lie beyond `MaxCounter` 5 and so
  stay pending and, with the intervals 1 and 2 of `EnableAhead`, are met by
  `enable()` where its arithmetic wraps. `MaxDepth` 5 is two functions inside one another in a tick.
* `Reaper`: three shell threads, one more urgent than the reaper, one equal, one
  less, and a mailbox of two so that a put can block.

### Fairness

* `EqualsTakeTurns`: clock interrupts come whatever the threads do and are served
  whenever the lock is released, possibly between other steps that disable
  `ClockDsr` for a moment: `SF(ClockDsr)`. Once begun, the DSR, the reschedule and
  the scheduler start run to their end: `WF` of those.
* `EveryDsrRuns`: the CPU goes on executing kernel code, `WF(KernelStep)`; and a
  locked section ends: `SF` of each thread's unlock at each nesting level, strong
  because the section may sleep in between as wait loops do. No fairness for
  interrupts, which may also never stop.
* `EveryThreadReaped`: the kernel runs to its end as above; a thread that is again
  and again the one the CPU executes gets on with its program, `SF` per thread
  because interrupts intervene. This holds for the shell's threads because none of
  them computes for ever. Clock ticks are not assumed: a thread in a delay has not
  reached the mailbox yet, and nothing after that point waits for time.

Deadlock checking is on in all runs.

## Proofs

The theorems hold for every value of the constants that satisfies the modules'
named assumptions: any finite set of threads, any number of priorities, any
quantum, counter bound, mailbox size, interrupt sources, lock nesting, alarms,
intervals and depth of alarm functions.

| Module | Proves | Of |
|---|---|---|
| `SequenceFacts` | what `RemoveFirst`, `Append`, `Head` do to a list without duplicates | lists |
| `ThreadsProofs` | each operator of `Kernel` preserves `KernelInv`, and what it does to the life of a thread; `TypeOK`, `RunQueuesConsistent`, `BestThreadRuns`, `SuspendCountAgrees`, `SleepersCanBeWoken`, `NoStaleTimer`, `KilledNeverReturns`, `DeathIsFinal` | `Kernel`, `Spec` |
| `SyncProofs` | `SemTypeOK`, `SleepersAreQueued`, `NoLostPost`; `NoMatchingSleeper`, `BreakXorResult`, `ClearedEventsTakenOnce` | `SemSpec`, `FlagSpec` |
| `MutexProofs` | `WaitersAreQueued`, `NoLostWakeup`, `CondWaitReturnsOwner`, `BasePriorityKept`; `MutexCountAgrees` and `PriorityGivenBack` without the protocol NONE; `OwnerIsUrgent` if `SingleInherit` | `MutexSpec` |
| `MboxProofs` | `MboxTypeOK`, `MboxWaitersQueued`, `NoStrandedMessage`, `NoStrandedSlot`, the refinement `ImplementsFifo` | `MboxSpec` |
| `ReaperProofs` | `FreedIsGone`, `PostStillComing` | `ReaperSpec` |
| `InterruptsProofs` | `DsrsNeverNested`, `LockIsPerThread`, `NoDsrLeftBehind`, `EveryPostCounted` | `InterruptsSpec` |
| `AlarmsProofs` | `NoAlarmMissed`; `QueuedIffEnabled` if not `RearmInside`; `InPhase` if also `AheadDivides` | `AlarmsSpec` |

Every inductive invariant below was checked by TLC on the instance of its
module's run before it was proved.

**The scheduler** (`ThreadsProofs`, first part). `KernelInv` is the type of `k` with
`RunQueuesOK`, `IdleOK`, `SuspendOK` and `ReschedulePending` (whoever made a
thread better than a runnable current one also asked for a reschedule). None of
the properties is inductive by itself. Even the type needs the rest: `schedule()`
reads the head of the queue that the lowest bit of `queue_map` names, which is a
thread only if the map and the queues agree and the idle thread is queued.
`BestThreadRuns` needs `ReschedulePending` across the DSR stage, where the lock
is held, and `SuspendOK` to turn "runnable" into "not suspended". Operations that
take a thread off its run queue, change it and put it back pass through states
where `RunQueuesOK` does not hold; `QueuesHold(k, R)`, "the queues hold exactly
the threads of R", describes these. That the least element of `queue_map` exists
is shown by well-founded induction on the naturals.

**Lives** (`ThreadsProofs`, second and third part). Nearly every operation changes one
thread. `Life(k, t)` is what the sleep protocol can tell of a thread: its state,
sleep and wake reasons, timer, and the wait queues it is on. `Only(n, k, t, m)`
says that from `k` to `n` thread `t` got the life `m` and every other kept its
own; each operator of `Kernel` has a lemma of this form. The proofs above it then
argue about one life at a time: every action of `Threads` moves one thread, by an effect others may have on it (`Affected`) or by a step of its own
program, and that each keeps

    Inv == KInv /\ \A t \in AllThread : ThreadOK(Life(k, t), pc[t])

`ThreadOK` ties a sleep reason to a sleep that has not been ended and to a
continuation other than "user"; without it `KilledNeverReturns` is not inductive,
because `kill()` decides by the sleep reason whether a thread can be left to exit
by itself. `DeathIsFinal` is shown in the same pass, step by step.

**No lost wake-ups** (`ThreadsProofs`, `SyncProofs`, `MboxProofs`,
`MutexProofs`). `Served`
says that while anyone sleeps on a queue there are at least as many heirs (woken
threads that have not taken what they were woken for) as there are events.
`KeepsServed` lists the ways in which a step on one thread preserves it: no event
is left, an heir goes only with an event, or a new event makes a sleeper an heir.
`ServedStep` does the counting once, which is why the set of threads must be
finite. The last way needs that a queued thread is asleep and no heir, and that
every sleeper is queued: `SleepersAreQueued` and `NoLostPost` are proved together.

In the mailbox `get()` and `put()` each take from one side and wake on the other,
so `Served` holds for `getq` with `count` and for `putq` with `Size - count`, and
the step passes through a kernel state no other thread sees: the message has left
the ring, the thread that waits for its slot is still asleep. `BoxOK` is
therefore stated of any kernel state and number of messages and slots. Threads on
their way through `put()` carry their message (`ItemsOK`).

**Mutexes** (`MutexProofs`). `MutexInv` is the kernel's invariant, the owners, and
for each thread inside `lock()` or a condition wait what it waits for and where it
sleeps; a free mutex with sleepers has a claimant, by the counting of `Served`.
Every action is shown to be one of a few kinds of step: a thread takes a mutex
(`TakeStep`), queues up for one (`BlockStep`), gives up (`FailStep`), frees one and
wakes its heir (`FreeStep`), lends or returns a priority (`LoanStep`), or does
nothing to mutexes (`RestStep`). Three results rest on stronger invariants:

* `CountInv`: `mutex_count` is the number of mutexes a thread owns or is inside
  `lock()` for (`Claimed`), and a thread that counts none has its own priority
  back. The hypothesis is that NONE is not among the protocols: `set_protocol()`
  to or from NONE while a mutex is owned makes the counting start or stop half
  way. `mutex_count` is a signed number in model and code, so that it is a result
  and not a type that it never goes below 0.
* `UrgentInv`: an owner is at least as urgent as every sleeper on its mutex and as
  every heir on its way to it. The hypothesis `SingleInherit` is the instance of
  the `MutexInherit` run: all mutexes INHERIT, a thread holds one at a time, no
  set_priority, suspend or kill of others. Each part is needed: the SIMPLE
  protocol does not pass a priority on through a chain of owners, set_priority()
  of a waiter does not reach the owner, and a suspended or killed heir lets a less
  urgent thread take the mutex in front of it.

**Loops** (`MutexProofs`, `SyncProofs`). The loops over a queue are recursive
functions of the number of visits. That such a function exists and that a loop
invariant carries from 0 to the length of the queue is shown by induction on a set
of naturals, which the provers can do because the set is a term and not an
operator.

**Flags** (`SyncProofs`). `FlagInv` says of each waiter what it asked for, whether
it is queued, and that its `value_out` is set exactly if `setbits()` woke it. The
loop invariant of `SetbitsWalk` splits the queue in the threads visited, which are
woken or do not match the value left, and the rest, which is untouched. A waiter
that continues has been given a value or a reason to give up, so that the branch
in which the loop of `wait()` sleeps once more is shown to be unreachable.

**The mailbox is a queue** (`FifoTheorem`). The ring
`itemqueue[(base + n) % Size]`, n below `count`, is mapped to the sequence of
`Fifo`; taking a message moves `base` and is `Tail`, storing one writes the slot
`(base + count) % Size` and is `Append`, for every size and wherever the ring
wraps. Every other step leaves ring and result alone and is a stutter.

**The reaper** (`ReaperProofs`). Neither property follows from what the mailbox and
the semaphore promise: both rest on where the two programs can be. `ReaperInv`
gives, for each thread, the lives that fit its next statement (`WorkerFits`,
`ReaperFits`): from the moment `put()` has stored a shell thread it never sleeps
again, so that the thread the reaper gets is ready or has exited, is on no queue
and has no timer, and `kill()` ends it at once instead of leaving it to exit by
itself; this is why `cyg_thread_delete()` cannot refuse. Every message in the ring
is such a thread (`BoxFits`), and so is the one the reaper holds (`GotFits`). For
the semaphore, until the reaper has passed it (`Early`) nobody has been killed,
every exited thread has posted, and after a post the count is positive and the
reaper is awake (`SemFits`). Each action is a step of one program beside a change
of one life (`ProgramTurn`); the mailbox's and the semaphore's steps reduce to
three kinds: block (`BlockStep`), wake a waiter (`WakeStep`), neither (`PlainStep`).
The semaphore comes in by INSTANCE, with its own copy of the operators of
`Kernel`; the first lemmas show that they are the same.

**Interrupts** (`InterruptsProofs`). The invariant describes each thread's calls
of `unlock_inner()`: there are at most two, and the second is that of an
interrupt that arrived when the first had just zeroed the lock (`StackOK`); each
place implies the value of the lock (`LockOK`); a thread that is not running
stands at the switch or at its entry (`SwitchedOut`); a DSR is in progress only
where the current thread's innermost call runs it (`RunOK`); the DSR list and the
part of it being served are without duplicates and contain exactly the objects
with a count (`ListsOK`); and the posts still owed are these counts and that of
the DSR in progress (`CountsOK`). That calls do not pile up is what keeps DSRs
from nesting: an interrupt that finds the lock held returns without a call of
its own.

**Alarms** (`AlarmsProofs`). `TickInv`, which needs no hypothesis, is about the walk
of `tick()`: `node` is a place of the list or its end, and the alarms before it are
not due (`WalkOK`). A function that `add_alarm()` calls returns into the middle of
`add_alarm()` and not to the head of the list, so that the walk is safe only
because such a function is never called by the walk itself, only inside the expiry
of an alarm, whose own function is still to return (`CallsOK`). The types depend on
it: `Expire` reads the node. At the end of the walk `WalkOK` is `NoAlarmMissed`.
`AlarmsInv` adds that a tick is only at the bottom of the call stack, that
`add_alarm()` is not nested in itself for one alarm and that an alarm being added
is due; and that the list holds, once each, the enabled alarms that are not being
added. It is not an invariant of functions that rearm their own alarm
(`AlarmRearm` has the counterexample), so `QueuedIffEnabled` and `InPhase` have the
hypothesis `~RearmInside`, the constant of the passing run. `InPhase` rests on
lemmas about unsigned division: a trigger at most an interval ahead moves by whole
intervals without overflow (`SynchronizePhase`); one further ahead moves by whole
intervals modulo 2^64, which keeps the phase if the interval divides 2^64
(`SynchronizeWraps`). That is the hypothesis `AheadDivides` on `EnableAhead`.

Model-checked only:

* liveness (`EqualsTakeTurns`, `EveryDsrRuns`, `EveryThreadReaped`), which the
  prover does not do;
* `WaitOrderKept`, which compares the queue with what a filter leaves of it: what a
  filter does for every sequence is an induction over data.

## Not modelled

* Alternatives the configuration does not build or the access point does not use:
  the bitmap and lottery schedulers, SMP, ASRs, the sorted and multi-list alarm
  queues, binary semaphores and the hand-over semaphore `cnt_sem2`, POSIX message
  queues.
* Parts without state worth a model: exception delivery (a call into application
  code), per-thread data, stack checks, debugging support, `reinitialize()`; the
  destructors of semaphores and condition variables (the flag's is modelled, the
  mutex's and the mailbox's only assert).
* The access point's main loop, because the other side of `eth0_flag` is not in
  the repository; its LAN, WLAN and WAN configuration, which is a sequence of
  ioctls; the shell's line editor; `main_cleanup()` and the shell's kill command.
* The vendored network stacks, drivers, file systems, libc and HAL. They are nearly
  all of the repository's 1.6 million lines, written elsewhere against the kernel
  interface modelled here; the map therefore covers the kernel's own logic and a
  small share of the whole tree.

## Plan

1. Done: `Kernel`, `Threads`, `Semaphore`, `Mutex` with their runs; `KernelInv`
   proved.
2. Done: `Mbox` and its refinement of `Fifo`, `Flag`, `Interrupts`, `Alarms`,
   and the composition `Reaper`.
3. Done: the proofs for `Threads`, `Semaphore`, `Mbox` with its refinement,
   `Interrupts` and `Alarms`.
4. Done: the proofs for `Mutex`, `Flag` and the composition `Reaper`.
5. Open: the destructors of semaphores and condition variables as actions, and
   `reinitialize()`.
