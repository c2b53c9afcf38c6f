------------------------------- MODULE Reaper -------------------------------
(***************************************************************************)
(* The access point's shell threads and the thread that cleans up after    *)
(* them (ecosap/shell): a composition of the kernel's threads, its mailbox *)
(* and its counting semaphore with the two programs that use them.         *)
(*                                                                         *)
(* A shell thread that is done puts itself into the mailbox, posts the     *)
(* semaphore and returns.  The cleanup thread waits for the semaphore once *)
(* and from then on only for the mailbox; it kills and deletes each thread *)
(* it gets and frees the memory of its control block and its stack.        *)
(***************************************************************************)
EXTENDS Mbox

CONSTANTS
    reaper,       \* the cleanup thread
    cleanup_sem   \* the wait queue of cleanup.cleanup_sem

ASSUME ReaperAssumption ==
    /\ reaper \in Thread
    /\ cleanup_sem \in WaitQueue \ {getq, putq}
    /\ Item = Thread \ {reaper}

Worker == Thread \ {reaper}

VARIABLES
    stage,      \* the next statement of each thread's program
    sem_count,  \* the count of cleanup.cleanup_sem
    freed       \* the threads whose shell_thread_t was freed

Sem == INSTANCE Semaphore WITH
         sem <- cleanup_sem, count <- sem_count,
         InitCount <- 0, MaxCount <- Cardinality(Thread)

reaperVars == <<k, pc, ticks, base, count, itemqueue, item, ritem, stage, sem_count, freed>>
mboxPart   == <<box, item, ritem>>

Stage == {"none", "run", "late", "post", "return", "wait", "get", "kill", "delete"}

ReaperInit ==
    /\ MboxInit
    /\ stage = [t \in Thread |-> "none"]
    /\ sem_count = 0
    /\ freed = {}

\* A thread at one of the given statements runs and goes on to the next one.
At(t, here, there) ==
    /\ InThread
    /\ self = t
    /\ stage[t] \in here
    /\ stage' = [stage EXCEPT ![t] = there]
-----------------------------------------------------------------------------
(* Creation *)

\* main()'s thread creates the cleanup thread before any shell thread.  That
\* thread is not modelled: the scheduler runs already, but no shell thread is
\* there to notice, so the creation is taken to come before the start.
create_cleanup_thread ==
    /\ k.sched_lock = "start"
    /\ stage[reaper] = "none"
    /\ k' = Resume(k, reaper)
    /\ stage' = [stage EXCEPT ![reaper] = "wait"]
    /\ UNCHANGED <<pc, ticks, mboxPart, sem_count, freed>>

\* A thread is created by main()'s thread, which is taken to be done before
\* the scheduler starts, or by a shell thread.
shell_create_thread(t) ==
    /\ stage[t] = "none"
    /\ stage[reaper] # "none"
    /\ \/ k.sched_lock = "start" /\ k' = Resume(k, t)
       \/ InThread /\ self # reaper /\ stage[self] = "run" /\ k' = Unlock(Resume(k, t))
    /\ stage' = [stage EXCEPT ![t] = "run"]
    /\ UNCHANGED <<pc, ticks, mboxPart, sem_count, freed>>

Boot ==
    /\ stage[reaper] # "none"
    /\ SchedulerStart
    /\ UNCHANGED <<mboxPart, stage, sem_count, freed>>

\* What a shell thread's function does until it is done, for any function: it
\* may wait for time to pass, once, so that it becomes ready at any point of
\* the other threads' programs.  The init thread's function does not wait, and
\* the interactive shell's, which reads its commands for ever, is never done.
Work(t) ==
    /\ At(t, {"run"}, "late")
    /\ ThreadDelay(FALSE)
    /\ UNCHANGED <<mboxPart, sem_count, freed>>
-----------------------------------------------------------------------------
(* shell_thread_cleanup(), the last thing a shell thread's function calls *)

CleanupPut(t) ==
    /\ At(t, {"run", "late"}, "post")
    /\ MboxPut(t)
    /\ UNCHANGED <<sem_count, freed>>

\* Mutant: only the thread that finds the mailbox empty posts.
CleanupPostIfFirst(t) ==
    /\ At(t, {"post"}, "return")
    /\ IF count <= 1 THEN Sem!SemPost
       ELSE k' = Unlock(k) /\ UNCHANGED <<sem_count, pc, ticks>>
    /\ UNCHANGED <<mboxPart, freed>>

CleanupPost(t) ==
    /\ At(t, {"post"}, "return")
    /\ Sem!SemPost
    /\ UNCHANGED <<mboxPart, freed>>

\* The function returns into thread_entry(), which calls exit().
FunctionReturns(t) ==
    /\ At(t, {"return"}, "return")
    /\ k' = Reschedule(Exit(k))
    /\ UNCHANGED <<pc, ticks, mboxPart, sem_count, freed>>
-----------------------------------------------------------------------------
(* cleanup_thread() *)

ReaperWait ==
    /\ At(reaper, {"wait"}, "get")
    /\ Sem!SemWait
    /\ UNCHANGED <<mboxPart, freed>>

\* get() returns no NULL, which would send the loop back to the semaphore:
\* put() stores the thread that calls it, a wait ends in NULL only when it is
\* released, and nothing in the access point releases the cleanup thread.
ReaperGet ==
    /\ At(reaper, {"get"}, "kill")
    /\ MboxGet
    /\ UNCHANGED <<sem_count, freed>>

\* Mutant: the memory is freed before the thread is killed.
ReaperKillFreesFirst ==
    /\ At(reaper, {"kill"}, "delete")
    /\ k' = Unlock(k)
    /\ freed' = freed \cup {ritem}
    /\ UNCHANGED <<pc, ticks, mboxPart, sem_count>>

\* nt is the message that get() returned.
ReaperKill ==
    /\ At(reaper, {"kill"}, "delete")
    /\ k' = Unlock(Kill(k, ritem))
    /\ UNCHANGED <<pc, ticks, mboxPart, sem_count, freed>>

\* Mutant: back to the semaphore after each thread.
ReaperDeleteWaits ==
    /\ At(reaper, {"delete"}, "wait")
    /\ k' = Unlock(IF k.state[ritem] = {"EXITED"} THEN k ELSE Kill(k, ritem))
    /\ freed' = freed \cup {ritem}
    /\ UNCHANGED <<pc, ticks, mboxPart, sem_count>>

\* cyg_thread_delete() may refuse ("it didn't run yet, leave it up to the app
\* to fix"); the memory is freed in any case, and the loop gets the next one.
ReaperDelete ==
    /\ At(reaper, {"delete"}, "get")
    /\ k' = Unlock(IF k.state[ritem] = {"EXITED"} THEN k ELSE Kill(k, ritem))
    /\ freed' = freed \cup {ritem}
    /\ UNCHANGED <<pc, ticks, mboxPart, sem_count>>

-----------------------------------------------------------------------------
\* Back from a reschedule() in put(), get() or the semaphore's wait(),
\* or from a delay.
Continue ==
    \/ (PutWoken \/ GetWoken) /\ UNCHANGED <<stage, sem_count, freed>>
    \/ SleepReturn /\ UNCHANGED <<mboxPart, stage, sem_count, freed>>
    \/ Sem!SemWaitWoken /\ UNCHANGED <<stage, mboxPart, freed>>

Program ==
    \/ \E t \in Worker :
          \/ shell_create_thread(t)
          \/ Work(t)
          \/ CleanupPut(t)
          \/ CleanupPost(t)
          \/ FunctionReturns(t)
    \/ ReaperWait \/ ReaperGet \/ ReaperKill \/ ReaperDelete
    \/ Continue

KernelStep ==
    \/ RescheduleOrReturn \/ ClockDsrTimeslice

ReaperNext ==
    \/ create_cleanup_thread
    \/ Boot
    \/ Program
    \/ (KernelStep \/ ClockDsr \/ \E t \in Thread : ClockDsrAlarm(t))
         /\ UNCHANGED <<mboxPart, stage, sem_count, freed>>

\* The processor goes on executing the current thread between interrupts:
\* each of them disables the thread's next step for a while, so it takes
\* strong fairness to say so.  No shell thread computes for ever, so that a
\* thread that is again and again the best one gets on with its program.
ReaperFairness ==
    /\ WF_reaperVars(create_cleanup_thread \/ Boot)
    /\ WF_reaperVars(KernelStep /\ UNCHANGED <<mboxPart, stage, sem_count, freed>>)
    /\ \A t \in Thread : SF_reaperVars(self = t /\ Program)

ReaperSpec == ReaperInit /\ [][ReaperNext]_reaperVars /\ ReaperFairness
-----------------------------------------------------------------------------
(* Properties *)

\* When the memory that holds a thread's control block and stack is freed,
\* the thread is dead and the kernel has no way back to it: it is not the
\* current thread, on no run or wait queue, and has no timer.  cleanup_thread()
\* ignores the result of cyg_thread_delete(), so that this rests on where a
\* shell thread can be when the mailbox delivers it.
FreedIsGone ==
    \A t \in freed :
        /\ k.state[t] = {"EXITED"}
        /\ self # t
        /\ \A p \in Priority : t \notin Range(k.run_queue[p])
        /\ \A q \in WaitQueue : t \notin Range(k.wait_queue[q])
        /\ ~k.timer[t]

\* "If the semaphore gets incremented while in here, do we have a race?":
\* the cleanup thread sleeps on the semaphore beside a thread in the mailbox
\* only while the post of a living thread is still to come.
PostStillComing ==
    "SLEEPING" \in k.state[reaper] /\ reaper \in Range(k.wait_queue[cleanup_sem]) /\ count > 0
        => \E t \in Worker : stage[t] = "post" /\ "EXITED" \notin k.state[t]

\* "zombie prevention": every thread that reaches the mailbox is freed.
EveryThreadReaped ==
    \A t \in Worker : (\E n \in 1..count : Messages[n] = t) ~> t \in freed
=============================================================================
