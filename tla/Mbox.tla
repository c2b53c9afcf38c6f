-------------------------------- MODULE Mbox --------------------------------
(***************************************************************************)
(* Cyg_Mboxt on top of the kernel: a ring of Size messages with a queue of *)
(* threads that wait to get and one of threads that wait to put, the tries *)
(* that DSRs may make meanwhile, and all that the module Threads lets      *)
(* happen to a waiting thread.  Fifo is the queue it implements.           *)
(***************************************************************************)
EXTENDS Threads

CONSTANTS
    getq, putq, \* get_threadq and put_threadq
    Item,       \* the messages
    None,       \* no message
    Size        \* QUEUE_SIZE

ASSUME MboxAssumption ==
    /\ {getq, putq} \subseteq WaitQueue
    /\ getq # putq
    /\ None \notin Item
    /\ Size \in Nat \ {0}

VARIABLES
    base,       \* the slot of the oldest message
    count,      \* the number of messages
    itemqueue,  \* the slots
    item,       \* the message that each thread waits to put
    ritem       \* the message that was handed out last

box      == <<base, count, itemqueue>>
mboxVars == <<k, pc, ticks, base, count, itemqueue, item, ritem>>

\* Asleep in, or woken from, the loops of get() and put(), "t" with a deadline.
Getting == {"get", "tget"}
Putting == {"put", "tput"}
MboxPC  == PC \cup Getting \cup Putting

MboxInit ==
    /\ Init
    /\ base = 0
    /\ count = 0
    /\ itemqueue = [i \in 0..(Size - 1) |-> None]
    /\ item = [t \in Thread |-> None]
    /\ ritem = None

-----------------------------------------------------------------------------
(* The ring *)

wakeup_waiter(k1, q) ==
    LET t == Head(k1.wait_queue[q])
    IN  IF k1.wait_queue[q] = <<>> THEN k1
        ELSE Wake(SetWakeReason(LeaveQueue(k1, t), t, "DONE"), t)

\* Mutant: base is advanced before the message is read.
TakeNext(k1) ==
    LET next == IF Size <= base + 1 THEN 0 ELSE base + 1
    IN  /\ ritem' = itemqueue[next]
        /\ count' = count - 1
        /\ base' = next
        /\ k' = Unlock(wakeup_waiter(k1, putq))
        /\ UNCHANGED itemqueue

\* Mutant: a waiting putter is woken only if the ring was full.
TakeWakesIfFull(k1) ==
    /\ ritem' = itemqueue[base]
    /\ count' = count - 1
    /\ base' = IF Size <= base + 1 THEN 0 ELSE base + 1
    /\ k' = Unlock(IF count = Size THEN wakeup_waiter(k1, putq) ELSE k1)
    /\ UNCHANGED itemqueue

\* The end of a successful get(): the oldest message leaves its slot.
Take(k1) ==
    /\ ritem' = itemqueue[base]
    /\ count' = count - 1
    /\ base' = IF Size <= base + 1 THEN 0 ELSE base + 1
    /\ k' = Unlock(wakeup_waiter(k1, putq))
    /\ UNCHANGED itemqueue

\* Mutant: a waiting getter is woken only if the ring was empty.
StoreWakesIfEmpty(k1, v) ==
    LET in == base + count
    IN  /\ itemqueue' = [itemqueue EXCEPT ![IF Size <= in THEN in - Size ELSE in] = v]
        /\ count' = count + 1
        /\ k' = Unlock(IF count = 0 THEN wakeup_waiter(k1, getq) ELSE k1)
        /\ UNCHANGED <<base, ritem>>

\* The end of a successful put().
Store(k1, v) ==
    LET in == base + count
    IN  /\ itemqueue' = [itemqueue EXCEPT ![IF Size <= in THEN in - Size ELSE in] = v]
        /\ count' = count + 1
        /\ k' = Unlock(wakeup_waiter(k1, getq))
        /\ UNCHANGED <<base, ritem>>

\* One turn of a waiting loop: sleep, enqueue, reschedule.
BlockOn(k1, q, reason) ==
    Reschedule(Enqueue(Sleep(SetSleepReason(k1, reason)), q, self))

-----------------------------------------------------------------------------
(* Getting *)

MboxGet ==
    /\ "get" \in Ops
    /\ InThread
    /\ UNCHANGED <<ticks, item>>
    /\ \/ /\ count = 0
          /\ k' = BlockOn(k, getq, "WAIT")
          /\ pc' = [pc EXCEPT ![self] = "get"]
          /\ UNCHANGED <<box, ritem>>
       \/ /\ count > 0
          /\ Take(k)
          /\ UNCHANGED pc

\* past: the deadline has passed, and the call fails even if a message waits.
MboxTimedGet(past) ==
    LET k1 == SetTimer(k, "TIMEOUT", past)
    IN  /\ "tget" \in Ops
        /\ InThread
        /\ UNCHANGED <<ticks, item>>
        /\ \/ /\ k1.wake_reason[self] # "NONE"
              /\ k' = Unlock(ClearTimer(k1, self))
              /\ UNCHANGED <<pc, box, ritem>>
           \/ /\ k1.wake_reason[self] = "NONE"
              /\ count = 0
              /\ k' = BlockOn(k1, getq, "TIMEOUT")
              /\ pc' = [pc EXCEPT ![self] = "tget"]
              /\ UNCHANGED <<box, ritem>>
           \/ /\ k1.wake_reason[self] = "NONE"
              /\ count > 0
              /\ Take(ClearTimer(k1, self))
              /\ UNCHANGED pc

MboxTryget ==
    /\ "tryget" \in Ops
    /\ InThreadOrDsr
    /\ IF count > 0 THEN Take(k) ELSE k' = Unlock(k) /\ UNCHANGED <<box, ritem>>
    /\ UNCHANGED <<pc, ticks, item>>

-----------------------------------------------------------------------------
(* Putting *)

MboxPut(v) ==
    /\ "put" \in Ops
    /\ InThread
    /\ UNCHANGED ticks
    /\ \/ /\ count = Size
          /\ k' = BlockOn(k, putq, "WAIT")
          /\ pc' = [pc EXCEPT ![self] = "put"]
          /\ item' = [item EXCEPT ![self] = v]
          /\ UNCHANGED <<box, ritem>>
       \/ /\ count < Size
          /\ Store(k, v)
          /\ UNCHANGED <<pc, item>>

MboxTimedPut(v, past) ==
    LET k1 == SetTimer(k, "TIMEOUT", past)
    IN  /\ "tput" \in Ops
        /\ InThread
        /\ UNCHANGED ticks
        /\ \/ /\ k1.wake_reason[self] # "NONE"
              /\ k' = Unlock(ClearTimer(k1, self))
              /\ UNCHANGED <<pc, item, box, ritem>>
           \/ /\ k1.wake_reason[self] = "NONE"
              /\ count = Size
              /\ k' = BlockOn(k1, putq, "TIMEOUT")
              /\ pc' = [pc EXCEPT ![self] = "tput"]
              /\ item' = [item EXCEPT ![self] = v]
              /\ UNCHANGED <<box, ritem>>
           \/ /\ k1.wake_reason[self] = "NONE"
              /\ count < Size
              /\ Store(ClearTimer(k1, self), v)
              /\ UNCHANGED <<pc, item>>

MboxTryput(v) ==
    /\ "tryput" \in Ops
    /\ InThreadOrDsr
    /\ IF count < Size THEN Store(k, v) ELSE k' = Unlock(k) /\ UNCHANGED <<box, ritem>>
    /\ UNCHANGED <<pc, ticks, item>>

-----------------------------------------------------------------------------
(* Back from the reschedule() of a waiting loop *)

Waiting == k.sched_lock = "inner" /\ pc[self] \in Getting \cup Putting

Timed == pc[self] \in {"tget", "tput"}

FailReasons == {"DESTRUCT", "BREAK"} \cup IF Timed THEN {"TIMEOUT"} ELSE {}

\* The timer is cleared on the way out, the item is the call's argument.
EndWait  == IF Timed THEN ClearTimer(k, self) ELSE k
Leave    == pc' = [pc EXCEPT ![self] = "user"]
DropItem == item' = [t \in Thread |-> IF t = self THEN None ELSE item[t]]

WaitExits ==
    /\ Waiting
    /\ k.wake_reason[self] = "EXIT"
    /\ k' = Reschedule(Exit(k))
    /\ Leave /\ DropItem
    /\ UNCHANGED <<ticks, box, ritem>>

\* release(), or the deadline of a timed wait, makes the call fail.
WaitFails ==
    /\ Waiting
    /\ k.wake_reason[self] \in FailReasons
    /\ k' = Unlock(EndWait)
    /\ Leave /\ DropItem
    /\ UNCHANGED <<ticks, box, ritem>>

\* Mutant: the thread that was woken takes it that there is a message.
GetWokenUnchecked ==
    /\ Waiting
    /\ pc[self] \in Getting
    /\ k.wake_reason[self] \notin FailReasons \cup {"EXIT"}
    /\ Take(EndWait)
    /\ Leave
    /\ UNCHANGED <<ticks, item>>

\* Somebody else may have taken the message first.
GetWoken ==
    /\ Waiting
    /\ pc[self] \in Getting
    /\ k.wake_reason[self] \notin FailReasons \cup {"EXIT"}
    /\ UNCHANGED <<ticks, item>>
    /\ \/ /\ count = 0
          /\ k' = BlockOn(k, getq, IF Timed THEN "TIMEOUT" ELSE "WAIT")
          /\ UNCHANGED <<pc, box, ritem>>
       \/ /\ count > 0
          /\ Take(EndWait)
          /\ Leave

\* Somebody else may have filled the slot first.
PutWoken ==
    /\ Waiting
    /\ pc[self] \in Putting
    /\ k.wake_reason[self] \notin FailReasons \cup {"EXIT"}
    /\ UNCHANGED ticks
    /\ \/ /\ count = Size
          /\ k' = BlockOn(k, putq, IF Timed THEN "TIMEOUT" ELSE "WAIT")
          /\ UNCHANGED <<pc, item, box, ritem>>
       \/ /\ count < Size
          /\ Store(EndWait, item[self])
          /\ Leave /\ DropItem

MboxNext ==
    \/ MboxGet
    \/ MboxTryget
    \/ \E v \in Item : MboxPut(v) \/ MboxTryput(v)
    \/ \E past \in BOOLEAN :
         MboxTimedGet(past) \/ \E v \in Item : MboxTimedPut(v, past)
    \/ WaitExits
    \/ WaitFails
    \/ GetWoken
    \/ PutWoken
    \/ Next /\ UNCHANGED <<box, item, ritem>>

MboxSpec == MboxInit /\ [][MboxNext]_mboxVars

-----------------------------------------------------------------------------
(* Properties *)

\* The kernel state, the continuations, the ring and the messages on their way
\* have their types; the asserts "Count went -ve", "Base overflow" and
\* "in overflow" hold.
MboxTypeOK ==
    /\ k \in KernelState
    /\ pc \in [AllThread -> MboxPC]
    /\ ticks \in 0..MaxTicks
    /\ base \in 0..(Size - 1)
    /\ count \in 0..Size
    /\ itemqueue \in [0..(Size - 1) -> Item \cup {None}]
    /\ item \in [Thread -> Item \cup {None}]
    /\ ritem \in Item \cup {None}

\* The messages in the ring, oldest first.
Messages == [i \in 1..count |-> itemqueue[(base + i - 1) % Size]]

Queue == INSTANCE Fifo WITH queue <- Messages, out <- ritem

\* The ring, its wrap-around and the repeated tests of the waiting loops
\* implement a bounded first-in first-out queue: no message is lost,
\* duplicated or overtaken, whoever waits, tries, times out or is killed.
ImplementsFifo == Queue!FifoSpec

\* Exactly the threads asleep in get() are on get_threadq and those asleep in
\* put() on put_threadq, whichever way other sleepers have left.
MboxWaitersQueued ==
    /\ WaitQueuesOK(k)
    /\ \A t \in Thread :
         /\ t \in Range(k.wait_queue[getq]) <=>
                pc[t] \in Getting /\ "SLEEPING" \in k.state[t]
         /\ t \in Range(k.wait_queue[putq]) <=>
                pc[t] \in Putting /\ "SLEEPING" \in k.state[t]

\* Threads that were woken for a message, or a slot, and have not taken it
\* yet, the ones that kill() stopped on the way included.
Heirs(at) == {t \in Thread : pc[t] \in at /\ k.wake_reason[t] = "DONE"}

\* A thread sleeps in get() only while each message in the mailbox has a woken
\* thread on its way to it: put() and tryput() lose no wake-up, whoever takes
\* the message first.
NoStrandedMessage ==
    k.wait_queue[getq] # <<>> => count <= Cardinality(Heirs(Getting))

\* A thread sleeps in put() only while each free slot has a woken thread on
\* its way to it.
NoStrandedSlot ==
    k.wait_queue[putq] # <<>> => Size - count <= Cardinality(Heirs(Putting))

=============================================================================
