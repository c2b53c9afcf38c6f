-------------------------------- MODULE Fifo --------------------------------
(***************************************************************************)
(* What a mailbox promises: messages leave a bounded queue one at a time,  *)
(* in the order in which they were put, and a message that left was the    *)
(* oldest one.  Who waits, who is woken and when is not said here.         *)
(***************************************************************************)
EXTENDS Naturals, Sequences

CONSTANTS
    Item,  \* the messages
    None,  \* nothing has been got yet
    Size   \* the messages the queue can hold

VARIABLES
    queue, \* the messages put and not yet got, oldest first
    out    \* the message that was got last

FifoInit == queue = <<>> /\ out = None

FifoPut(item) ==
    /\ Len(queue) < Size
    /\ queue' = Append(queue, item)
    /\ UNCHANGED out

FifoGet ==
    /\ queue # <<>>
    /\ out' = Head(queue)
    /\ queue' = Tail(queue)

FifoNext == FifoGet \/ \E item \in Item : FifoPut(item)

FifoSpec == FifoInit /\ [][FifoNext]_<<queue, out>>

=============================================================================
