-------------------------------- MODULE Flag --------------------------------
(***************************************************************************)
(* Cyg_Flag on top of the kernel: threads wait, with or without a deadline,*)
(* for all or any of some event bits; threads and DSRs set and clear bits. *)
(* setbits() decides for the waiters: it leaves the value each one waited  *)
(* for in the wait information on that thread's stack.                     *)
(***************************************************************************)
EXTENDS Threads

CONSTANTS
    flagq,  \* the queue of the flag
    Bits    \* the bits of a Cyg_FlagValue

ASSUME FlagAssumption == flagq \in WaitQueue /\ Bits # {}

VARIABLES
    value,  \* Cyg_Flag::value, as the set of its bits
    info,   \* the FlagWaitInfo of each thread
    alive   \* the destructor has not run

flagVars == <<k, pc, ticks, value, info, alive>>

\* Asleep in, or woken from, the loop of wait() or wait(timeout).
InFlag == {"fwait", "ftimed"}

WaitMode == SUBSET {"OR", "CLR"}
Patterns == (SUBSET Bits) \ {{}}

NoInfo == [allmask |-> {}, anymask |-> {}, do_clear |-> FALSE, value_out |-> {}]

saveme(pattern, mode) ==
    [allmask   |-> IF "OR" \in mode THEN {} ELSE pattern,
     anymask   |-> IF "OR" \in mode THEN pattern ELSE {},
     do_clear  |-> "CLR" \in mode,
     value_out |-> {}]

FlagInit ==
    /\ Init
    /\ value = {}
    /\ info = [t \in Thread |-> NoInfo]
    /\ alive = TRUE

-----------------------------------------------------------------------------
(* Setting and clearing bits *)

\* Mutant: an AND wait asks for exactly its bits.
MatchesExactly(p, v) ==
    (p.allmask # {} /\ p.allmask = v) \/ p.anymask \cap v # {}

Matches(p, v) ==
    (p.allmask # {} /\ p.allmask \subseteq v) \/ p.anymask \cap v # {}

\* Mutant: the value is not cleared during the walk.
SetbitsVisitNoClear(w, t) ==
    LET p  == w.info[t]
        k1 == LeaveQueue(w.k, t)
    IN  IF Matches(p, w.value)
        THEN [w EXCEPT !.k = Wake(SetWakeReason(k1, t, "DONE"), t),
                       !.info[t].value_out = w.value]
        ELSE [w EXCEPT !.k = k1, !.holding = Append(@, t)]

\* Mutant: the threads the walk does not wake are put back in front.
SetbitsVisitReorders(w, t) ==
    LET p  == w.info[t]
        k1 == LeaveQueue(w.k, t)
    IN  IF Matches(p, w.value)
        THEN [w EXCEPT !.k = Wake(SetWakeReason(k1, t, "DONE"), t),
                       !.info[t].value_out = w.value,
                       !.value = IF p.do_clear THEN {} ELSE @]
        ELSE [w EXCEPT !.k = k1, !.holding = <<t>> \o @]

\* One turn of the walk over the queue: w is the kernel, the value, the wait
\* information and the holding queue so far.
SetbitsVisit(w, t) ==
    LET p  == w.info[t]
        k1 == LeaveQueue(w.k, t)
    IN  IF Matches(p, w.value)
        THEN [w EXCEPT !.k = Wake(SetWakeReason(k1, t, "DONE"), t),
                       !.info[t].value_out = w.value,
                       !.value = IF p.do_clear THEN {} ELSE @]
        ELSE [w EXCEPT !.k = k1, !.holding = Append(@, t)]

\* The walk, from the head of the queue to its end.
SetbitsWalk(arg) ==
    LET s == k.wait_queue[flagq]
        after[i \in 0..Len(s)] ==
            IF i = 0 THEN [k |-> k, value |-> value \cup arg, info |-> info,
                           holding |-> <<>>]
            ELSE SetbitsVisit(after[i - 1], s[i])
    IN  after[Len(s)]

FlagSetbits(arg) ==
    LET w == SetbitsWalk(arg)
    IN  /\ "setbits" \in Ops
        /\ InThreadOrDsr
        /\ alive
        /\ value' = w.value
        /\ info' = w.info
        /\ k' = Unlock([w.k EXCEPT !.wait_queue[flagq] = w.holding])
        /\ UNCHANGED <<pc, ticks, alive>>

FlagMaskbits(arg) ==
    /\ "maskbits" \in Ops
    /\ InThreadOrDsr
    /\ alive
    /\ value' = value \cap arg
    /\ k' = Unlock(k)
    /\ UNCHANGED <<pc, ticks, info, alive>>

\* The destructor wakes every waiter.
FlagDestroy ==
    /\ "destroy" \in Ops
    /\ InThread
    /\ alive
    /\ alive' = FALSE
    /\ k' = Unlock(WakeAll(k, flagq, "DESTRUCT"))
    /\ UNCHANGED <<pc, ticks, value, info>>

-----------------------------------------------------------------------------
(* Waiting *)

poll(pattern, mode) ==
    IF Matches(saveme(pattern, mode), value) THEN value ELSE {}

ValueAfterPoll(pattern, mode) ==
    IF poll(pattern, mode) # {} /\ "CLR" \in mode THEN {} ELSE value

FlagPoll(pattern, mode) ==
    /\ "poll" \in Ops
    /\ InThreadOrDsr
    /\ alive
    /\ value' = ValueAfterPoll(pattern, mode)
    /\ k' = Unlock(k)
    /\ UNCHANGED <<pc, ticks, info, alive>>

\* One turn of a waiting loop.
FlagBlock(k1, reason) ==
    Reschedule(Enqueue(Sleep(SetSleepReason(k1, reason)), flagq, self))

FlagWait(pattern, mode) ==
    /\ "fwait" \in Ops
    /\ InThread
    /\ alive
    /\ value' = ValueAfterPoll(pattern, mode)
    /\ \/ /\ poll(pattern, mode) # {}
          /\ k' = Unlock(k)
          /\ UNCHANGED <<pc, info>>
       \/ /\ poll(pattern, mode) = {}
          /\ info' = [info EXCEPT ![self] = saveme(pattern, mode)]
          /\ k' = FlagBlock(k, "WAIT")
          /\ pc' = [pc EXCEPT ![self] = "fwait"]
    /\ UNCHANGED <<ticks, alive>>

\* past: the deadline has passed, and the failed poll was the only try.
FlagTimedWait(pattern, mode, past) ==
    LET k1 == SetTimer(k, "TIMEOUT", past)
    IN  /\ "ftimed" \in Ops
        /\ InThread
        /\ alive
        /\ value' = ValueAfterPoll(pattern, mode)
        /\ \/ /\ poll(pattern, mode) # {}
              /\ k' = Unlock(k)
              /\ UNCHANGED <<pc, info>>
           \/ /\ poll(pattern, mode) = {}
              /\ k1.wake_reason[self] # "NONE"
              /\ k' = Unlock(ClearTimer(k1, self))
              /\ UNCHANGED <<pc, info>>
           \/ /\ poll(pattern, mode) = {}
              /\ k1.wake_reason[self] = "NONE"
              /\ info' = [info EXCEPT ![self] = saveme(pattern, mode)]
              /\ k' = FlagBlock(k1, "TIMEOUT")
              /\ pc' = [pc EXCEPT ![self] = "ftimed"]
        /\ UNCHANGED <<ticks, alive>>

\* Back from reschedule(): the wake reason, then value_out, end the loop.
FlagWoken ==
    LET reason == k.wake_reason[self]
        timed  == pc[self] = "ftimed"
        early  == reason \in {"DESTRUCT", "BREAK"} \/ (timed /\ reason = "TIMEOUT")
    IN  /\ k.sched_lock = "inner"
        /\ pc[self] \in InFlag
        /\ UNCHANGED <<ticks, value, alive>>
        /\ \/ /\ reason = "EXIT"
              /\ k' = Reschedule(Exit(k))
              /\ pc' = [pc EXCEPT ![self] = "user"]
              /\ info' = [info EXCEPT ![self] = NoInfo]
           \/ /\ reason # "EXIT"
              /\ early \/ info[self].value_out # {}
              /\ k' = Unlock(IF timed THEN ClearTimer(k, self) ELSE k)
              /\ pc' = [pc EXCEPT ![self] = "user"]
              /\ info' = [info EXCEPT ![self] = NoInfo]
           \/ /\ reason # "EXIT"
              /\ ~early /\ info[self].value_out = {}
              /\ k' = FlagBlock(k, IF timed THEN "TIMEOUT" ELSE "WAIT")
              /\ UNCHANGED <<pc, info>>

FlagNext ==
    \/ \E arg \in Patterns : FlagSetbits(arg) \/ FlagMaskbits(Bits \ arg)
    \/ FlagDestroy
    \/ \E pattern \in Patterns, mode \in WaitMode :
         \/ FlagPoll(pattern, mode)
         \/ FlagWait(pattern, mode)
         \/ \E past \in BOOLEAN : FlagTimedWait(pattern, mode, past)
    \/ FlagWoken
    \/ Next /\ UNCHANGED <<value, info, alive>>

FlagSpec == FlagInit /\ [][FlagNext]_flagVars

-----------------------------------------------------------------------------
(* Properties *)

queue == k.wait_queue[flagq]

\* The queue holds exactly the threads asleep in wait(), and none of them
\* waits for what the value already has: no event is missed between the poll
\* and the sleep, or by a walk that another waiter's clear changes.
NoMatchingSleeper ==
    /\ \A t \in Thread :
         t \in Range(queue) <=> pc[t] \in InFlag /\ "SLEEPING" \in k.state[t]
    /\ \A t \in Range(queue) :
         /\ info[t].allmask # {} => ~(info[t].allmask \subseteq value)
         /\ info[t].anymask \cap value = {}

\* The asserts "Break out but also good result!" and "Thread already awoken?":
\* a waiter is given a value if and only if setbits() woke it, however its
\* timer, release(), the destructor and setbits() race.
BreakXorResult ==
    \A t \in Thread :
        pc[t] \in InFlag =>
            (info[t].value_out # {}) = (k.wake_reason[t] = "DONE")

\* t leaves the queue because its events have come.
Awoken(t) ==
    t \in Range(queue) /\ t \notin Range(queue)' /\ k'.wake_reason[t] = "DONE"

\* "If the awoken thread has passed CYG_FLAG_WAITMODE_CLR the walking of the
\* queue is terminated": whoever clears the events shares them with nobody
\* behind it in the queue, and nothing of them is left.
ClearedEventsTakenOnce ==
    [][\A i, j \in DOMAIN queue :
          i <= j /\ Awoken(queue[i]) /\ info[queue[i]].do_clear =>
              value' = {} /\ (i < j => ~Awoken(queue[j]))]_flagVars

\* Threads that keep waiting keep their order, new ones line up behind them:
\* the holding queue of setbits() is put back as it was.
WaitOrderKept ==
    [][IsPrefix(SelectSeq(queue, LAMBDA t : t \in Range(queue)'), queue')]_flagVars

=============================================================================
