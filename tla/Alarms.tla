------------------------------- MODULE Alarms -------------------------------
(***************************************************************************)
(* A Cyg_Counter and the Cyg_Alarms attached to it (clock.cxx), in the     *)
(* default configuration: one unsorted list of alarms.                     *)
(*                                                                         *)
(* Every function runs with the scheduler locked, so no two of them        *)
(* interleave.  What makes the code hard is re-entry: tick() calls alarm   *)
(* functions while it scans the list, add_alarm() calls the function of an *)
(* alarm that is already due before it has queued it, and those functions  *)
(* may initialize, enable and disable any alarm, which may call further    *)
(* functions.  The variable `stack' holds the calls in progress.           *)
(***************************************************************************)
EXTENDS Integers, Sequences, SequencesExt, FiniteSets

CONSTANTS
    Alarm,        \* the alarms attached to the counter
    TickMod,      \* 2^64: cyg_tick_count is unsigned and wraps
    MaxCounter,   \* bound on the counter's value
    Times,        \* the trigger times passed to initialize()
    Intervals,    \* the intervals passed to initialize(); 0 is a one-shot
    MaxDepth,     \* bound on the nesting of alarm functions
    RearmInside,  \* whether the function of an alarm that add_alarm() has
                  \*   called may have that alarm queued again
    EnableAhead   \* the intervals of the alarms that enable() may meet more
                  \*   than an interval before they are due

ASSUME AlarmsAssumption ==
    /\ TickMod \in Nat \ {0} /\ MaxCounter \in Nat /\ MaxDepth \in Nat
    /\ Times \subseteq 0..(TickMod - 1)
    /\ Intervals \subseteq 0..(TickMod - 1)
    /\ \A i \in Intervals : MaxCounter + i < TickMod
    /\ RearmInside \in BOOLEAN
    /\ EnableAhead \subseteq Intervals

VARIABLES
    counter,      \* Cyg_Counter::counter (increment is 1)
    alarm_list,   \* Cyg_Counter::alarm_list
    trigger,      \* Cyg_Alarm::trigger
    interval,     \* Cyg_Alarm::interval
    enabled,      \* Cyg_Alarm::enabled
    stack,        \* the calls in progress, innermost last
    node,         \* tick()'s place in the list: a position, 0 for NULL
    phase         \* history: the trigger time asked for, modulo the interval

alarms == <<counter, alarm_list, trigger, interval, enabled, stack, node, phase>>

(***************************************************************************)
(* A call in progress:                                                     *)
(*   tick      tick() walks the list                                       *)
(*   call(x)   tick() has requeued x and is about to call its function     *)
(*   due(x)    x's function, called by tick()                              *)
(*   now(x)    x's function, called by add_alarm(x)                        *)
(***************************************************************************)
NoAlarm   == "none"
TickFrame == [at |-> "tick", alarm |-> NoAlarm]
CallOf(x) == [at |-> "call", alarm |-> x]
Due(x)    == [at |-> "due", alarm |-> x]
Now(x)    == [at |-> "now", alarm |-> x]

InAdd(x) == \E n \in DOMAIN stack : stack[n] = Now(x)

\* A thread, a DSR or an alarm function may call the alarm interface.
CallerRuns ==
    IF stack = <<>> THEN TRUE
    ELSE Last(stack).at \in {"due", "now"} /\ Len(stack) < MaxDepth

AlarmsInit ==
    /\ counter = 0
    /\ alarm_list = <<>>
    /\ trigger  = [x \in Alarm |-> 0]
    /\ interval = [x \in Alarm |-> 0]
    /\ enabled  = [x \in Alarm |-> FALSE]
    /\ stack = <<>>
    /\ node = 0
    /\ phase = [x \in Alarm |-> 0]
-----------------------------------------------------------------------------
PhaseOf(t, i) == IF i = 0 THEN 0 ELSE t % i

\* Mutant: the trigger moves to the present, not by whole intervals.
synchronizeLate(t, i) ==
    LET d == (counter + i - t) % TickMod
    IN  IF i # 0 /\ d > i THEN (t + d - 1) % TickMod ELSE t

\* synchronize(): the trigger it leaves, computed in unsigned arithmetic.
synchronize(t, i) ==
    LET d == (counter + i - t) % TickMod
    IN  IF i # 0 /\ d > i THEN (t + i * ((d - 1) \div i)) % TickMod ELSE t

\* add_alarm(x) with the trigger, the list and the calls the caller leaves:
\* an alarm that is due is called before it is queued.
add_alarm(x, t, list, calls) ==
    /\ trigger' = [trigger EXCEPT ![x] = t]
    /\ enabled' = [enabled EXCEPT ![x] = TRUE]
    /\ IF t <= counter
       THEN alarm_list' = list /\ stack' = Append(calls, Now(x))
       ELSE alarm_list' = Append(list, x) /\ stack' = calls

\* rem_alarm(x), if x is enabled.
Without(x) == IF enabled[x] THEN RemoveFirst(alarm_list, x) ELSE alarm_list

initialize(x, t, i) ==
    /\ CallerRuns
    /\ InAdd(x) => RearmInside
    /\ interval' = [interval EXCEPT ![x] = i]
    /\ phase' = [phase EXCEPT ![x] = PhaseOf(t, i)]
    /\ add_alarm(x, t, Without(x), stack)
    /\ UNCHANGED <<counter, node>>

\* A periodic alarm that is more than an interval away makes d wrap, and
\* synchronize() moves its trigger all the same, round 2^64 to about now.
Ahead(x) == interval[x] # 0 /\ trigger[x] > counter + interval[x]

enable(x) ==
    /\ CallerRuns
    /\ ~enabled[x]
    /\ InAdd(x) => RearmInside
    /\ Ahead(x) => interval[x] \in EnableAhead
    /\ add_alarm(x, synchronize(trigger[x], interval[x]), alarm_list, stack)
    /\ UNCHANGED <<counter, interval, node, phase>>

disable(x) ==
    /\ CallerRuns
    /\ enabled[x]
    /\ alarm_list' = Without(x)
    /\ enabled' = [enabled EXCEPT ![x] = FALSE]
    /\ UNCHANGED <<counter, trigger, interval, stack, node, phase>>

\* Mutant: an alarm that its function has disabled is queued all the same.
AddReturnsUnchecked(x) ==
    /\ stack # <<>> /\ Last(stack) = Now(x)
    /\ IF interval[x] # 0
       THEN /\ trigger' = [trigger EXCEPT ![x] = 
                  synchronize((@ + interval[x]) % TickMod, interval[x])]
            /\ alarm_list' = Append(alarm_list, x)
            /\ UNCHANGED enabled
       ELSE /\ enabled' = [enabled EXCEPT ![x] = FALSE]
            /\ UNCHANGED <<trigger, alarm_list>>
    /\ stack' = Front(stack)
    /\ UNCHANGED <<counter, interval, node, phase>>

\* The rest of add_alarm(x), once the function it called has returned.
AddReturns(x) ==
    /\ stack # <<>> /\ Last(stack) = Now(x)
    /\ IF interval[x] # 0 /\ enabled[x]
       THEN /\ trigger' = [trigger EXCEPT ![x] =
                  synchronize((@ + interval[x]) % TickMod, interval[x])]
            /\ alarm_list' = Append(alarm_list, x)
            /\ UNCHANGED enabled
       ELSE /\ enabled' = [enabled EXCEPT ![x] = FALSE]
            /\ UNCHANGED <<trigger, alarm_list>>
    /\ stack' = Front(stack)
    /\ UNCHANGED <<counter, interval, node, phase>>
-----------------------------------------------------------------------------
(* tick() *)

\* get_head() of a list that may be empty.
HeadNode == IF alarm_list = <<>> THEN 0 ELSE 1

Tick ==
    /\ stack = <<>>
    /\ counter < MaxCounter
    /\ counter' = counter + 1
    /\ stack' = <<TickFrame>>
    /\ node' = HeadNode
    /\ UNCHANGED <<alarm_list, trigger, interval, enabled, phase>>

Scanning == stack # <<>> /\ Last(stack) = TickFrame

\* The node is an alarm that is not due: on to the next one, until the
\* circular list is back at its head.
ScanNext ==
    /\ Scanning
    /\ node # 0
    /\ trigger[alarm_list[node]] > counter
    /\ LET next == IF node = Len(alarm_list) THEN 1 ELSE node + 1
       IN  node' = IF next = 1 THEN 0 ELSE next
    /\ UNCHANGED <<counter, alarm_list, trigger, interval, enabled, stack, phase>>

\* It is due: it is requeued if it has an interval, then called.
Expire ==
    /\ Scanning
    /\ node # 0
    /\ LET x == alarm_list[node]
           rest == RemoveFirst(alarm_list, x)
           calls == Append(stack, CallOf(x))
       IN  /\ trigger[x] <= counter
           /\ IF interval[x] # 0
              THEN add_alarm(x, (trigger[x] + interval[x]) % TickMod, rest, calls)
              ELSE /\ alarm_list' = rest
                   /\ enabled' = [enabled EXCEPT ![x] = FALSE]
                   /\ stack' = calls
                   /\ UNCHANGED trigger
    /\ UNCHANGED <<counter, interval, node, phase>>

CallFunction ==
    /\ stack # <<>> /\ Last(stack).at = "call"
    /\ stack' = Append(Front(stack), Due(Last(stack).alarm))
    /\ UNCHANGED <<counter, alarm_list, trigger, interval, enabled, node, phase>>

\* Mutant: the scan goes on where it stopped.
FunctionReturnsOnward ==
    /\ stack # <<>> /\ Last(stack).at = "due"
    /\ stack' = Front(stack)
    /\ node' = IF node \in DOMAIN alarm_list THEN node ELSE 0
    /\ UNCHANGED <<counter, alarm_list, trigger, interval, enabled, phase>>

\* The function returns to tick(), which starts its scan again.
FunctionReturns ==
    /\ stack # <<>> /\ Last(stack).at = "due"
    /\ stack' = Front(stack)
    /\ node' = HeadNode
    /\ UNCHANGED <<counter, alarm_list, trigger, interval, enabled, phase>>

\* A scan that has called no function ends the tick.
TickDone ==
    /\ Scanning
    /\ node = 0
    /\ stack' = <<>>
    /\ UNCHANGED <<counter, alarm_list, trigger, interval, enabled, node, phase>>

\* "cyg_counter_set_value": no alarm function is called.
set_value(v) ==
    /\ stack = <<>>
    /\ counter' = v
    /\ UNCHANGED <<alarm_list, trigger, interval, enabled, stack, node, phase>>

AlarmsNext ==
    \/ \E x \in Alarm :
          \/ \E t \in Times, i \in Intervals : initialize(x, t, i)
          \/ enable(x)
          \/ disable(x)
          \/ AddReturns(x)
    \/ Tick \/ ScanNext \/ Expire \/ CallFunction \/ FunctionReturns \/ TickDone
    \/ \E v \in 0..MaxCounter : set_value(v)

AlarmsSpec == AlarmsInit /\ [][AlarmsNext]_alarms
-----------------------------------------------------------------------------
\* An alarm is on the list once if it is enabled and not at all otherwise,
\* which disable(), initialize() and the destructor rely on to take it off.
\* add_alarm() keeps it although it calls the alarm's function between
\* setting `enabled' and queueing the alarm: "set this now to allow an
\* immediate handler call to manipulate this alarm sensibly" (clock.cxx).
QueuedIffEnabled ==
    \A x \in Alarm : ~InAdd(x) =>
        Cardinality({n \in DOMAIN alarm_list : alarm_list[n] = x})
            = IF enabled[x] THEN 1 ELSE 0

\* tick() misses no alarm, although it walks the list node by node and the
\* functions it calls on the way take alarms off the list, add others and,
\* through synchronize(), may queue one that is due at once: when it returns,
\* every alarm left on the list is still to come.
NoAlarmMissed ==
    [][(Len(stack) > 0 /\ stack[1] = TickFrame /\ stack' = <<>>)
          => \A n \in DOMAIN alarm_list' : trigger'[alarm_list'[n]] > counter']_alarms

\* "in phase with the original time requested": the trigger of a periodic
\* alarm stays in the phase that initialize() gave it through requeueing in
\* tick() and add_alarm(), late calls, jumps of the counter, and disable() and
\* enable(), after which it is to go on "as if [it] had never been disabled".
\* synchronize() may wrap on the way: it then needs an interval that divides
\* 2^64, so EnableAhead is to hold no other.
InPhase ==
    \A x \in Alarm : PhaseOf(trigger[x], interval[x]) = phase[x]
=============================================================================
