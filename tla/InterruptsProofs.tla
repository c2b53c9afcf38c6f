-------------------------- MODULE InterruptsProofs --------------------------
(***************************************************************************)
(* Theorems about module Interrupts, for any number of threads and of      *)
(* interrupt sources and any nesting of locks.                             *)
(***************************************************************************)
EXTENDS Interrupts, TLAPS, SequenceTheorems, FiniteSetTheorems

Place == {"entry", "dsrs", "run", "resched", "switched", "zeroed"}
Frame == [at : Place, new_lock : Nat, isr : BOOLEAN]

\* The state has its type.
StateOK ==
    /\ sched_lock \in Nat
    /\ current_thread \in AllThread
    /\ ready \subseteq AllThread
    /\ stack \in [AllThread -> Seq(Frame)]
    /\ held \in [AllThread -> Nat]
    /\ owed \in [Intr -> Nat]
    /\ dsr_count \in [Intr -> Nat]
    /\ dsr_list \in Seq(Intr)
    /\ next_dsr \in Seq(Intr)
    /\ count \in Nat

\* A call made by interrupt_end() releases the lock, and so does every call
\* that runs DSRs or has zeroed the lock.
FrameOK(f) ==
    /\ f.isr \/ f.at \in {"entry", "run", "zeroed"} => f.new_lock = 0
    /\ f.at = "entry" => ~f.isr

\* An interrupt can add a call only above one that has just zeroed the lock,
\* and never a third one; the lock a thread holds is what the outermost call
\* will leave.
StackOK(t) ==
    /\ Len(stack[t]) <= 2
    /\ \A n \in 1..Len(stack[t]) : FrameOK(stack[t][n])
    /\ Len(stack[t]) = 2 =>
          stack[t][1].at = "zeroed" /\ ~stack[t][1].isr /\ stack[t][2].isr
    /\ Len(stack[t]) > 0 => held[t] = stack[t][1].new_lock

\* A thread that is not running stopped at the switch or has not begun.
SwitchedOut(t) ==
    Len(stack[t]) > 0 /\ stack[t][Len(stack[t])].at \in {"entry", "switched"}

\* What the lock is at each place the current thread can be in.
LockOK ==
    LET top == me[Len(me)]
    IN  /\ Len(me) = 0 =>
             sched_lock = held[current_thread] /\ (sched_lock = 0 => dsr_list = <<>>)
        /\ Len(me) > 0 =>
             /\ top.at \in {"entry", "switched"} => sched_lock > 0
             /\ top.at \in {"dsrs", "resched"} =>
                  IF top.new_lock = 0 THEN sched_lock = 1
                  ELSE sched_lock \in {top.new_lock, top.new_lock + 1}
             /\ top.at = "run" => sched_lock = 1
             /\ top.at = "zeroed" => sched_lock = 0

\* The part of the list that was taken off is worked off inside one call.
RunOK ==
    IF InCall("run") THEN intr \in Intr
    ELSE intr = NoIntr /\ count = 0 /\ next_dsr = <<>>

\* An object is on the list or on the part taken off, once, exactly while it
\* has a count.
ListsOK ==
    /\ \A m, n \in 1..Len(dsr_list) : dsr_list[m] = dsr_list[n] => m = n
    /\ \A m, n \in 1..Len(next_dsr) : next_dsr[m] = next_dsr[n] => m = n
    /\ \A m \in 1..Len(dsr_list), n \in 1..Len(next_dsr) : dsr_list[m] # next_dsr[n]
    /\ \A i \in Intr : dsr_count[i] > 0 <=>
          \/ \E n \in 1..Len(dsr_list) : dsr_list[n] = i
          \/ \E n \in 1..Len(next_dsr) : next_dsr[n] = i

CountsOK == \A i \in Intr : owed[i] = dsr_count[i] + (IF intr = i THEN count ELSE 0)

Inv ==
    /\ StateOK
    /\ \A t \in AllThread : StackOK(t) /\ (t # current_thread => SwitchedOut(t))
    /\ LockOK
    /\ RunOK
    /\ ListsOK
    /\ CountsOK

-----------------------------------------------------------------------------
(* How a step changes the calls of the current thread *)

\* Only the place of the innermost call changes.
LEMMA GotoFacts ==
    ASSUME StateOK, me # <<>>, NEW place \in Place, Goto(place)
    PROVE  /\ stack' \in [AllThread -> Seq(Frame)]
           /\ \A t \in AllThread \ {current_thread} : stack'[t] = stack[t]
           /\ Len(me) \in Nat \ {0}
           /\ Len(stack'[current_thread]) = Len(me)
           /\ \A n \in 1..(Len(me) - 1) : stack'[current_thread][n] = me[n]
           /\ stack'[current_thread][Len(me)] = [me[Len(me)] EXCEPT !.at = place]
           /\ stack'[current_thread][Len(me)].at = place
           /\ stack'[current_thread][Len(me)].new_lock = me[Len(me)].new_lock
           /\ stack'[current_thread][Len(me)].isr = me[Len(me)].isr
<1>1. me \in Seq(Frame) /\ Len(me) \in Nat \ {0}
  BY DEF StateOK, me
<1> DEFINE f == [me[Len(me)] EXCEPT !.at = place]
           s == [me EXCEPT ![Len(me)] = f]
<1>2. f \in Frame
  <2>1. me[Len(me)] \in Frame
    BY <1>1
  <2> HIDE DEF me
  <2> QED BY <2>1 DEF Frame
<1>3. s \in Seq(Frame) /\ Len(s) = Len(me)
  BY <1>1, <1>2
<1>4. stack' = [stack EXCEPT ![current_thread] = s]
  BY DEF Goto, me
<1>5. /\ s[Len(me)] = f
      /\ \A n \in 1..(Len(me) - 1) : s[n] = me[n]
  BY <1>1
<1>6. f.at = place /\ f.new_lock = me[Len(me)].new_lock /\ f.isr = me[Len(me)].isr
  <2>1. me[Len(me)] \in Frame
    BY <1>1
  <2> QED BY <2>1 DEF Frame
<1> HIDE DEF s, f
<1>7. stack'[current_thread] = s
  BY <1>4 DEF StateOK
<1>8. stack' \in [AllThread -> Seq(Frame)]
  BY <1>3, <1>4 DEF StateOK
<1> QED BY <1>1, <1>3, <1>4, <1>5, <1>6, <1>7, <1>8 DEF StateOK, f

\* A call is added.
LEMMA CallFacts ==
    ASSUME StateOK, NEW f \in Frame, Call(f)
    PROVE  /\ stack' \in [AllThread -> Seq(Frame)]
           /\ \A t \in AllThread \ {current_thread} : stack'[t] = stack[t]
           /\ Len(me) \in Nat
           /\ Len(stack'[current_thread]) = Len(me) + 1
           /\ \A n \in 1..Len(me) : stack'[current_thread][n] = me[n]
           /\ stack'[current_thread][Len(me) + 1] = f
<1>1. me \in Seq(Frame) /\ Len(me) \in Nat
  BY DEF StateOK, me
<1>2. stack' = [stack EXCEPT ![current_thread] = Append(me, f)]
  BY DEF Call, me
<1>3. stack'[current_thread] = Append(me, f)
  BY <1>2 DEF StateOK
<1>4. Append(me, f) \in Seq(Frame)
  BY <1>1
<1> QED BY <1>1, <1>2, <1>3, <1>4 DEF StateOK

\* The innermost call returns.
LEMMA ReturnFacts ==
    ASSUME StateOK, me # <<>>, Return
    PROVE  /\ stack' \in [AllThread -> Seq(Frame)]
           /\ \A t \in AllThread \ {current_thread} : stack'[t] = stack[t]
           /\ Len(me) \in Nat \ {0}
           /\ Len(stack'[current_thread]) = Len(me) - 1
           /\ \A n \in 1..(Len(me) - 1) : stack'[current_thread][n] = me[n]
<1>1. me \in Seq(Frame) /\ Len(me) \in Nat \ {0}
  BY DEF StateOK, me
<1>2. stack' = [stack EXCEPT ![current_thread] = Front(me)]
  BY DEF Return, me
<1>3. Front(me) = SubSeq(me, 1, Len(me) - 1)
  BY DEF Front
<1>4. /\ Front(me) \in Seq(Frame)
      /\ Len(Front(me)) = Len(me) - 1
      /\ \A n \in 1..(Len(me) - 1) : Front(me)[n] = me[n]
  <2> DEFINE m == Len(me) - 1
  <2>1. m \in Nat /\ m < Len(me)
    BY <1>1
  <2>2. \A n \in 1..m : me[n] \in Frame /\ 1 + n - 1 = n
    BY <1>1, <2>1, ElementOfSeq
  <2> HIDE DEF m
  <2>3. /\ SubSeq(me, 1, m) \in Seq(Frame)
        /\ Len(SubSeq(me, 1, m)) = (IF 1 <= m THEN m - 1 + 1 ELSE 0)
        /\ \A n \in 1..(m - 1 + 1) : SubSeq(me, 1, m)[n] = me[1 + n - 1]
    BY <2>1, <2>2, SubSeqProperties
  <2>4. m - 1 + 1 = m /\ (IF 1 <= m THEN m ELSE 0) = m
    BY <2>1
  <2> QED BY <1>3, <2>2, <2>3, <2>4 DEF m
<1>5. stack'[current_thread] = Front(me)
  BY <1>2 DEF StateOK
<1> QED BY <1>1, <1>2, <1>4, <1>5 DEF StateOK

\* What the invariant says of the innermost call.
LEMMA TopFacts ==
    ASSUME Inv, NEW place, InCall(place)
    PROVE  /\ me # <<>>
           /\ Len(me) \in {1, 2}
           /\ me[Len(me)] \in Frame
           /\ Last(me) = me[Len(me)]
           /\ me[Len(me)].at = place
           /\ FrameOK(me[Len(me)])
<1>1. me \in Seq(Frame) /\ me # <<>> /\ Last(me) = me[Len(me)] /\ Last(me).at = place
  BY DEF Inv, StateOK, me, InCall, Last
<1>2. Len(me) \in Nat \ {0} /\ Len(me) <= 2 /\ \A n \in 1..Len(me) : FrameOK(me[n])
  BY <1>1 DEF Inv, StateOK, StackOK, me
<1>3. Len(me) \in {1, 2} /\ Len(me) \in 1..Len(me)
  <2>1. \A n \in Nat \ {0} : n <= 2 => n \in {1, 2} /\ n \in 1..n
    OBVIOUS
  <2> QED BY <1>2, <2>1
<1>4. me[Len(me)] \in Frame
  BY <1>1, <1>3
<1> QED BY <1>1, <1>2, <1>3, <1>4

\* A thread whose calls and whose lock a step leaves alone is as before.
LEMMA OthersKept ==
    ASSUME Inv,
           \A t \in AllThread \ {current_thread} :
               stack'[t] = stack[t] /\ held'[t] = held[t]
    PROVE  \A t \in AllThread \ {current_thread} : StackOK(t)' /\ SwitchedOut(t)'
BY DEF Inv, StackOK, SwitchedOut

\* The invariant of the next state, if the thread that runs is the same.
LEMMA SameThreadInv ==
    ASSUME Inv, StateOK', UNCHANGED current_thread,
           \A t \in AllThread \ {current_thread} :
               stack'[t] = stack[t] /\ held'[t] = held[t],
           StackOK(current_thread)', LockOK', RunOK', ListsOK', CountsOK'
    PROVE  Inv'
BY OthersKept DEF Inv

\* Whatever the lists and counts are, they are as before.
LEMMA DsrsKept ==
    ASSUME Inv, UNCHANGED <<dsrs, owed>>
    PROVE  ListsOK' /\ CountsOK'
BY DEF Inv, ListsOK, CountsOK, dsrs

\* The invariant holds initially.
LEMMA InitInv == InterruptsInit => Inv
<1> SUFFICES ASSUME InterruptsInit PROVE Inv
  OBVIOUS
<1>1. EntryFrame \in Frame /\ EntryFrame.at = "entry" /\ FrameOK(EntryFrame)
      /\ EntryFrame.new_lock = 0
  BY DEF EntryFrame, Frame, Place, FrameOK
<1>2. \A t \in AllThread : /\ stack[t] \in Seq(Frame)
                           /\ Len(stack[t]) = 1
                           /\ stack[t][1] = EntryFrame
  BY <1>1 DEF InterruptsInit
<1>3. StateOK
  BY <1>1 DEF InterruptsInit, StateOK
<1>4. \A t \in AllThread : StackOK(t) /\ SwitchedOut(t)
  BY <1>1, <1>2 DEF InterruptsInit, StackOK, SwitchedOut
<1>5. LockOK
  BY <1>1, <1>2, <1>3 DEF InterruptsInit, LockOK, me, StateOK
<1>6. RunOK
  BY <1>1, <1>2, <1>3 DEF InterruptsInit, RunOK, InCall, Last, me, StateOK
<1>7. ListsOK /\ CountsOK
  BY DEF InterruptsInit, ListsOK, CountsOK
<1> QED BY <1>3, <1>4, <1>5, <1>6, <1>7 DEF Inv

-----------------------------------------------------------------------------
(* Thread code *)

\* The thread's own code: no call of unlock_inner() is in progress.
LEMMA ThreadCodeFacts ==
    ASSUME Inv, InThreadCode
    PROVE  /\ Len(me) = 0
           /\ sched_lock \in Nat /\ held[current_thread] \in Nat
           /\ sched_lock = held[current_thread]
           /\ sched_lock = 0 => dsr_list = <<>>
           /\ intr = NoIntr /\ count = 0 /\ next_dsr = <<>>
<1>1. Len(me) = 0 /\ ~InCall("run")
  BY DEF InThreadCode, InCall
<1> QED BY <1>1 DEF Inv, LockOK, RunOK, StateOK

\* lock() keeps the invariant.
LEMMA LockInv == ASSUME Inv, Lock PROVE Inv'
<1>1. /\ InThreadCode
      /\ sched_lock' = sched_lock + 1
      /\ held' = [held EXCEPT ![current_thread] = @ + 1]
      /\ UNCHANGED <<current_thread, need_reschedule, ready, stack, dsrs, owed>>
  BY DEF Lock
<1>2. StateOK
  BY DEF Inv
<1>3. StateOK'
  BY <1>1, <1>2 DEF StateOK, dsrs
<1>4. Len(stack'[current_thread]) = 0 /\ StackOK(current_thread)'
  BY <1>1, ThreadCodeFacts DEF Inv, StackOK, me
<1>5. LockOK'
  BY <1>1, <1>2, <1>4, ThreadCodeFacts DEF LockOK, me, StateOK
<1>6. RunOK'
  BY <1>1 DEF Inv, RunOK, InCall, me, dsrs
<1> QED BY <1>1, <1>2, <1>3, <1>4, <1>5, <1>6, DsrsKept, SameThreadInv DEF StateOK

\* Entering unlock_inner(n): the lock that the thread will hold is n.
LEMMA EnterInv ==
    ASSUME Inv, InThreadCode, NEW n \in Nat, Call(Enter(n, FALSE)),
           IF n = 0 THEN sched_lock = 1 ELSE sched_lock \in {n, n + 1},
           held' = [held EXCEPT ![current_thread] = n],
           ready' \subseteq AllThread,
           UNCHANGED <<sched_lock, current_thread, dsrs, owed>>
    PROVE  Inv'
<1> DEFINE f == Enter(n, FALSE)
<1>1. f \in Frame /\ f.at = "dsrs" /\ f.new_lock = n /\ FrameOK(f)
  BY DEF Enter, Frame, Place, FrameOK
<1> HIDE DEF f
<1>2. StateOK
  BY DEF Inv
<1>3. /\ stack' \in [AllThread -> Seq(Frame)]
      /\ \A t \in AllThread \ {current_thread} : stack'[t] = stack[t]
      /\ Len(stack'[current_thread]) = 1
      /\ stack'[current_thread][1] = f
  <2>1. Len(me) = 0 /\ 0 + 1 = 1
    BY ThreadCodeFacts
  <2> QED BY <1>1, <1>2, <2>1, CallFacts DEF f
<1>4. StateOK'
  BY <1>2, <1>3 DEF StateOK, dsrs
<1>5. StackOK(current_thread)'
  BY <1>1, <1>2, <1>3 DEF StackOK, StateOK
<1>6. LockOK'
  BY <1>1, <1>3 DEF LockOK, me
<1>7. RunOK'
  <2>1. me' # <<>> => Last(me)' = f
    BY <1>3 DEF me, Last
  <2> QED BY <1>1, <2>1, ThreadCodeFacts DEF RunOK, InCall, dsrs
<1> QED BY <1>2, <1>3, <1>4, <1>5, <1>6, <1>7, DsrsKept, SameThreadInv DEF StateOK

\* unlock() keeps it, from whatever depth.
LEMMA UnlockInv == ASSUME Inv, NEW level \in 1..MaxLock, UnlockFrom(level) PROVE Inv'
<1>1. /\ InThreadCode
      /\ sched_lock = level
      /\ held' = [held EXCEPT ![current_thread] = @ - 1]
      /\ UNCHANGED <<current_thread, need_reschedule, ready, dsrs, owed>>
  BY DEF UnlockFrom
<1>2. StateOK /\ level \in Nat \ {0}
  BY DEF Inv, StateOK
<1>3. CASE level = 1
  <2>1. Call(Enter(0, FALSE)) /\ UNCHANGED sched_lock
    BY <1>3 DEF UnlockFrom
  <2>2. held' = [held EXCEPT ![current_thread] = 0]
    <3>1. held[current_thread] - 1 = 0
      BY <1>1, <1>3, ThreadCodeFacts
    <3> QED BY <1>1, <3>1
  <2> QED BY <1>1, <1>2, <1>3, <2>1, <2>2, EnterInv DEF StateOK
<1>4. CASE level # 1
  <2>1. sched_lock' = level - 1 /\ UNCHANGED stack /\ level - 1 \in Nat \ {0}
    BY <1>2, <1>4 DEF UnlockFrom
  <2>2. held[current_thread] = level
    BY <1>1, ThreadCodeFacts
  <2>3. StateOK'
    BY <1>1, <1>2, <2>1, <2>2 DEF StateOK, dsrs
  <2>4. Len(stack'[current_thread]) = 0 /\ StackOK(current_thread)'
    BY <1>1, <2>1, ThreadCodeFacts DEF Inv, StackOK, me
  <2>5. LockOK'
    BY <1>1, <1>2, <2>1, <2>2, <2>4 DEF LockOK, me, StateOK
  <2>6. RunOK'
    BY <1>1, <2>1 DEF Inv, RunOK, InCall, me, dsrs
  <2> QED BY <1>1, <1>2, <2>1, <2>3, <2>4, <2>5, <2>6, DsrsKept, SameThreadInv DEF StateOK
<1> QED BY <1>3, <1>4

\* reschedule() enters unlock_inner() one lock deeper.
LEMMA RescheduleInv == ASSUME Inv, Reschedule PROVE Inv'
<1>1. sched_lock \in Nat \ {0} /\ held = [held EXCEPT ![current_thread] = sched_lock]
  BY ThreadCodeFacts DEF Reschedule, Inv, StateOK
<1>2. ready' \subseteq AllThread /\ UNCHANGED <<sched_lock, current_thread, dsrs, owed, held>>
  BY DEF Reschedule, Inv, StateOK, ghost
<1> QED BY <1>1, <1>2, EnterInv DEF Reschedule

\* unlock_reschedule() enters it at the lock it releases.
LEMMA UnlockRescheduleInv == ASSUME Inv, UnlockReschedule PROVE Inv'
<1> DEFINE n == sched_lock - 1
<1>1. n \in Nat /\ held' = [held EXCEPT ![current_thread] = n]
  <2>1. /\ sched_lock \in Nat /\ sched_lock > 0
        /\ held[current_thread] - 1 = n
        /\ held' = [held EXCEPT ![current_thread] = held[current_thread] - 1]
    BY ThreadCodeFacts DEF UnlockReschedule
  <2>2. n \in Nat
    BY <2>1
  <2> HIDE DEF n
  <2> QED BY <2>1, <2>2
<1>2. IF n = 0 THEN sched_lock = 1 ELSE sched_lock \in {n, n + 1}
  BY <1>1, ThreadCodeFacts DEF UnlockReschedule
<1>3. /\ ready' \subseteq AllThread
      /\ UNCHANGED <<sched_lock, current_thread, dsrs, owed>>
      /\ Call(Enter(n, FALSE)) /\ InThreadCode
  BY DEF UnlockReschedule, Inv, StateOK
<1> HIDE DEF n
<1> QED BY <1>1, <1>2, <1>3, EnterInv

\* A change of the ready threads leaves locks and DSRs alone.
LEMMA ChangeReadyInv == ASSUME Inv, ChangeReady PROVE Inv'
<1>1. /\ ready' \in ReadyAfter
      /\ UNCHANGED <<sched_lock, current_thread, stack, dsrs, ghost>>
  BY DEF ChangeReady
<1>2. ready' \subseteq AllThread
  BY <1>1 DEF ReadyAfter, Inv, StateOK, AllThread
<1>3. StateOK'
  BY <1>1, <1>2 DEF Inv, StateOK, dsrs, ghost
<1>4. StackOK(current_thread)' /\ LockOK' /\ RunOK'
  BY <1>1 DEF Inv, StateOK, StackOK, LockOK, RunOK, InCall, me, dsrs, ghost
<1> QED BY <1>1, <1>3, <1>4, DsrsKept, SameThreadInv DEF ghost

-----------------------------------------------------------------------------
(* Interrupts *)

\* post_dsr() queues an object that had no count, and counts.
LEMMA PostFacts ==
    ASSUME Inv, NEW i \in Intr, post_dsr(i),
           owed' = [owed EXCEPT ![i] = @ + 1], UNCHANGED <<intr, count, next_dsr>>
    PROVE  /\ dsr_list' \in Seq(Intr)
           /\ dsr_count' \in [Intr -> Nat]
           /\ owed' \in [Intr -> Nat]
           /\ ListsOK' /\ CountsOK'
<1>1. /\ dsr_list \in Seq(Intr) /\ next_dsr \in Seq(Intr)
      /\ dsr_count \in [Intr -> Nat] /\ owed \in [Intr -> Nat] /\ count \in Nat
  BY DEF Inv, StateOK
<1>2. /\ dsr_count' = [dsr_count EXCEPT ![i] = dsr_count[i] + 1]
      /\ dsr_list' = IF dsr_count[i] = 0 THEN Append(dsr_list, i) ELSE dsr_list
  BY DEF post_dsr
<1>3. dsr_list' \in Seq(Intr) /\ dsr_count' \in [Intr -> Nat] /\ owed' \in [Intr -> Nat]
  BY <1>1, <1>2
<1>4. CountsOK'
  <2> SUFFICES ASSUME NEW j \in Intr
               PROVE  owed'[j] = dsr_count'[j] + (IF intr = j THEN count ELSE 0)
    BY DEF CountsOK
  <2> DEFINE served == IF intr = j THEN count ELSE 0
  <2>1. /\ owed[j] \in Nat /\ dsr_count[j] \in Nat /\ served \in Nat
        /\ owed[j] = dsr_count[j] + served
    BY <1>1 DEF Inv, CountsOK
  <2> HIDE DEF served
  <2>2. CASE j = i
    <3>1. owed'[j] = owed[j] + 1 /\ dsr_count'[j] = dsr_count[j] + 1
      BY <1>1, <1>2, <2>2
    <3> QED BY <2>1, <3>1 DEF served
  <2>3. CASE j # i
    <3>1. owed'[j] = owed[j] /\ dsr_count'[j] = dsr_count[j]
      BY <1>1, <1>2, <2>3
    <3> QED BY <2>1, <3>1 DEF served
  <2> QED BY <2>2, <2>3
<1>5. ListsOK'
  <2>1. CASE dsr_count[i] = 0
    <3>1. /\ Len(dsr_list') = Len(dsr_list) + 1
          /\ Len(dsr_list) \in Nat
          /\ \A n \in 1..Len(dsr_list) : dsr_list'[n] = dsr_list[n]
          /\ dsr_list'[Len(dsr_list) + 1] = i
      BY <1>1, <1>2, <2>1
    <3>2. /\ \A n \in 1..Len(dsr_list) : dsr_list[n] # i
          /\ \A n \in 1..Len(next_dsr) : next_dsr[n] # i
      <4>1. \A j \in Intr : dsr_count[j] > 0 <=>
                \/ \E n \in 1..Len(dsr_list) : dsr_list[n] = j
                \/ \E n \in 1..Len(next_dsr) : next_dsr[n] = j
        BY DEF Inv, ListsOK
      <4>2. ~(dsr_count[i] > 0)
        BY <2>1
      <4> QED BY <4>1, <4>2
    <3>3. ASSUME NEW m \in 1..Len(dsr_list'), NEW n \in 1..Len(dsr_list'),
                 dsr_list'[m] = dsr_list'[n]
          PROVE  m = n
      <4>1. \A a, b \in 1..Len(dsr_list) : dsr_list[a] = dsr_list[b] => a = b
        BY DEF Inv, ListsOK
      <4>2. CASE m = Len(dsr_list) + 1
        BY <3>1, <3>2, <3>3, <4>2
      <4>3. CASE n = Len(dsr_list) + 1
        BY <3>1, <3>2, <3>3, <4>3
      <4>4. CASE m \in 1..Len(dsr_list) /\ n \in 1..Len(dsr_list)
        BY <3>1, <3>3, <4>1, <4>4
      <4> QED BY <3>1, <4>2, <4>3, <4>4
    <3>4. \A m \in 1..Len(dsr_list'), n \in 1..Len(next_dsr) : dsr_list'[m] # next_dsr[n]
      BY <3>1, <3>2 DEF Inv, ListsOK
    <3>5. ASSUME NEW j \in Intr
          PROVE  dsr_count'[j] > 0 <=>
                    \/ \E n \in 1..Len(dsr_list') : dsr_list'[n] = j
                    \/ \E n \in 1..Len(next_dsr) : next_dsr[n] = j
      <4>1. CASE j = i
        <5>1. dsr_count'[j] > 0 /\ Len(dsr_list) + 1 \in 1..Len(dsr_list')
          BY <1>1, <1>2, <3>1, <4>1
        <5> QED BY <3>1, <4>1, <5>1
      <4>2. CASE j # i
        <5>1. dsr_count'[j] = dsr_count[j]
          BY <1>1, <1>2, <4>2
        <5>2. (\E n \in 1..Len(dsr_list') : dsr_list'[n] = j)
                <=> \E n \in 1..Len(dsr_list) : dsr_list[n] = j
          BY <3>1, <4>2
        <5> QED BY <5>1, <5>2 DEF Inv, ListsOK
      <4> QED BY <4>1, <4>2
    <3> QED BY <3>3, <3>4, <3>5 DEF Inv, ListsOK
  <2>2. CASE dsr_count[i] # 0
    <3>1. dsr_list' = dsr_list /\ \A j \in Intr : dsr_count'[j] > 0 <=> dsr_count[j] > 0
      BY <1>1, <1>2, <2>2
    <3> QED BY <3>1 DEF Inv, ListsOK
  <2> QED BY <2>1, <2>2
<1> QED BY <1>3, <1>4, <1>5

\* An interrupt finds the lock at 0 only in thread code, or in a call of
\* unlock_inner() that was not made by another interrupt.
LEMMA ZeroFacts ==
    ASSUME Inv, InterruptsEnabled, sched_lock = 0
    PROVE  \/ Len(me) = 0 /\ held[current_thread] = 0
           \/ /\ Len(me) = 1 /\ me[1].at = "zeroed" /\ ~me[1].isr
              /\ held[current_thread] = 0
<1>1. /\ me \in Seq(Frame) /\ Len(me) \in Nat /\ Len(me) <= 2
      /\ \A n \in 1..Len(me) : me[n] \in Frame /\ FrameOK(me[n])
      /\ Len(me) = 2 => me[2].isr
      /\ Len(me) > 0 => held[current_thread] = me[1].new_lock
  <2>1. me \in Seq(Frame) /\ Len(me) \in Nat
    BY DEF Inv, StateOK, me
  <2>2. \A n \in 1..Len(me) : me[n] \in Frame
    BY <2>1, ElementOfSeq
  <2> QED BY <2>1, <2>2 DEF Inv, StateOK, StackOK, me
<1>2. CASE Len(me) = 0
  BY <1>2 DEF Inv, LockOK
<1>3. CASE Len(me) # 0
  <2> DEFINE top == me[Len(me)]
  <2>1. top \in Frame /\ FrameOK(top)
    BY <1>1, <1>3
  <2>2. top.at = "zeroed"
    <3>1. Len(me) > 0
      BY <1>1, <1>3
    <3>2. /\ top.at \in {"entry", "switched"} => sched_lock > 0
          /\ top.at \in {"dsrs", "resched"} =>
                IF top.new_lock = 0 THEN sched_lock = 1
                ELSE sched_lock \in {top.new_lock, top.new_lock + 1}
          /\ top.at = "run" => sched_lock = 1
      BY <3>1 DEF Inv, LockOK
    <3>3. top.new_lock \in Nat /\ top.at \in Place
      BY <2>1 DEF Frame
    <3> HIDE DEF top
    <3> QED BY <3>2, <3>3 DEF Place
  <2>3. ~top.isr
    <3>1. ~InThreadCode /\ Last(me) = top
      BY <1>1, <1>3 DEF InThreadCode, Last
    <3> HIDE DEF top
    <3> QED BY <2>2, <3>1 DEF InterruptsEnabled
  <2>4. Len(me) = 1
    <3>1. Len(me) # 2
      BY <1>1, <2>3
    <3>2. \A n \in Nat : n <= 2 /\ n # 0 /\ n # 2 => n = 1
      OBVIOUS
    <3> QED BY <1>1, <1>3, <3>1, <3>2
  <2>5. me[1].new_lock = 0
    BY <2>1, <2>2, <2>4 DEF FrameOK
  <2> QED BY <1>1, <2>2, <2>3, <2>4, <2>5
<1> QED BY <1>2, <1>3

\* An interrupt posts its DSR and enters the end of its handling.
LEMMA InterruptInv == ASSUME Inv, NEW i \in Intr, Interrupt(i) PROVE Inv'
<1>1. /\ InterruptsEnabled /\ interrupt_end
      /\ UNCHANGED <<current_thread, need_reschedule, ready, intr, count, next_dsr, held>>
  BY DEF Interrupt
<1>2. StateOK
  BY DEF Inv
<1>3. /\ dsr_list' \in Seq(Intr)
      /\ dsr_count' \in [Intr -> Nat]
      /\ owed' \in [Intr -> Nat]
      /\ ListsOK' /\ CountsOK'
  <2>1. CASE owed' = [owed EXCEPT ![i] = @ + 1] /\ post_dsr(i)
    BY <1>1, <2>1, PostFacts
  <2>2. CASE UNCHANGED <<owed, dsr_list, dsr_count>>
    BY <1>1, <1>2, <2>2, DsrsKept DEF StateOK, dsrs
  <2> QED BY <2>1, <2>2 DEF Interrupt
<1>4. CASE sched_lock = 0
  <2> DEFINE f == Enter(0, TRUE)
  <2>1. sched_lock' = 1 /\ Call(f)
    BY <1>1, <1>4 DEF interrupt_end
  <2>2. f \in Frame /\ f.at = "dsrs" /\ f.new_lock = 0 /\ f.isr /\ FrameOK(f)
    BY DEF Enter, Frame, Place, FrameOK
  <2> HIDE DEF f
  <2>3. /\ stack' \in [AllThread -> Seq(Frame)]
        /\ \A t \in AllThread \ {current_thread} : stack'[t] = stack[t]
        /\ Len(me) \in Nat
        /\ Len(stack'[current_thread]) = Len(me) + 1
        /\ \A n \in 1..Len(me) : stack'[current_thread][n] = me[n]
        /\ stack'[current_thread][Len(me) + 1] = f
    BY <1>2, <2>1, <2>2, CallFacts
  <2>4. StateOK'
    BY <1>1, <1>2, <1>3, <2>1, <2>3 DEF StateOK
  <2>5. StackOK(current_thread)' /\ LockOK'
    <3>1. CASE Len(me) = 0 /\ held[current_thread] = 0
      <4>1. Len(stack'[current_thread]) = 1 /\ stack'[current_thread][1] = f
        BY <2>3, <3>1
      <4> QED BY <1>1, <2>1, <2>2, <3>1, <4>1 DEF StackOK, LockOK, me
    <3>2. CASE /\ Len(me) = 1 /\ me[1].at = "zeroed" /\ ~me[1].isr
               /\ held[current_thread] = 0
      <4>1. /\ Len(stack'[current_thread]) = 2 
            /\ stack'[current_thread][1] = me[1]
            /\ stack'[current_thread][2] = f
        BY <2>3, <3>2
      <4>2. FrameOK(me[1]) /\ me[1].new_lock = 0
        BY <1>2, <3>2 DEF Inv, StackOK, me, StateOK, FrameOK
      <4>3. \A n \in 1..2 : n = 1 \/ n = 2
        OBVIOUS
      <4> QED BY <1>1, <2>1, <2>2, <3>2, <4>1, <4>2, <4>3 DEF StackOK, LockOK, me
    <3> QED BY <1>1, <1>4, <3>1, <3>2, ZeroFacts
  <2>6. RunOK'
    <3>1. ~InCall("run")
      <4>1. CASE Len(me) = 0
        BY <1>2, <4>1 DEF InCall, StateOK, me
      <4>2. CASE Len(me) = 1 /\ me[1].at = "zeroed"
        BY <4>2 DEF InCall, Last
      <4> QED BY <1>1, <1>4, <4>1, <4>2, ZeroFacts
    <3>2. Last(me)' = f
      BY <1>1, <2>3 DEF Last, me
    <3> QED BY <1>1, <2>2, <3>1, <3>2 DEF Inv, RunOK, InCall
  <2> QED BY <1>1, <1>3, <2>3, <2>4, <2>5, <2>6, SameThreadInv
<1>5. CASE sched_lock # 0
  <2>1. UNCHANGED <<sched_lock, stack>>
    BY <1>1, <1>5 DEF interrupt_end
  <2>2. StateOK'
    BY <1>1, <1>2, <1>3, <2>1 DEF StateOK
  <2>3. StackOK(current_thread)' /\ RunOK'
    BY <1>1, <1>2, <2>1 DEF Inv, StateOK, StackOK, RunOK, InCall, me
  <2>4. LockOK'
    BY <1>1, <1>5, <2>1 DEF Inv, LockOK, me
  <2> QED BY <1>1, <1>3, <2>1, <2>2, <2>3, <2>4, SameThreadInv
<1> QED BY <1>4, <1>5

-----------------------------------------------------------------------------
(* unlock_inner() *)

\* A step inside a call keeps the shape of the stack.
LEMMA GotoStack ==
    ASSUME Inv, NEW from, InCall(from), NEW place \in Place \ {"entry"}, Goto(place),
           place \in {"run", "zeroed"} => me[Len(me)].new_lock = 0,
           UNCHANGED held
    PROVE  /\ stack' \in [AllThread -> Seq(Frame)]
           /\ \A t \in AllThread \ {current_thread} : stack'[t] = stack[t]
           /\ \A t \in AllThread : StackOK(t)'
           /\ Len(me) > 0
           /\ Len(stack'[current_thread]) = Len(me)
           /\ stack'[current_thread] # <<>>
           /\ stack'[current_thread][Len(me)].at = place
           /\ stack'[current_thread][Len(me)].new_lock = me[Len(me)].new_lock
<1>1. StateOK /\ me # <<>> /\ Len(me) \in {1, 2}
      /\ FrameOK(me[Len(me)]) /\ place \in Place
  BY TopFacts DEF Inv
<1> DEFINE s == stack'[current_thread]
<1>2. /\ stack' \in [AllThread -> Seq(Frame)]
      /\ \A t \in AllThread \ {current_thread} : stack'[t] = stack[t]
      /\ Len(s) = Len(me)
      /\ \A n \in 1..(Len(me) - 1) : s[n] = me[n]
      /\ s[Len(me)].at = place
      /\ s[Len(me)].new_lock = me[Len(me)].new_lock
      /\ s[Len(me)].isr = me[Len(me)].isr
  BY <1>1, GotoFacts
<1>3. FrameOK(s[Len(me)])
  BY <1>1, <1>2 DEF FrameOK
<1>4. /\ \A n \in 1..Len(me) : FrameOK(me[n])
      /\ Len(me) = 2 => me[1].at = "zeroed" /\ ~me[1].isr /\ me[2].isr
      /\ Len(me) > 0 => held[current_thread] = me[1].new_lock
  BY <1>1 DEF Inv, StackOK, StateOK, me
<1> HIDE DEF s
<1>5. ASSUME NEW t \in AllThread PROVE StackOK(t)'
  <2>1. CASE t # current_thread
    BY <1>2, <2>1 DEF Inv, StackOK
  <2>2. CASE t = current_thread
    <3>1. s = stack'[t] /\ held'[t] = held[current_thread]
      BY <2>2 DEF s
    <3>2. CASE Len(me) = 1
      <4>1. /\ Len(s) = 1 /\ FrameOK(s[1])
            /\ held[current_thread] = s[1].new_lock
        BY <1>2, <1>3, <1>4, <3>2
      <4> QED BY <3>1, <4>1 DEF StackOK
    <3>3. CASE Len(me) = 2
      <4>1. s[1] = me[1] /\ FrameOK(me[1]) /\ \A n \in 1..2 : n = 1 \/ n = 2
        BY <1>2, <1>4, <3>3
      <4>2. /\ Len(s) = 2 /\ FrameOK(s[1]) /\ FrameOK(s[2])
            /\ s[1].at = "zeroed" /\ ~s[1].isr /\ s[2].isr
            /\ held[current_thread] = s[1].new_lock
        BY <1>2, <1>3, <1>4, <3>3, <4>1
      <4> QED BY <3>1, <4>1, <4>2 DEF StackOK
    <3> QED BY <1>1, <3>2, <3>3
  <2> QED BY <2>1, <2>2
<1> QED BY <1>1, <1>2, <1>5 DEF s

\* Such a step that leaves the lists alone and is not among those that run
\* DSRs keeps the invariant if the lock is right at the place reached.
LEMMA GotoInv ==
    ASSUME Inv, NEW from, InCall(from), from # "run",
           NEW place \in Place \ {"entry", "run"}, Goto(place),
           place = "zeroed" => me[Len(me)].new_lock = 0,
           sched_lock' \in Nat,
           place = "switched" => sched_lock' > 0,
           place \in {"dsrs", "resched"} =>
               IF me[Len(me)].new_lock = 0 THEN sched_lock' = 1
               ELSE sched_lock' \in {me[Len(me)].new_lock, me[Len(me)].new_lock + 1},
           place = "zeroed" => sched_lock' = 0,
           UNCHANGED <<current_thread, ready, dsrs, ghost>>
    PROVE  Inv'
<1>1. /\ UNCHANGED <<current_thread, ready, held, owed, dsr_list, dsr_count,
                     intr, count, next_dsr, dsrs>>
      /\ place \in Place \ {"entry"} /\ place \notin {"run", "entry"}
  BY DEF dsrs, ghost
<1> DEFINE s == stack'[current_thread]
<1>2. /\ stack' \in [AllThread -> Seq(Frame)]
      /\ \A t \in AllThread \ {current_thread} : stack'[t] = stack[t]
      /\ \A t \in AllThread : StackOK(t)'
      /\ Len(s) = Len(me) /\ Len(me) > 0 /\ s # <<>>
      /\ s[Len(me)].at = place
      /\ s[Len(me)].new_lock = me[Len(me)].new_lock
  BY <1>1, GotoStack
<1>3. StateOK'
  BY <1>1, <1>2 DEF Inv, StateOK
<1>4. me' = s
  BY <1>1 DEF me
<1>5. Len(me) # 0
  BY TopFacts
<1> HIDE DEF s
<1>6. LockOK'
  BY <1>1, <1>2, <1>4, <1>5 DEF LockOK
<1>7. RunOK'
  <2>1. ~InCall("run")
    BY TopFacts DEF InCall
  <2>2. ~InCall("run")'
    BY <1>1, <1>2, <1>4 DEF InCall, Last
  <2> QED BY <1>1, <2>1, <2>2 DEF Inv, RunOK
<1>8. StackOK(current_thread)'
  BY <1>1, <1>2 DEF Inv, StateOK, StackOK
<1> QED BY <1>1, <1>2, <1>3, <1>6, <1>7, <1>8, DsrsKept, SameThreadInv

\* Fetching the head of the list that is being worked off.
LEMMA FetchFacts ==
    ASSUME StateOK, ListsOK, NEW list \in Seq(Intr), list # <<>>, Fetch(list),
           \/ list = next_dsr /\ dsr_list' = dsr_list
           \/ list = dsr_list /\ next_dsr = <<>> /\ dsr_list' = <<>>
    PROVE  /\ intr' \in Intr
           /\ count' = dsr_count[intr']
           /\ dsr_count' = [dsr_count EXCEPT ![intr'] = 0]
           /\ next_dsr' \in Seq(Intr)
           /\ ListsOK'
<1>1. /\ intr' = Head(list) /\ Head(list) = list[1] /\ list[1] \in Intr
      /\ Len(list) \in Nat \ {0}
      /\ next_dsr' = Tail(list) /\ Tail(list) \in Seq(Intr)
      /\ Len(Tail(list)) = Len(list) - 1
      /\ \A n \in 1..(Len(list) - 1) : Tail(list)[n] = list[n + 1]
  BY DEF Fetch
<1>2. count' = dsr_count[intr'] /\ dsr_count' = [dsr_count EXCEPT ![intr'] = 0]
  BY DEF Fetch
<1> DEFINE i == intr'
           rest == next_dsr'
<1>3. /\ i \in Intr /\ i = list[1]
      /\ Len(list) \in Nat \ {0} /\ 1 \in 1..Len(list)
      /\ rest \in Seq(Intr) /\ Len(rest) = Len(list) - 1
      /\ \A n \in 1..Len(rest) : rest[n] = list[n + 1] /\ n + 1 \in 1..Len(list)
  BY <1>1
<1>4. /\ Len(dsr_list) \in Nat /\ Len(next_dsr) \in Nat
      /\ dsr_count \in [Intr -> Nat]
  BY DEF StateOK
<1>5. \A m, n \in 1..Len(list) : list[m] = list[n] => m = n
  BY DEF ListsOK
<1> HIDE DEF i, rest
<1>6. \A n \in 1..Len(rest) : rest[n] # i
  <2> SUFFICES ASSUME NEW n \in 1..Len(rest), rest[n] = i PROVE FALSE
    OBVIOUS
  <2>1. n + 1 # 1 /\ n \in Nat
    BY <1>3
  <2> QED BY <1>3, <1>5, <2>1
<1>7. \A m, n \in 1..Len(rest) : rest[m] = rest[n] => m = n
  <2> SUFFICES ASSUME NEW m \in 1..Len(rest), NEW n \in 1..Len(rest), rest[m] = rest[n]
               PROVE  m = n
    OBVIOUS
  <2>1. m + 1 = n + 1
    BY <1>3, <1>5
  <2> QED BY <1>3, <2>1
<1>8. \A j \in Intr : j # i =>
          ((\E n \in 1..Len(list) : list[n] = j) <=> \E n \in 1..Len(rest) : rest[n] = j)
  <2> SUFFICES ASSUME NEW j \in Intr, j # i
               PROVE  (\E n \in 1..Len(list) : list[n] = j)
                         <=> \E n \in 1..Len(rest) : rest[n] = j
    OBVIOUS
  <2>1. ASSUME NEW n \in 1..Len(list), list[n] = j
        PROVE  \E m \in 1..Len(rest) : rest[m] = j
    <3>1. n # 1
      BY <1>3, <2>1
    <3>2. n - 1 \in 1..Len(rest) /\ (n - 1) + 1 = n
      BY <1>3, <3>1
    <3> QED BY <1>3, <2>1, <3>2
  <2>2. ASSUME NEW n \in 1..Len(rest), rest[n] = j
        PROVE  \E m \in 1..Len(list) : list[m] = j
    BY <1>3, <2>2
  <2> QED BY <2>1, <2>2
<1>9. /\ dsr_count'[i] = 0
      /\ \A j \in Intr : j # i => dsr_count'[j] = dsr_count[j]
  BY <1>2, <1>3, <1>4 DEF i
<1>10. CASE list = next_dsr /\ dsr_list' = dsr_list
  <2>1. \A m \in 1..Len(dsr_list), n \in 1..Len(rest) : dsr_list[m] # rest[n]
    BY <1>3, <1>10 DEF ListsOK
  <2>2. \A m \in 1..Len(dsr_list) : dsr_list[m] # i
    BY <1>3, <1>10 DEF ListsOK
  <2>3. ASSUME NEW j \in Intr
        PROVE  dsr_count'[j] > 0 <=> \/ \E n \in 1..Len(dsr_list) : dsr_list[n] = j
                                     \/ \E n \in 1..Len(rest) : rest[n] = j
    <3>1. CASE j = i
      BY <1>6, <1>9, <2>2, <3>1
    <3>2. CASE j # i
      BY <1>8, <1>9, <1>10, <3>2 DEF ListsOK
    <3> QED BY <3>1, <3>2
  <2>4. ListsOK'
    BY <1>7, <1>10, <2>1, <2>3 DEF ListsOK, rest
  <2> QED BY <1>2, <1>3, <2>4 DEF i, rest
<1>11. CASE list = dsr_list /\ next_dsr = <<>> /\ dsr_list' = <<>>
  <2>1. Len(dsr_list') = 0 /\ Len(next_dsr) = 0
    BY <1>11
  <2>2. \A n : n \notin 1..0
    OBVIOUS
  <2>3. ASSUME NEW j \in Intr
        PROVE  dsr_count'[j] > 0 <=> \E n \in 1..Len(rest) : rest[n] = j
    <3>1. CASE j = i
      BY <1>6, <1>9, <3>1
    <3>2. CASE j # i
      BY <1>8, <1>9, <1>11, <2>1, <2>2, <3>2 DEF ListsOK
    <3> QED BY <3>1, <3>2
  <2>4. ListsOK'
    BY <1>7, <2>1, <2>2, <2>3 DEF ListsOK, rest
  <2> QED BY <1>2, <1>3, <2>4 DEF i, rest
<1> QED BY <1>10, <1>11

\* The loop's head.
LEMMA CallDSRsInv == ASSUME Inv, CallDSRs PROVE Inv'
<1>1. /\ InCall("dsrs") /\ UNCHANGED <<sched, ghost>>
      /\ UNCHANGED <<sched_lock, current_thread, ready, held, owed>>
      /\ sched_lock \in Nat
  BY DEF CallDSRs, sched, ghost, Inv, StateOK
<1>2. /\ Last(me) = me[Len(me)] /\ Len(me) # 0
      /\ IF me[Len(me)].new_lock = 0 THEN sched_lock = 1
         ELSE sched_lock \in {me[Len(me)].new_lock, me[Len(me)].new_lock + 1}
      /\ ~InCall("run")
  <2>1. Len(me) > 0 /\ Len(me) # 0 /\ me[Len(me)].at = "dsrs" /\ Last(me) = me[Len(me)]
    BY <1>1, TopFacts
  <2> QED BY <1>1, <2>1 DEF Inv, LockOK, InCall
<1>3. CASE me[Len(me)].new_lock = 0 /\ dsr_list # <<>>
  <2>1. Goto("run") /\ dsr_list' = <<>> /\ Fetch(dsr_list)
    BY <1>2, <1>3 DEF CallDSRs
  <2> DEFINE s == stack'[current_thread]
  <2>2. /\ stack' \in [AllThread -> Seq(Frame)]
        /\ \A t \in AllThread \ {current_thread} : stack'[t] = stack[t]
        /\ \A t \in AllThread : StackOK(t)'
        /\ Len(s) = Len(me) /\ Len(me) > 0 /\ s # <<>>
        /\ s[Len(me)].at = "run"
        /\ s[Len(me)].new_lock = me[Len(me)].new_lock
    <3>1. "run" \in Place \ {"entry"}
      BY DEF Place
    <3> QED BY <1>1, <1>3, <2>1, <3>1, GotoStack
  <2>3. next_dsr = <<>> /\ count = 0 /\ intr = NoIntr
    BY <1>2 DEF Inv, RunOK
  <2>4. /\ intr' \in Intr
        /\ count' = dsr_count[intr']
        /\ dsr_count' = [dsr_count EXCEPT ![intr'] = 0]
        /\ next_dsr' \in Seq(Intr)
        /\ ListsOK'
    BY <1>3, <2>1, <2>3, FetchFacts DEF Inv, StateOK
  <2>5. StateOK'
    BY <1>1, <2>1, <2>2, <2>4 DEF Inv, StateOK
  <2>6. me' = s
    BY <1>1 DEF me
  <2>7. StackOK(current_thread)'
    BY <1>1, <2>2 DEF Inv, StateOK, StackOK
  <2> HIDE DEF s
  <2>8. LockOK' /\ RunOK'
    BY <1>1, <1>2, <1>3, <2>2, <2>4, <2>6 DEF LockOK, RunOK, InCall, Last
  <2>9. CountsOK'
    <3> SUFFICES ASSUME NEW j \in Intr
                 PROVE  owed'[j] = dsr_count'[j] + (IF intr' = j THEN count' ELSE 0)
      BY DEF CountsOK
    <3>1. dsr_count[j] \in Nat /\ owed[j] = dsr_count[j] + 0
      BY <2>3 DEF Inv, CountsOK, StateOK
    <3>2. dsr_count'[j] = IF intr' = j THEN 0 ELSE dsr_count[j]
      BY <2>4 DEF Inv, StateOK
    <3> QED BY <1>1, <2>4, <3>1, <3>2
  <2> QED BY <1>1, <2>2, <2>4, <2>5, <2>7, <2>8, <2>9, SameThreadInv
<1>4. CASE ~(me[Len(me)].new_lock = 0 /\ dsr_list # <<>>)
  <2>1. Goto("resched") /\ UNCHANGED dsrs
    BY <1>2, <1>4 DEF CallDSRs
  <2>2. "resched" \in Place \ {"entry", "run"}
    BY DEF Place
  <2> QED BY <1>1, <1>2, <2>1, <2>2, GotoInv
<1> QED BY <1>3, <1>4

\* A DSR has returned: what it served is no longer owed.
LEMMA DSRReturnsInv == ASSUME Inv, DSRReturns PROVE Inv'
<1>1. /\ InCall("run")
      /\ owed' = [owed EXCEPT ![intr] = owed[intr] - count]
      /\ UNCHANGED <<sched_lock, current_thread, dsr_list, held>>
  BY DEF DSRReturns
<1>2. ready' \subseteq AllThread
  BY DEF DSRReturns, ReadyAfter, Inv, StateOK, AllThread
<1>3. /\ intr \in Intr /\ count \in Nat /\ sched_lock = 1
      /\ Len(me) > 0 /\ Len(me) # 0 /\ me[Len(me)].new_lock = 0
      /\ me[Len(me)].at = "run" /\ me # <<>> /\ Last(me) = me[Len(me)]
  <2>1. Len(me) > 0 /\ Len(me) # 0 /\ me[Len(me)].at = "run"
        /\ me # <<>> /\ Last(me) = me[Len(me)]
    BY <1>1, TopFacts
  <2>2. me[Len(me)].new_lock = 0
    BY <1>1, TopFacts DEF FrameOK
  <2> QED BY <1>1, <2>1, <2>2 DEF Inv, RunOK, LockOK, StateOK
<1>4. /\ owed' \in [Intr -> Nat]
      /\ \A j \in Intr : owed'[j] = dsr_count[j]
      /\ dsr_count \in [Intr -> Nat]
  <2>1. owed \in [Intr -> Nat] /\ dsr_count \in [Intr -> Nat]
    BY DEF Inv, StateOK
  <2>2. owed[intr] = dsr_count[intr] + count
    BY <1>3 DEF Inv, CountsOK
  <2>3. owed[intr] - count = dsr_count[intr]
    BY <1>3, <2>1, <2>2
  <2>4. \A j \in Intr : j # intr => owed[j] = dsr_count[j]
    <3> SUFFICES ASSUME NEW j \in Intr, j # intr PROVE owed[j] = dsr_count[j]
      OBVIOUS
    <3>1. owed[j] = dsr_count[j] + 0
      BY DEF Inv, CountsOK
    <3> QED BY <2>1, <3>1
  <2> QED BY <1>1, <1>3, <2>1, <2>3, <2>4
<1>5. CASE next_dsr # <<>>
  <2>1. Fetch(next_dsr) /\ UNCHANGED stack
    BY <1>5 DEF DSRReturns
  <2>2. /\ intr' \in Intr
        /\ count' = dsr_count[intr']
        /\ dsr_count' = [dsr_count EXCEPT ![intr'] = 0]
        /\ next_dsr' \in Seq(Intr)
        /\ ListsOK'
    BY <1>1, <1>5, <2>1, FetchFacts DEF Inv, StateOK
  <2>3. StateOK'
    BY <1>1, <1>2, <1>4, <2>1, <2>2 DEF Inv, StateOK
  <2>4. me' = me /\ StackOK(current_thread)'
    BY <1>1, <2>1 DEF me, Inv, StateOK, StackOK
  <2>5. LockOK' /\ RunOK'
    BY <1>1, <1>3, <2>2, <2>4 DEF LockOK, RunOK, InCall
  <2>6. CountsOK'
    <3> SUFFICES ASSUME NEW j \in Intr
                 PROVE  owed'[j] = dsr_count'[j] + (IF intr' = j THEN count' ELSE 0)
      BY DEF CountsOK
    <3>1. dsr_count[j] \in Nat /\ owed'[j] = dsr_count[j]
      BY <1>4
    <3>2. dsr_count'[j] = IF intr' = j THEN 0 ELSE dsr_count[j]
      BY <1>4, <2>2
    <3> QED BY <2>2, <3>1, <3>2
  <2> QED BY <1>1, <2>1, <2>2, <2>3, <2>4, <2>5, <2>6, SameThreadInv
<1>6. CASE next_dsr = <<>>
  <2>1. /\ Goto("resched") /\ intr' = NoIntr /\ count' = 0
        /\ UNCHANGED <<next_dsr, dsr_count>>
    BY <1>6 DEF DSRReturns
  <2> DEFINE s == stack'[current_thread]
  <2>2. /\ stack' \in [AllThread -> Seq(Frame)]
        /\ \A t \in AllThread \ {current_thread} : stack'[t] = stack[t]
        /\ \A t \in AllThread : StackOK(t)'
        /\ Len(s) = Len(me) /\ s # <<>>
        /\ s[Len(me)].at = "resched"
        /\ s[Len(me)].new_lock = 0
    <3>1. "resched" \in Place \ {"entry"}
      BY DEF Place
    <3> QED BY <1>1, <1>3, <2>1, <3>1, GotoStack
  <2>3. StateOK'
    BY <1>1, <1>2, <1>4, <2>1, <2>2 DEF Inv, StateOK
  <2>4. me' = s /\ StackOK(current_thread)'
    BY <1>1, <2>2 DEF me, Inv, StateOK, StackOK
  <2> HIDE DEF s
  <2>5. LockOK'
    BY <1>1, <1>3, <2>2, <2>4 DEF LockOK
  <2>6. RunOK'
    BY <1>6, <2>1, <2>2, <2>4 DEF RunOK, InCall, Last
  <2>7. ListsOK'
    BY <1>1, <2>1 DEF Inv, ListsOK
  <2>8. CountsOK'
    <3> SUFFICES ASSUME NEW j \in Intr
                 PROVE  owed'[j] = dsr_count'[j] + (IF intr' = j THEN count' ELSE 0)
      BY DEF CountsOK
    <3>1. dsr_count[j] \in Nat /\ owed'[j] = dsr_count[j] /\ dsr_count'[j] = dsr_count[j]
      BY <1>4, <2>1
    <3> QED BY <2>1, <3>1
  <2> QED BY <1>1, <2>2, <2>3, <2>4, <2>5, <2>6, <2>7, <2>8, SameThreadInv
<1> QED BY <1>5, <1>6

\* The context switch: the thread that goes on was at the same place of its
\* own call, or had not begun.
LEMMA SwitchInv == ASSUME Inv, Switch PROVE Inv'
<1>1. /\ InCall("resched") /\ Goto("switched")
      /\ UNCHANGED <<sched_lock, ready, dsrs, held, owed>>
      /\ UNCHANGED <<dsr_list, dsr_count, intr, count, next_dsr>>
  BY DEF Switch, ghost, dsrs
<1>2. current_thread' \in AllThread
  BY DEF Switch, Inv, StateOK
<1>3. /\ Len(me) > 0 /\ me[Len(me)].new_lock \in Nat /\ me[Len(me)].at = "resched"
      /\ me # <<>> /\ Last(me) = me[Len(me)]
  BY <1>1, TopFacts DEF Frame
<1>4. sched_lock > 0 /\ sched_lock \in Nat
  <2>1. /\ sched_lock \in Nat
        /\ IF me[Len(me)].new_lock = 0 THEN sched_lock = 1
           ELSE sched_lock \in {me[Len(me)].new_lock, me[Len(me)].new_lock + 1}
    BY <1>3 DEF Inv, LockOK, StateOK
  <2> QED BY <1>3, <2>1
<1>5. /\ stack' \in [AllThread -> Seq(Frame)]
      /\ \A t \in AllThread \ {current_thread} : stack'[t] = stack[t]
      /\ \A t \in AllThread : StackOK(t)'
      /\ Len(stack'[current_thread]) = Len(me)
      /\ stack'[current_thread][Len(me)].at = "switched"
  <2>1. "switched" \in Place \ {"entry"}
    BY DEF Place
  <2> QED BY <1>1, <2>1, GotoStack
<1>6. StateOK'
  BY <1>1, <1>2, <1>5 DEF Inv, StateOK
<1>7. ASSUME NEW t \in AllThread PROVE SwitchedOut(t)'
  <2>1. CASE t = current_thread
    BY <1>3, <1>5, <2>1 DEF SwitchedOut
  <2>2. CASE t # current_thread
    BY <1>5, <2>2 DEF Inv, SwitchedOut
  <2> QED BY <2>1, <2>2
<1>8. /\ Len(me') > 0 /\ Len(me') # 0
      /\ me'[Len(me')].at \in {"entry", "switched"}
  <2>1. me' = stack'[current_thread']
    BY DEF me
  <2>2. Len(me') \in Nat
    BY <1>2, <1>5, <2>1
  <2> QED BY <1>2, <1>7, <2>1, <2>2 DEF SwitchedOut
<1>9. LockOK'
  BY <1>1, <1>4, <1>8 DEF LockOK
<1>10. RunOK'
  <2>1. ~InCall("run") /\ ~InCall("run")'
    BY <1>3, <1>8 DEF InCall, Last
  <2> QED BY <1>1, <2>1 DEF Inv, RunOK
<1>11. ListsOK' /\ CountsOK'
  BY <1>1, DsrsKept
<1>12. \A t \in AllThread : StackOK(t)' /\ (t # current_thread' => SwitchedOut(t)')
  BY <1>5, <1>7
<1> QED BY <1>6, <1>9, <1>10, <1>11, <1>12 DEF Inv

\* The innermost call returns: to thread code with the lock the thread holds,
\* or to the call it interrupted, which has zeroed the lock.
LEMMA ReturnInv ==
    ASSUME Inv, NEW from, InCall(from), from # "run", Return, sched_lock' \in Nat,
           Len(me) = 1 => sched_lock' = held[current_thread]
                          /\ (sched_lock' = 0 => dsr_list = <<>>),
           Len(me) = 2 => sched_lock' = 0,
           UNCHANGED <<current_thread, ready, dsrs, ghost>>
    PROVE  Inv'
<1>1. UNCHANGED <<current_thread, ready, held, owed, dsr_list, dsr_count,
                  intr, count, next_dsr, dsrs>>
  BY DEF dsrs, ghost
<1>2. StateOK /\ me # <<>> /\ Len(me) \in {1, 2}
  BY TopFacts DEF Inv
<1> DEFINE s == stack'[current_thread]
<1>3. /\ stack' \in [AllThread -> Seq(Frame)]
      /\ \A t \in AllThread \ {current_thread} : stack'[t] = stack[t]
      /\ Len(s) = Len(me) - 1
      /\ \A n \in 1..(Len(me) - 1) : s[n] = me[n]
  BY <1>2, ReturnFacts
<1>4. StateOK' /\ me' = s /\ current_thread \in AllThread
  BY <1>1, <1>2, <1>3 DEF StateOK, me
<1>5. ~InCall("run")
  BY TopFacts DEF InCall
<1>6. StackOK(current_thread)' /\ LockOK' /\ ~InCall("run")'
  <2>1. CASE Len(me) = 1
    <3>1. Len(s) = 0 /\ s = <<>>
      BY <1>3, <1>4, <2>1
    <3> HIDE DEF s
    <3>2. LockOK' /\ ~InCall("run")'
      BY <1>1, <1>4, <2>1, <3>1 DEF LockOK, InCall
    <3>3. StackOK(current_thread)'
      BY <1>1, <3>1 DEF StackOK, s
    <3> QED BY <3>2, <3>3
  <2>2. CASE Len(me) = 2
    <3>1. /\ FrameOK(me[1]) /\ me[1].at = "zeroed"
          /\ held[current_thread] = me[1].new_lock
      BY <1>4, <2>2 DEF Inv, StackOK, me
    <3>2. Len(s) = 1 /\ s[1] = me[1]
      BY <1>3, <2>2
    <3> HIDE DEF s
    <3>3. LockOK' /\ ~InCall("run")'
      BY <1>1, <1>4, <2>2, <3>1, <3>2 DEF LockOK, InCall, Last
    <3>4. StackOK(current_thread)'
      BY <1>1, <3>1, <3>2 DEF StackOK, s
    <3> QED BY <3>3, <3>4
  <2> QED BY <1>2, <2>1, <2>2
<1>7. RunOK'
  BY <1>1, <1>5, <1>6 DEF Inv, RunOK
<1> QED BY <1>1, <1>3, <1>4, <1>6, <1>7, DsrsKept, SameThreadInv

\* set_sched_lock() at the end of unlock_inner().
LEMMA SetLockInv == ASSUME Inv, SetLock PROVE Inv'
<1>1. /\ InCall("switched")
      /\ UNCHANGED <<current_thread, ready, dsrs, ghost>>
  BY DEF SetLock
<1>2. /\ me[Len(me)].new_lock \in Nat /\ Last(me) = me[Len(me)]
      /\ Len(me) \in {1, 2} /\ FrameOK(me[Len(me)])
  BY <1>1, TopFacts DEF Frame
<1>3. sched_lock' = me[Len(me)].new_lock
  BY <1>2 DEF SetLock
<1>4. CASE me[Len(me)].new_lock = 0
  <2>1. Goto("zeroed") /\ "zeroed" \in Place \ {"entry", "run"}
    BY <1>2, <1>4 DEF SetLock, Place
  <2> QED BY <1>1, <1>2, <1>3, <1>4, <2>1, GotoInv
<1>5. CASE me[Len(me)].new_lock # 0
  <2>1. Return
    BY <1>2, <1>5 DEF SetLock
  <2>2. current_thread \in AllThread
    BY DEF Inv, StateOK
  <2>3. Len(me) # 2
    BY <1>2, <1>5, <2>2 DEF Inv, StackOK, FrameOK, me
  <2>4. Len(me) = 1 => held[current_thread] = me[1].new_lock
    BY <2>2 DEF Inv, StackOK, me
  <2> QED BY <1>1, <1>2, <1>3, <1>5, <2>1, <2>3, <2>4, ReturnInv
<1> QED BY <1>4, <1>5

\* The test for DSRs posted in between goes back or returns.
LEMMA TestAgainInv == ASSUME Inv, TestAgain PROVE Inv'
<1>1. /\ InCall("zeroed")
      /\ UNCHANGED <<current_thread, ready, dsrs, ghost>>
  BY DEF TestAgain
<1>2. /\ me[Len(me)].at = "zeroed" /\ FrameOK(me[Len(me)]) /\ Len(me) > 0
      /\ Len(me) \in {1, 2}
  BY <1>1, TopFacts
<1>3. me[Len(me)].new_lock = 0 /\ sched_lock = 0
  BY <1>2 DEF FrameOK, Inv, LockOK
<1>4. CASE dsr_list # <<>>
  <2>1. sched_lock' = 1 /\ Goto("dsrs") /\ "dsrs" \in Place \ {"entry", "run"}
    BY <1>3, <1>4 DEF TestAgain, Place
  <2> QED BY <1>1, <1>3, <2>1, GotoInv
<1>5. CASE dsr_list = <<>>
  <2>1. sched_lock' = 0 /\ Return
    BY <1>3, <1>5 DEF TestAgain
  <2>2. Len(me) = 1 => held[current_thread] = 0
    <3>1. Len(me) > 0 => held[current_thread] = me[1].new_lock
      BY DEF Inv, StateOK, StackOK, me
    <3> QED BY <1>3, <3>1
  <2> QED BY <1>1, <1>5, <2>1, <2>2, ReturnInv
<1> QED BY <1>4, <1>5

\* thread_entry() unlocks until the lock is 0.
LEMMA ThreadEntryInv == ASSUME Inv, ThreadEntry PROVE Inv'
<1>1. /\ InCall("entry")
      /\ UNCHANGED <<current_thread, ready, dsrs, ghost>>
      /\ UNCHANGED <<held, owed, dsr_list, dsr_count, intr, count, next_dsr>>
  BY DEF ThreadEntry, dsrs, ghost
<1>2. /\ me[Len(me)].at = "entry" /\ FrameOK(me[Len(me)]) /\ Len(me) > 0
      /\ Len(me) # 0 /\ me # <<>> /\ Last(me) = me[Len(me)]
  BY <1>1, TopFacts
<1>3. me[Len(me)].new_lock = 0 /\ sched_lock > 0 /\ sched_lock \in Nat
  BY <1>2 DEF FrameOK, Inv, LockOK, StateOK
<1>4. CASE sched_lock > 1
  <2>1. sched_lock' \in Nat /\ sched_lock' > 0 /\ UNCHANGED stack
    BY <1>3, <1>4 DEF ThreadEntry
  <2>2. StateOK'
    BY <1>1, <2>1 DEF Inv, StateOK
  <2>3. me' = me /\ StackOK(current_thread)'
    BY <1>1, <2>1 DEF Inv, StateOK, StackOK, me
  <2>4. LockOK'
    BY <1>1, <1>2, <2>1, <2>3 DEF LockOK
  <2>5. RunOK'
    BY <1>1, <2>3 DEF Inv, RunOK, InCall
  <2> QED BY <1>1, <2>1, <2>2, <2>3, <2>4, <2>5, DsrsKept, SameThreadInv
<1>5. CASE ~(sched_lock > 1)
  <2>1. sched_lock = 1
    BY <1>3, <1>5
  <2>2. Goto("dsrs") /\ sched_lock' = 1 /\ "dsrs" \in Place \ {"entry", "run"}
    BY <1>5, <2>1 DEF ThreadEntry, Place
  <2> QED BY <1>1, <1>3, <2>2, GotoInv
<1> QED BY <1>4, <1>5

-----------------------------------------------------------------------------
(* The theorems *)

\* Every step keeps the invariant.
LEMMA NextInv == Inv /\ [InterruptsNext]_vars => Inv'
<1> SUFFICES ASSUME Inv, [InterruptsNext]_vars PROVE Inv'
  OBVIOUS
<1>1. CASE KernelStep
  BY <1>1, CallDSRsInv, DSRReturnsInv, SwitchInv, SetLockInv, TestAgainInv, ThreadEntryInv
     DEF KernelStep
<1>2. CASE Lock
  BY <1>2, LockInv
<1>3. CASE Unlock
  BY <1>3, UnlockInv DEF Unlock
<1>4. CASE Reschedule \/ UnlockReschedule \/ ChangeReady
  BY <1>4, RescheduleInv, UnlockRescheduleInv, ChangeReadyInv
<1>5. CASE \E i \in Intr : Interrupt(i)
  BY <1>5, InterruptInv
<1>6. CASE UNCHANGED vars
  <2>1. UNCHANGED <<sched_lock, current_thread, ready, stack, dsr_list, dsr_count,
                    intr, count, next_dsr, held, owed>>
    BY <1>6 DEF vars
  <2>2. StateOK'
    BY <2>1 DEF Inv, StateOK
  <2>3. me' = me /\ StackOK(current_thread)'
    BY <2>1 DEF Inv, StateOK, StackOK, me
  <2>4. LockOK' /\ RunOK'
    BY <2>1, <2>3 DEF Inv, LockOK, RunOK, InCall
  <2> QED BY <2>1, <2>2, <2>3, <2>4, DsrsKept, SameThreadInv DEF dsrs
<1> QED BY <1>1, <1>2, <1>3, <1>4, <1>5, <1>6 DEF InterruptsNext

\* The invariant holds throughout: from start_cpu() on, the stacks of calls,
\* the lock, the list and the counts stay consistent.
THEOREM InterruptsInvariant == InterruptsSpec => []Inv
BY InitInv, NextInv, PTL DEF InterruptsSpec

\* DSRs run one at a time, on top of the running thread's stack of calls and
\* with the lock exactly 1, whatever interrupts arrive during them.
THEOREM DsrsRunAlone == InterruptsSpec => []DsrsNeverNested
<1>1. Inv => DsrsNeverNested
  <2> SUFFICES ASSUME Inv, NEW t \in AllThread, NEW n \in Running(t)
               PROVE  t = current_thread /\ n = Len(stack[t]) /\ sched_lock = 1
    BY DEF DsrsNeverNested
  <2>1. stack[t] \in Seq(Frame) /\ Len(stack[t]) \in Nat /\ current_thread \in AllThread
    BY DEF Inv, StateOK
  <2>2. n \in 1..Len(stack[t]) /\ stack[t][n].at = "run"
    BY DEF Running
  <2>3. n = Len(stack[t])
    <3>1. /\ Len(stack[t]) <= 2
          /\ Len(stack[t]) = 2 => stack[t][1].at = "zeroed"
      BY DEF Inv, StackOK
    <3>2. \A len \in Nat : len <= 2 =>
              \A m \in 1..len : m = len \/ (m = 1 /\ len = 2)
      OBVIOUS
    <3> QED BY <2>1, <2>2, <3>1, <3>2
  <2>4. t = current_thread
    BY <2>2, <2>3 DEF Inv, SwitchedOut
  <2>5. sched_lock = 1
    <3>1. Len(me) > 0 /\ me[Len(me)].at = "run"
      BY <2>1, <2>2, <2>3, <2>4 DEF me
    <3> QED BY <3>1 DEF Inv, LockOK
  <2> QED BY <2>3, <2>4, <2>5
<1> QED BY <1>1, InterruptsInvariant, PTL

\* The lock is a per-thread variable: a thread in its own code finds it at
\* the nesting it has reached, and unlock_inner() is entered as it requires.
THEOREM LockPerThread == InterruptsSpec => []LockIsPerThread
<1>1. Inv => LockIsPerThread
  <2> SUFFICES ASSUME Inv PROVE LockIsPerThread
    OBVIOUS
  <2>1. InThreadCode => sched_lock = held[current_thread]
    BY ThreadCodeFacts
  <2>2. ASSUME InCall("dsrs")
        PROVE  IF Last(me).new_lock = 0 THEN sched_lock = 1
               ELSE sched_lock \in {Last(me).new_lock, Last(me).new_lock + 1}
    <3>1. Len(me) > 0 /\ me[Len(me)].at = "dsrs" /\ Last(me) = me[Len(me)]
      BY <2>2, TopFacts
    <3> QED BY <3>1 DEF Inv, LockOK
  <2> QED BY <2>1, <2>2 DEF LockIsPerThread
<1> QED BY <1>1, InterruptsInvariant, PTL

\* unlock_inner() leaves no DSR behind: thread code with the scheduler
\* unlocked always finds the list empty.
THEOREM NoneLeftBehind == InterruptsSpec => []NoDsrLeftBehind
<1>1. Inv => NoDsrLeftBehind
  BY ThreadCodeFacts DEF NoDsrLeftBehind
<1> QED BY <1>1, InterruptsInvariant, PTL

\* Every post is counted once: what is owed of a source is its count and what
\* its running DSR was given, and it is queued exactly while it has a count.
THEOREM PostsCounted == InterruptsSpec => []EveryPostCounted
<1>1. Inv => EveryPostCounted
  <2> SUFFICES ASSUME Inv, NEW i \in Intr
               PROVE  LET waiting == dsr_list \o next_dsr
                      IN  Cardinality({n \in DOMAIN waiting : waiting[n] = i})
                              = IF dsr_count[i] > 0 THEN 1 ELSE 0
    BY DEF Inv, CountsOK, EveryPostCounted
  <2> DEFINE w == dsr_list \o next_dsr
             L == Len(dsr_list)
             N == Len(next_dsr)
             P == {n \in DOMAIN w : w[n] = i}
  <2>1. dsr_list \in Seq(Intr) /\ next_dsr \in Seq(Intr) /\ L \in Nat /\ N \in Nat
    BY DEF Inv, StateOK
  <2>2. /\ DOMAIN w = 1..(L + N)
        /\ \A n \in 1..L : w[n] = dsr_list[n]
        /\ \A n \in 1..N : w[L + n] = next_dsr[n]
    BY <2>1
  <2> HIDE DEF w, L, N
  <2>3. ASSUME NEW n \in DOMAIN w
        PROVE  \/ n \in 1..L /\ w[n] = dsr_list[n]
               \/ n - L \in 1..N /\ w[n] = next_dsr[n - L] /\ n \in Nat
    <3>1. n \in 1..L \/ (n - L \in 1..N /\ L + (n - L) = n /\ n \in Nat)
      BY <2>1, <2>2
    <3> QED BY <2>2, <3>1
  <2>4. /\ \A m, n \in 1..L : dsr_list[m] = dsr_list[n] => m = n
        /\ \A m, n \in 1..N : next_dsr[m] = next_dsr[n] => m = n
        /\ \A m \in 1..L, n \in 1..N : dsr_list[m] # next_dsr[n]
        /\ dsr_count[i] > 0 <=> \/ \E n \in 1..L : dsr_list[n] = i
                                \/ \E n \in 1..N : next_dsr[n] = i
    BY DEF Inv, ListsOK, L, N
  <2>5. \A m, n \in P : m = n
    <3> SUFFICES ASSUME NEW m \in DOMAIN w, NEW n \in DOMAIN w, w[m] = i, w[n] = i
                 PROVE  m = n
      OBVIOUS
    <3>1. CASE m \in 1..L /\ w[m] = dsr_list[m]
      BY <2>3, <2>4, <3>1
    <3>2. CASE m - L \in 1..N /\ w[m] = next_dsr[m - L] /\ m \in Nat
      <4>1. n - L \in 1..N /\ w[n] = next_dsr[n - L] /\ n \in Nat
        BY <2>3, <2>4, <3>2
      <4>2. m - L = n - L
        BY <2>4, <3>2, <4>1
      <4> QED BY <2>1, <3>2, <4>1, <4>2
    <3> QED BY <2>3, <3>1, <3>2
  <2>6. CASE dsr_count[i] > 0
    <3>1. \E n \in DOMAIN w : w[n] = i
      <4>1. CASE \E n \in 1..L : dsr_list[n] = i
        <5>1. PICK n \in 1..L : dsr_list[n] = i
          BY <4>1
        <5>2. n \in DOMAIN w
          BY <2>1, <2>2
        <5> QED BY <2>2, <5>1, <5>2
      <4>2. CASE \E n \in 1..N : next_dsr[n] = i
        <5>1. PICK n \in 1..N : next_dsr[n] = i
          BY <4>2
        <5>2. L + n \in DOMAIN w
          BY <2>1, <2>2
        <5> QED BY <2>2, <5>1, <5>2
      <4> QED BY <2>4, <2>6, <4>1, <4>2
    <3>2. PICK n \in P : P = {n}
      BY <2>5, <3>1
    <3>3. Cardinality(P) = 1
      BY <3>2, FS_Singleton
    <3> QED BY <2>6, <3>3 DEF w
  <2>7. CASE ~(dsr_count[i] > 0)
    <3>1. P = {}
      BY <2>3, <2>4, <2>7
    <3>2. Cardinality(P) = 0
      BY <3>1, FS_EmptySet
    <3> QED BY <2>7, <3>2 DEF w
  <2> QED BY <2>6, <2>7
<1> QED BY <1>1, InterruptsInvariant, PTL

=============================================================================
