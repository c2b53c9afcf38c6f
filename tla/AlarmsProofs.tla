---------------------------- MODULE AlarmsProofs ----------------------------
(***************************************************************************)
(* Proofs about module Alarms, for any number of alarms, any interval and  *)
(* any depth of nested alarm functions: the list agrees with the enabled   *)
(* flags, periodic alarms keep their phase and no tick misses an alarm.    *)
(***************************************************************************)
EXTENDS Alarms, SequenceFacts, FiniteSetTheorems

-----------------------------------------------------------------------------
(* Unsigned arithmetic *)

\* A positive factor times a positive number is at least the factor.
LEMMA PositiveProduct ==
    ASSUME NEW i \in Nat \ {0}, NEW m \in Int, m >= 1
    PROVE  i * m >= i
OBVIOUS

\* The remainder is the only one there is.
LEMMA UniqueRemainder ==
    ASSUME NEW i \in Nat \ {0}, NEW q \in Int, NEW p \in Int,
           NEW r \in 0..(i - 1), NEW s \in 0..(i - 1),
           i * q + r = i * p + s
    PROVE  r = s
<1>1. i * (q - p) = s - r /\ i * (p - q) = r - s
  OBVIOUS
<1>2. CASE q - p >= 1
  <2>1. i * (q - p) >= i
    BY <1>2, PositiveProduct, q - p \in Int
  <2> QED BY <2>1, <1>1
<1>3. CASE p - q >= 1
  <2>1. i * (p - q) >= i
    BY <1>3, PositiveProduct, p - q \in Int
  <2> QED BY <2>1, <1>1
<1>4. CASE p = q
  BY <1>4
<1> QED BY <1>2, <1>3, <1>4

\* Quotient and remainder.
LEMMA Division ==
    ASSUME NEW i \in Nat \ {0}, NEW x \in Nat
    PROVE  /\ x \div i \in Nat
           /\ x % i \in 0..(i - 1)
           /\ x = i * (x \div i) + (x % i)
           /\ i * (x \div i) <= x
<1>1. x \div i \in Nat
  OBVIOUS
<1>2. x % i \in 0..(i - 1)
  OBVIOUS
<1>3. x = i * (x \div i) + (x % i)
  OBVIOUS
<1>4. i * (x \div i) <= x
  OBVIOUS
<1> QED BY <1>1, <1>2, <1>3, <1>4

\* Whole intervals do not change the phase.
LEMMA SamePhase ==
    ASSUME NEW i \in Nat \ {0}, NEW t \in Nat, NEW n \in Nat
    PROVE  (t + i * n) % i = t % i
<1> DEFINE x == t + i * n
<1>1. i * n \in Nat
  OBVIOUS
<1>2. x \in Nat
  BY <1>1
<1> HIDE DEF x
<1>3. x \div i \in Int /\ x % i \in 0..(i - 1) /\ x = i * (x \div i) + (x % i)
  BY <1>2, Division
<1>4. t \div i \in Int /\ t % i \in 0..(i - 1) /\ t = i * (t \div i) + (t % i)
  BY Division
<1>5. i * (t \div i + n) = i * (t \div i) + i * n
  BY <1>4
<1>6. i * (x \div i) + (x % i) = i * (t \div i + n) + (t % i)
  BY <1>3, <1>4, <1>5, <1>1 DEF x
<1>7. t \div i + n \in Int
  BY <1>4
<1>8. x % i = t % i
  BY <1>3, <1>4, <1>6, <1>7, UniqueRemainder
<1> QED BY <1>8 DEF x

\* A number below the modulus is its own remainder.
LEMMA NoWrap ==
    ASSUME NEW m \in Nat \ {0}, NEW x \in 0..(m - 1)
    PROVE  x % m = x
<1>1. x \div m \in Int /\ x % m \in 0..(m - 1) /\ x = m * (x \div m) + (x % m)
  BY Division
<1>2. m * (x \div m) + (x % m) = m * 0 + x
  BY <1>1
<1> QED BY <1>1, <1>2, UniqueRemainder

\* A remainder by 2^64 is a tick count.
LEMMA TickCount ==
    ASSUME NEW x \in Int
    PROVE  x % TickMod \in 0..(TickMod - 1)
BY AlarmsAssumption

Tick64   == 0..(TickMod - 1)
Interval == Intervals \cup {0}

\* A non-zero interval leaves room for a counter that has not wrapped.
LEMMA IntervalFacts ==
    ASSUME NEW i \in Interval
    PROVE  /\ i \in Nat
           /\ i # 0 => MaxCounter + i < TickMod
BY AlarmsAssumption DEF Interval

\* synchronize() leaves a tick count.
LEMMA SynchronizeType ==
    ASSUME counter \in 0..MaxCounter, NEW t \in Tick64, NEW i \in Interval
    PROVE  synchronize(t, i) \in Tick64
<1> DEFINE d == (counter + i - t) % TickMod
<1>1. i \in Nat /\ counter + i - t \in Int
  BY IntervalFacts, AlarmsAssumption DEF Tick64
<1>2. d \in 0..(TickMod - 1)
  BY <1>1, TickCount
<1> HIDE DEF d
<1>3. CASE i # 0 /\ d > i
  <2>1. d - 1 \in Nat /\ i \in Nat \ {0}
    BY <1>1, <1>2, <1>3, AlarmsAssumption
  <2>2. (d - 1) \div i \in Nat
    BY <2>1, Division
  <2>3. t + i * ((d - 1) \div i) \in Int
    BY <2>2, <1>1 DEF Tick64
  <2> QED BY <2>3, <1>3, TickCount DEF synchronize, d, Tick64
<1>4. CASE ~(i # 0 /\ d > i)
  BY <1>4 DEF synchronize, d
<1> QED BY <1>3, <1>4

\* synchronize() moves a trigger that is at most an interval ahead by whole
\* intervals, without overflow: "in phase with the original time requested".
LEMMA SynchronizePhase ==
    ASSUME counter \in 0..MaxCounter, NEW t \in Tick64, NEW i \in Interval,
           t <= counter + i
    PROVE  PhaseOf(synchronize(t, i), i) = PhaseOf(t, i)
<1> DEFINE d == (counter + i - t) % TickMod
           n == (d - 1) \div i
<1>1. i \in Nat /\ counter \in Nat /\ t \in Nat /\ TickMod \in Nat \ {0}
  BY IntervalFacts, AlarmsAssumption DEF Tick64
<1>2. CASE i # 0 /\ d > i
  <2>1. counter + i - t \in 0..(TickMod - 1) /\ counter + i < TickMod
    BY <1>1, <1>2, IntervalFacts, AlarmsAssumption
  <2>2. d = counter + i - t
    BY <2>1, <1>1, NoWrap
  <2> HIDE DEF d
  <2>3. d - 1 \in Nat /\ i \in Nat \ {0}
    BY <2>1, <2>2, <1>1, <1>2
  <2>4. n \in Nat /\ i * n <= d - 1
    BY <2>3, Division
  <2> HIDE DEF n
  <2>5. i * n \in Nat
    BY <2>4, <1>1
  <2>6. t + i * n \in 0..(TickMod - 1)
    BY <2>1, <2>2, <2>4, <2>5, <1>1
  <2>7. (t + i * n) % TickMod = t + i * n
    BY <2>6, <1>1, NoWrap
  <2>8. synchronize(t, i) = t + i * n
    BY <2>7, <1>2 DEF synchronize, d, n
  <2>9. (t + i * n) % i = t % i
    BY <2>3, <2>4, <1>1, SamePhase
  <2> QED BY <2>8, <2>9, <1>2 DEF PhaseOf
<1>3. CASE ~(i # 0 /\ d > i)
  BY <1>3 DEF synchronize
<1> QED BY <1>2, <1>3

\* Reducing modulo a multiple of the interval keeps the phase.
LEMMA WrapPhase ==
    ASSUME NEW m \in Nat \ {0}, NEW i \in Nat \ {0}, m % i = 0, NEW x \in Nat
    PROVE  (x % m) % i = x % i
<1> DEFINE q == x \div m
           k == m \div i
           r == x % m
<1>1. q \in Nat /\ r \in Nat /\ x = m * q + r
  BY Division
<1>2. k \in Nat /\ m = i * k
  BY Division
<1> HIDE DEF q, k, r
<1>3. k * q \in Nat /\ m * q = i * (k * q)
  BY <1>1, <1>2
<1>4. (r + i * (k * q)) % i = r % i
  BY <1>1, <1>3, SamePhase
<1>5. x = r + i * (k * q)
  BY <1>1, <1>3
<1> QED BY <1>4, <1>5 DEF r

\* synchronize() keeps the phase of a trigger that is further away as well,
\* although its arithmetic wraps, if the interval divides 2^64.
LEMMA SynchronizeWraps ==
    ASSUME counter \in 0..MaxCounter, NEW t \in Tick64, NEW i \in Interval,
           i # 0, TickMod % i = 0
    PROVE  PhaseOf(synchronize(t, i), i) = PhaseOf(t, i)
<1> DEFINE d == (counter + i - t) % TickMod
           n == (d - 1) \div i
<1>1. i \in Nat \ {0} /\ t \in Nat /\ TickMod \in Nat \ {0} /\ counter + i - t \in Int
  BY IntervalFacts, AlarmsAssumption DEF Tick64
<1>2. d \in 0..(TickMod - 1)
  BY <1>1, TickCount
<1> HIDE DEF d
<1>3. CASE d > i
  <2>1. d - 1 \in Nat
    BY <1>1, <1>2, <1>3
  <2>2. n \in Nat
    BY <1>1, <2>1, Division
  <2>3. synchronize(t, i) = (t + i * n) % TickMod
    BY <1>3 DEF synchronize, d, n
  <2> HIDE DEF n
  <2>4. t + i * n \in Nat
    BY <1>1, <2>2
  <2>5. ((t + i * n) % TickMod) % i = (t + i * n) % i
    BY <1>1, <2>4, WrapPhase
  <2>6. (t + i * n) % i = t % i
    BY <1>1, <2>2, SamePhase
  <2> QED BY <2>3, <2>5, <2>6 DEF PhaseOf
<1>4. CASE ~(d > i)
  BY <1>4 DEF synchronize, d
<1> QED BY <1>3, <1>4

\* The next trigger of a periodic alarm that is due does not overflow.
LEMMA NextTrigger ==
    ASSUME counter \in 0..MaxCounter, NEW t \in Tick64, NEW i \in Interval,
           t <= counter, i # 0
    PROVE  /\ (t + i) % TickMod \in Tick64
           /\ (t + i) % TickMod <= counter + i
           /\ PhaseOf((t + i) % TickMod, i) = PhaseOf(t, i)
<1>1. i \in Nat /\ counter \in Nat /\ t \in Nat /\ TickMod \in Nat \ {0}
  BY IntervalFacts, AlarmsAssumption DEF Tick64
<1>2. t + i \in 0..(TickMod - 1)
  BY <1>1, IntervalFacts, AlarmsAssumption
<1>3. (t + i) % TickMod = t + i
  BY <1>1, <1>2, NoWrap
<1>4. (t + i * 1) % i = t % i
  BY <1>1, SamePhase
<1>5. i * 1 = i
  BY <1>1
<1> QED BY <1>1, <1>2, <1>3, <1>4, <1>5 DEF PhaseOf, Tick64
-----------------------------------------------------------------------------
(* The calls in progress *)

Frame ==
    {TickFrame} \cup {CallOf(x) : x \in Alarm}
        \cup {Due(x) : x \in Alarm} \cup {Now(x) : x \in Alarm}

\* The alarms whose function add_alarm() has called.
Adding(s) == {x \in Alarm : \E n \in DOMAIN s : s[n] = Now(x)}

\* add_alarm() is not inside itself for the same alarm.
Once(s) ==
    \A x \in Alarm : \A m, n \in DOMAIN s : s[m] = Now(x) /\ s[n] = Now(x) => m = n

\* A call.
LEMMA PushFacts ==
    ASSUME NEW s \in Seq(Frame), NEW f \in Frame
    PROVE  /\ Append(s, f) \in Seq(Frame)
           /\ Append(s, f) # <<>>
           /\ Adding(Append(s, f)) = Adding(s) \cup {x \in Alarm : f = Now(x)}
           /\ Once(s) /\ (\A x \in Alarm : f = Now(x) => x \notin Adding(s))
                => Once(Append(s, f))
<1> DEFINE r == Append(s, f)
<1>1. /\ r \in Seq(Frame)
      /\ r # <<>>
      /\ Len(r) = Len(s) + 1
      /\ \A i \in 1..Len(s) : r[i] = s[i]
      /\ r[Len(s) + 1] = f
  BY AppendProperties
<1>2. /\ DOMAIN s = 1..Len(s)
      /\ DOMAIN r = 1..(Len(s) + 1)
      /\ Len(s) \in Nat
  BY <1>1, LenProperties
<1> HIDE DEF r
<1>3. Adding(r) = Adding(s) \cup {x \in Alarm : f = Now(x)}
  BY <1>1, <1>2 DEF Adding
<1>4. ASSUME Once(s), \A x \in Alarm : f = Now(x) => x \notin Adding(s)
      PROVE  Once(r)
  <2>1. ASSUME NEW x \in Alarm, NEW m \in DOMAIN r, NEW n \in DOMAIN r,
               r[m] = Now(x), r[n] = Now(x)
        PROVE  m = n
    <3>1. CASE f = Now(x)
      <4>1. \A j \in 1..Len(s) : s[j] # Now(x)
        BY <3>1, <1>4, <1>2 DEF Adding
      <4> QED BY <4>1, <2>1, <1>1, <1>2
    <3>2. CASE f # Now(x)
      <4>1. m \in 1..Len(s) /\ n \in 1..Len(s)
        BY <3>2, <2>1, <1>1, <1>2
      <4> QED BY <4>1, <2>1, <1>1, <1>2, <1>4 DEF Once
    <3> QED BY <3>1, <3>2
  <2> QED BY <2>1 DEF Once
<1> QED BY <1>1, <1>3, <1>4 DEF r

\* The calls but the last.
LEMMA FrontFacts ==
    ASSUME NEW s \in Seq(Frame), s # <<>>
    PROVE  DOMAIN Front(s) \subseteq DOMAIN s /\ \A n \in DOMAIN Front(s) : Front(s)[n] = s[n]
<1>1. DOMAIN s = 1..Len(s) /\ Len(s) \in Nat
  BY LenProperties
<1>2. Front(s) = SubSeq(s, 1, Len(s) - 1)
  BY DEF Front
<1> QED BY <1>1, <1>2

\* A return.
LEMMA PopFacts ==
    ASSUME NEW s \in Seq(Frame), s # <<>>
    PROVE  /\ Front(s) \in Seq(Frame)
           /\ Last(s) \in Frame
           /\ Adding(Front(s)) \subseteq Adding(s)
           /\ Adding(s) = Adding(Front(s)) \cup {x \in Alarm : Last(s) = Now(x)}
           /\ Once(s) => /\ Once(Front(s))
                         /\ \A x \in Alarm : Last(s) = Now(x) => x \notin Adding(Front(s))
           /\ Front(s) = <<>> => Len(s) = 1 /\ Last(s) = s[1]
<1> DEFINE r == Front(s)
<1>1. /\ DOMAIN s = 1..Len(s)
      /\ Len(s) \in Nat \ {0}
  BY LenProperties, EmptySeq
<1>10. \A k \in Nat : \A n \in 1..(k - 1) : n # k
  OBVIOUS
<1>2. /\ r \in Seq(Frame)
      /\ Len(r) = Len(s) - 1
      /\ \A i \in 1..(Len(s) - 1) : r[i] = s[i]
  <2>1. r = SubSeq(s, 1, Len(s) - 1)
    BY DEF Front
  <2> HIDE DEF r
  <2>2. \A i \in 1..(Len(s) - 1) : s[i] \in Frame
    BY ElementOfSeq, <1>1
  <2> QED BY <2>1, <2>2, <1>1, SubSeqProperties
<1>3. Last(s) = s[Len(s)] /\ Last(s) \in Frame
  <2>1. s[Len(s)] \in Frame
    BY <1>1, ElementOfSeq
  <2> QED BY <2>1 DEF Last
<1>4. DOMAIN r = 1..(Len(s) - 1)
  BY <1>1, <1>2, LenProperties
<1> HIDE DEF r
<1>5. Adding(r) \subseteq Adding(s)
  BY <1>1, <1>2, <1>4 DEF Adding
<1>6. Adding(s) = Adding(r) \cup {x \in Alarm : Last(s) = Now(x)}
  BY <1>1, <1>2, <1>3, <1>4 DEF Adding
<1>7. ASSUME Once(s)
      PROVE  /\ Once(r)
             /\ \A x \in Alarm : Last(s) = Now(x) => x \notin Adding(r)
  <2>1. Once(r)
    BY <1>1, <1>2, <1>4, <1>7 DEF Once
  <2>2. ASSUME NEW x \in Alarm, Last(s) = Now(x), x \in Adding(r) PROVE FALSE
    <3>1. PICK n \in 1..(Len(s) - 1) : r[n] = Now(x)
      BY <2>2, <1>4 DEF Adding
    <3>2. n \in DOMAIN s /\ Len(s) \in DOMAIN s /\ n # Len(s)
      <4>1. n \in 1..Len(s)
        BY <1>1
      <4>2. n # Len(s)
        BY <1>10, <1>1, <3>1, Zenon
      <4>3. Len(s) \in 1..Len(s)
        BY <1>1
      <4> QED BY <4>1, <4>2, <4>3, <1>1
    <3>3. s[n] = Now(x)
      BY <3>1, <1>2
    <3> QED BY <3>2, <3>3, <2>2, <1>3, <1>7 DEF Once
  <2> QED BY <2>1, <2>2
<1>8. ASSUME r = <<>> PROVE Len(s) = 1 /\ Last(s) = s[1]
  <2>1. Len(r) = 0
    BY <1>8
  <2>2. Len(s) = 1
    BY <2>1, <1>2, <1>1
  <2> QED BY <2>2, <1>3
<1> QED BY <1>2, <1>3, <1>5, <1>6, <1>7, <1>8 DEF r

\* The frames of different functions differ.
LEMMA FrameFacts ==
    /\ TickFrame \in Frame
    /\ Adding(<<>>) = {}
    /\ Once(<<>>)
    /\ Adding(<<TickFrame>>) = {}
    /\ Once(<<TickFrame>>)
    /\ \A x \in Alarm :
         /\ CallOf(x) \in Frame /\ Due(x) \in Frame /\ Now(x) \in Frame
         /\ TickFrame # Now(x) /\ TickFrame # CallOf(x) /\ TickFrame # Due(x)
         /\ \A y \in Alarm : /\ Now(x) = Now(y) => x = y
                            /\ CallOf(x) # Now(y)
                            /\ Due(x) # Now(y)
<1>1. \A x \in Alarm :
         /\ CallOf(x) \in Frame /\ Due(x) \in Frame /\ Now(x) \in Frame
         /\ TickFrame # Now(x) /\ TickFrame # CallOf(x) /\ TickFrame # Due(x)
         /\ \A y \in Alarm : /\ Now(x) = Now(y) => x = y
                            /\ CallOf(x) # Now(y)
                            /\ Due(x) # Now(y)
  BY DEF Frame, CallOf, Due, Now, TickFrame
<1>2. TickFrame \in Frame
  BY DEF Frame
<1>3. Adding(<<>>) = {} /\ Once(<<>>)
  BY DEF Adding, Once
<1>4. Adding(<<TickFrame>>) = {} /\ Once(<<TickFrame>>)
  <2>1. DOMAIN <<TickFrame>> = {1} /\ <<TickFrame>>[1] = TickFrame
    OBVIOUS
  <2> QED BY <2>1, <1>1 DEF Adding, Once
<1> QED BY <1>1, <1>2, <1>3, <1>4
-----------------------------------------------------------------------------
(* The types, whether or not an alarm is queued again inside add_alarm() *)

AlarmsTypeOK ==
    /\ counter \in 0..MaxCounter
    /\ alarm_list \in Seq(Alarm)
    /\ trigger \in [Alarm -> Tick64]
    /\ interval \in [Alarm -> Interval]
    /\ enabled \in [Alarm -> BOOLEAN]
    /\ stack \in Seq(Frame)
    /\ node \in Nat
    /\ phase \in [Alarm -> Nat]

\* tick()'s walk is at a place of the list or at its end, and the alarms it
\* has passed are not due.
WalkOK ==
    Scanning =>
        /\ node \in 0..Len(alarm_list)
        /\ \A m \in DOMAIN alarm_list :
              node = 0 \/ m < node => trigger[alarm_list[m]] > counter

\* The walk itself never calls an alarm function: one that add_alarm() calls
\* in a tick is called inside the expiry of an alarm, after which tick()
\* starts its walk again.
CallsOK(s) ==
    \A n \in DOMAIN s : n + 1 \in DOMAIN s /\ s[n] = TickFrame => s[n + 1].at # "now"

TickInv ==
    /\ AlarmsTypeOK
    /\ WalkOK
    /\ CallsOK(stack)

\* The phase of a trigger is a number.
LEMMA PhaseType ==
    ASSUME NEW t \in Tick64, NEW i \in Interval
    PROVE  PhaseOf(t, i) \in Nat
<1>1. i \in Nat /\ t \in Nat
  BY IntervalFacts, AlarmsAssumption DEF Tick64
<1>2. CASE i # 0
  BY <1>1, <1>2, Division DEF PhaseOf
<1> QED BY <1>2 DEF PhaseOf

\* The node that the walk is at.
LEMMA NodeFacts ==
    ASSUME AlarmsTypeOK, WalkOK, Scanning, node # 0
    PROVE  /\ node \in DOMAIN alarm_list
           /\ alarm_list[node] \in Alarm
           /\ alarm_list[node] \in Range(alarm_list)
<1>1. DOMAIN alarm_list = 1..Len(alarm_list) /\ Len(alarm_list) \in Nat
  BY LenProperties DEF AlarmsTypeOK
<1>2. node \in 1..Len(alarm_list)
  BY <1>1 DEF WalkOK
<1> QED BY <1>1, <1>2, ElementOfSeq DEF Range, AlarmsTypeOK

\* A walk that starts.
LEMMA WalkStarts ==
    ASSUME NEW list \in Seq(Alarm), list = alarm_list
    PROVE  /\ HeadNode \in 0..Len(list)
           /\ \A m \in DOMAIN list : ~(HeadNode = 0 \/ m < HeadNode)
<1>1. DOMAIN list = 1..Len(list) /\ Len(list) \in Nat /\ (list = <<>> <=> Len(list) = 0)
  BY LenProperties, EmptySeq
<1> QED BY <1>1 DEF HeadNode

\* What add_alarm() leaves is of the right type.
LEMMA AddAlarmType ==
    ASSUME AlarmsTypeOK, NEW x \in Alarm, NEW t \in Tick64,
           NEW list \in Seq(Alarm), NEW calls \in Seq(Frame),
           add_alarm(x, t, list, calls)
    PROVE  /\ alarm_list' \in Seq(Alarm)
           /\ trigger' \in [Alarm -> Tick64]
           /\ enabled' \in [Alarm -> BOOLEAN]
           /\ stack' \in Seq(Frame)
<1>1. Append(calls, Now(x)) \in Seq(Frame)
  BY PushFacts, FrameFacts
<1>2. Append(list, x) \in Seq(Alarm)
  BY AppendFacts
<1> QED BY <1>1, <1>2 DEF AlarmsTypeOK, add_alarm

\* rem_alarm() leaves a list of alarms.
LEMMA WithoutType ==
    ASSUME AlarmsTypeOK, NEW x \in Alarm
    PROVE  Without(x) \in Seq(Alarm)
BY RemoveFirstFacts DEF AlarmsTypeOK, Without

\* Every step keeps the types.
LEMMA TypeStep ==
    AlarmsTypeOK /\ WalkOK /\ [AlarmsNext]_alarms => AlarmsTypeOK'
<1> SUFFICES ASSUME AlarmsTypeOK, WalkOK, [AlarmsNext]_alarms PROVE AlarmsTypeOK'
  OBVIOUS
<1> USE AlarmsAssumption
<1>1. ASSUME NEW x \in Alarm, NEW t \in Times, NEW i \in Intervals, initialize(x, t, i)
      PROVE  AlarmsTypeOK'
  <2>1. t \in Tick64 /\ i \in Interval
    BY DEF Tick64, Interval
  <2>2. Without(x) \in Seq(Alarm) /\ stack \in Seq(Frame)
    BY WithoutType DEF AlarmsTypeOK
  <2>3. /\ alarm_list' \in Seq(Alarm) /\ trigger' \in [Alarm -> Tick64]
        /\ enabled' \in [Alarm -> BOOLEAN] /\ stack' \in Seq(Frame)
    BY <1>1, <2>1, <2>2, AddAlarmType DEF initialize
  <2>4. PhaseOf(t, i) \in Nat
    BY <2>1, PhaseType
  <2> QED BY <1>1, <2>1, <2>3, <2>4 DEF AlarmsTypeOK, initialize
<1>2. ASSUME NEW x \in Alarm, enable(x) PROVE AlarmsTypeOK'
  <2> DEFINE t == synchronize(trigger[x], interval[x])
  <2>1. /\ trigger[x] \in Tick64 /\ interval[x] \in Interval
        /\ alarm_list \in Seq(Alarm) /\ stack \in Seq(Frame)
        /\ counter \in 0..MaxCounter
    BY DEF AlarmsTypeOK
  <2>2. t \in Tick64
    BY <2>1, SynchronizeType
  <2>3. add_alarm(x, t, alarm_list, stack)
    BY <1>2 DEF enable
  <2> HIDE DEF t
  <2>4. /\ alarm_list' \in Seq(Alarm) /\ trigger' \in [Alarm -> Tick64]
        /\ enabled' \in [Alarm -> BOOLEAN] /\ stack' \in Seq(Frame)
    BY <2>1, <2>2, <2>3, AddAlarmType
  <2> QED BY <1>2, <2>4 DEF AlarmsTypeOK, enable
<1>3. ASSUME NEW x \in Alarm, disable(x) PROVE AlarmsTypeOK'
  <2>1. Without(x) \in Seq(Alarm)
    BY WithoutType
  <2> QED BY <1>3, <2>1 DEF AlarmsTypeOK, disable
<1>4. ASSUME NEW x \in Alarm, AddReturns(x) PROVE AlarmsTypeOK'
  <2>1. stack' \in Seq(Frame)
    BY <1>4, PopFacts DEF AddReturns, AlarmsTypeOK
  <2>2. CASE interval[x] # 0 /\ enabled[x]
    <3> DEFINE u == (trigger[x] + interval[x]) % TickMod
               t == synchronize(u, interval[x])
    <3>1. trigger[x] + interval[x] \in Int /\ interval[x] \in Interval
      BY IntervalFacts DEF AlarmsTypeOK, Tick64
    <3>2. u \in Tick64
      BY <3>1, TickCount DEF Tick64
    <3> HIDE DEF u
    <3>3. t \in Tick64
      BY <3>1, <3>2, SynchronizeType DEF AlarmsTypeOK
    <3>4. trigger' = [trigger EXCEPT ![x] = t] /\ alarm_list' = Append(alarm_list, x)
      BY <1>4, <2>2 DEF AddReturns, u, AlarmsTypeOK
    <3> HIDE DEF t
    <3>5. alarm_list' \in Seq(Alarm)
      BY <3>4, AppendFacts DEF AlarmsTypeOK
    <3> QED BY <1>4, <2>1, <2>2, <3>3, <3>4, <3>5 DEF AddReturns, AlarmsTypeOK
  <2>3. CASE ~(interval[x] # 0 /\ enabled[x])
    BY <1>4, <2>1, <2>3 DEF AddReturns, AlarmsTypeOK
  <2> QED BY <2>2, <2>3
<1>5. CASE Tick
  <2>1. stack' \in Seq(Frame)
    BY <1>5, FrameFacts DEF Tick
  <2> QED BY <1>5, <2>1 DEF Tick, HeadNode, AlarmsTypeOK
<1>6. CASE Expire
  <2> DEFINE x == alarm_list[node]
             rest == RemoveFirst(alarm_list, x)
             calls == Append(stack, CallOf(x))
  <2>1. x \in Alarm
    BY <1>6, NodeFacts DEF Expire
  <2> HIDE DEF x
  <2>2. rest \in Seq(Alarm) /\ calls \in Seq(Frame)
    BY <2>1, RemoveFirstFacts, PushFacts, FrameFacts DEF AlarmsTypeOK
  <2> HIDE DEF rest, calls
  <2>3. CASE interval[x] # 0
    <3> DEFINE u == (trigger[x] + interval[x]) % TickMod
    <3>1. trigger[x] + interval[x] \in Int
      BY <2>1, IntervalFacts DEF AlarmsTypeOK, Tick64
    <3>2. u \in Tick64
      BY <3>1, TickCount DEF Tick64
    <3>3. add_alarm(x, u, rest, calls)
      BY <1>6, <2>3 DEF Expire, x, rest, calls
    <3> HIDE DEF u
    <3>4. /\ alarm_list' \in Seq(Alarm) /\ trigger' \in [Alarm -> Tick64]
          /\ enabled' \in [Alarm -> BOOLEAN] /\ stack' \in Seq(Frame)
      BY <2>1, <2>2, <3>2, <3>3, AddAlarmType
    <3> QED BY <1>6, <3>4 DEF Expire, AlarmsTypeOK
  <2>4. CASE interval[x] = 0
    <3>1. /\ alarm_list' = rest /\ stack' = calls
          /\ enabled' = [enabled EXCEPT ![x] = FALSE]
          /\ UNCHANGED <<trigger, counter, interval, node, phase>>
      BY <1>6, <2>4 DEF Expire, x, rest, calls
    <3> QED BY <2>2, <3>1 DEF AlarmsTypeOK
  <2> QED BY <2>3, <2>4
<1>7. CASE CallFunction
  <2>1. stack \in Seq(Frame) /\ stack # <<>> /\ Last(stack).at = "call"
    BY <1>7 DEF CallFunction, AlarmsTypeOK
  <2>2. Front(stack) \in Seq(Frame) /\ Last(stack) \in Frame
    BY <2>1, PopFacts
  <2>3. \E x \in Alarm : Last(stack) = CallOf(x)
    BY <2>1, <2>2 DEF Frame, TickFrame, CallOf, Due, Now
  <2>4. Due(Last(stack).alarm) \in Frame
    BY <2>3, FrameFacts DEF CallOf
  <2>5. Append(Front(stack), Due(Last(stack).alarm)) \in Seq(Frame)
    BY <2>2, <2>4, PushFacts
  <2> QED BY <1>7, <2>5 DEF CallFunction, AlarmsTypeOK
<1>8. CASE FunctionReturns
  <2>1. stack' \in Seq(Frame)
    BY <1>8, PopFacts DEF FunctionReturns, AlarmsTypeOK
  <2> QED BY <1>8, <2>1 DEF FunctionReturns, HeadNode, AlarmsTypeOK
<1>9. CASE TickDone
  BY <1>9 DEF TickDone, AlarmsTypeOK
<1>10. ASSUME NEW v \in 0..MaxCounter, set_value(v) PROVE AlarmsTypeOK'
  BY <1>10 DEF set_value, AlarmsTypeOK
<1>11. CASE ScanNext
  <2>1. node' \in Nat
    BY <1>11, LenProperties DEF ScanNext, AlarmsTypeOK
  <2> QED BY <1>11, <2>1 DEF ScanNext, AlarmsTypeOK
<1>12. CASE UNCHANGED alarms
  BY <1>12 DEF alarms, AlarmsTypeOK
<1> QED
  BY <1>1, <1>2, <1>3, <1>4, <1>5, <1>6, <1>7, <1>8, <1>9, <1>10, <1>11, <1>12 DEF AlarmsNext

\* The initial state is of the right type.
LEMMA TypeInit == AlarmsInit => AlarmsTypeOK
<1>1. 0 \in Tick64 /\ 0 \in Interval /\ 0 \in 0..MaxCounter
  BY AlarmsAssumption DEF Tick64, Interval
<1> QED BY <1>1 DEF AlarmsInit, AlarmsTypeOK

\* Calls and returns.
LEMMA CallsFacts ==
    ASSUME NEW s \in Seq(Frame), CallsOK(s)
    PROVE  /\ s # <<>> => CallsOK(Front(s))
           /\ \A f \in Frame :
                f.at # "now" \/ s = <<>> \/ Last(s) # TickFrame => CallsOK(Append(s, f))
           /\ s # <<>> /\ Last(s).at = "now" /\ Front(s) # <<>> => Last(Front(s)) # TickFrame
<1>1. DOMAIN s = 1..Len(s) /\ Len(s) \in Nat /\ (s = <<>> <=> Len(s) = 0)
  BY LenProperties, EmptySeq
<1>2. ASSUME s # <<>> PROVE CallsOK(Front(s))
  <2> DEFINE r == Front(s)
  <2>1. DOMAIN r \subseteq DOMAIN s /\ \A n \in DOMAIN r : r[n] = s[n]
    BY <1>2, FrontFacts
  <2> HIDE DEF r
  <2>2. CallsOK(r)
    BY <2>1 DEF CallsOK
  <2> QED BY <2>2 DEF r
<1>3. ASSUME NEW f \in Frame, f.at # "now" \/ s = <<>> \/ Last(s) # TickFrame
      PROVE  CallsOK(Append(s, f))
  <2> DEFINE r == Append(s, f)
  <2>1. /\ DOMAIN r = 1..(Len(s) + 1)
        /\ \A i \in 1..Len(s) : r[i] = s[i]
        /\ r[Len(s) + 1] = f
    BY AppendProperties, LenProperties
  <2> HIDE DEF r
  <2>2. ASSUME NEW n \in DOMAIN r, n + 1 \in DOMAIN r, r[n] = TickFrame
        PROVE  r[n + 1].at # "now"
    <3>1. CASE n = Len(s)
      <4>1. s # <<>> /\ Last(s) = TickFrame
        BY <1>1, <2>1, <2>2, <3>1 DEF Last
      <4> QED BY <1>3, <2>1, <3>1, <4>1
    <3>2. CASE n # Len(s)
      <4>1. n \in DOMAIN s /\ n + 1 \in DOMAIN s
        BY <1>1, <2>1, <2>2, <3>2
      <4>2. r[n] = s[n] /\ r[n + 1] = s[n + 1]
        BY <1>1, <2>1, <4>1
      <4> QED BY <2>2, <4>1, <4>2 DEF CallsOK
    <3> QED BY <3>1, <3>2
  <2>3. CallsOK(r)
    BY <2>2 DEF CallsOK
  <2> QED BY <2>3 DEF r
<1>4. ASSUME s # <<>>, Last(s).at = "now", Front(s) # <<>> PROVE Last(Front(s)) # TickFrame
  <2> DEFINE r == Front(s)
  <2>1. r = SubSeq(s, 1, Len(s) - 1)
    BY DEF Front
  <2>2. \A i \in 1..(Len(s) - 1) : s[i] \in Frame
    BY ElementOfSeq, <1>1
  <2> HIDE DEF r
  <2>3. r \in Seq(Frame) /\ Len(r) = Len(s) - 1 /\ \A i \in 1..(Len(s) - 1) : r[i] = s[i]
    BY <1>1, <1>4, <2>1, <2>2, SubSeqProperties
  <2>4. Len(r) # 0
    BY <1>4, <2>3, EmptySeq DEF r
  <2>5. Last(r) = s[Len(s) - 1] /\ Len(s) - 1 \in DOMAIN s /\ Len(s) - 1 + 1 = Len(s) /\ Len(s) \in DOMAIN s
    BY <1>1, <2>3, <2>4 DEF Last
  <2>6. s[Len(s)].at = "now"
    BY <1>4 DEF Last
  <2> QED BY <2>5, <2>6 DEF CallsOK, r
<1> QED BY <1>2, <1>3, <1>4

\* The frame that a call puts on top.
LEMMA TopFacts ==
    ASSUME NEW s \in Seq(Frame), NEW f \in Frame
    PROVE  Append(s, f) # <<>> /\ Last(Append(s, f)) = f
<1>1. Len(Append(s, f)) = Len(s) + 1 /\ Append(s, f)[Len(s) + 1] = f /\ Append(s, f) # <<>>
  BY AppendProperties
<1> QED BY <1>1 DEF Last

\* add_alarm() with a caller that is not the walk leaves no walk on top.
LEMMA AddAlarmWalk ==
    ASSUME NEW x \in Alarm, NEW t, NEW list, NEW calls \in Seq(Frame), CallsOK(calls),
           calls = <<>> \/ Last(calls) # TickFrame,
           add_alarm(x, t, list, calls)
    PROVE  WalkOK' /\ CallsOK(stack')
<1>1. Now(x) \in Frame /\ Now(x) # TickFrame
  BY FrameFacts
<1>2. CASE stack' = calls
  BY <1>2 DEF WalkOK, Scanning
<1>3. CASE stack' = Append(calls, Now(x))
  <2>1. Last(stack') # TickFrame
    BY <1>1, <1>3, TopFacts
  <2>2. CallsOK(stack')
    BY <1>1, <1>3, CallsFacts
  <2> QED BY <2>1, <2>2 DEF WalkOK, Scanning
<1> QED BY <1>2, <1>3 DEF add_alarm

\* One step of the walk: the node it leaves is not due, and the head comes
\* after the last node only.
LEMMA ScanNextWalk ==
    ASSUME AlarmsTypeOK, WalkOK, ScanNext
    PROVE  WalkOK'
<1>1. /\ Scanning /\ node # 0 /\ trigger[alarm_list[node]] > counter
      /\ node' = IF node = Len(alarm_list) \/ node + 1 = 1 THEN 0 ELSE node + 1
      /\ UNCHANGED <<counter, alarm_list, trigger, stack>>
  BY DEF ScanNext
<1>2. DOMAIN alarm_list = 1..Len(alarm_list) /\ Len(alarm_list) \in Nat
  BY LenProperties DEF AlarmsTypeOK
<1>3. node \in 1..Len(alarm_list)
  BY <1>1, <1>2, NodeFacts
<1>4. \A m \in DOMAIN alarm_list : m < node => trigger[alarm_list[m]] > counter
  BY <1>1 DEF WalkOK
<1>5. \A m \in DOMAIN alarm_list : m <= node => trigger[alarm_list[m]] > counter
  BY <1>1, <1>2, <1>3, <1>4
<1>6. node' \in 0..Len(alarm_list)
  BY <1>1, <1>2, <1>3
<1>7. \A m \in DOMAIN alarm_list : node' = 0 \/ m < node' => m <= node
  BY <1>1, <1>2, <1>3
<1> QED BY <1>1, <1>5, <1>6, <1>7 DEF WalkOK

\* Every step keeps what the walk relies on.
LEMMA TickStep == TickInv /\ [AlarmsNext]_alarms => TickInv'
<1> SUFFICES ASSUME TickInv, [AlarmsNext]_alarms PROVE TickInv'
  OBVIOUS
<1>1. AlarmsTypeOK /\ AlarmsTypeOK' /\ WalkOK /\ CallsOK(stack)
  BY TypeStep DEF TickInv
<1> SUFFICES WalkOK' /\ CallsOK(stack')
  BY <1>1 DEF TickInv
<1>2. stack \in Seq(Frame) /\ alarm_list \in Seq(Alarm) /\ alarm_list' \in Seq(Alarm)
  BY <1>1 DEF AlarmsTypeOK
<1>3. CallerRuns => stack = <<>> \/ Last(stack) # TickFrame
  BY DEF CallerRuns, TickFrame
<1>4. ASSUME NEW x \in Alarm, NEW t, NEW i, initialize(x, t, i) PROVE WalkOK' /\ CallsOK(stack')
  BY <1>1, <1>2, <1>3, <1>4, AddAlarmWalk DEF initialize
<1>5. ASSUME NEW x \in Alarm, enable(x) PROVE WalkOK' /\ CallsOK(stack')
  BY <1>1, <1>2, <1>3, <1>5, AddAlarmWalk DEF enable
<1>6. ASSUME NEW x \in Alarm, disable(x) PROVE WalkOK' /\ CallsOK(stack')
  <2>1. stack' = stack /\ (stack = <<>> \/ Last(stack) # TickFrame)
    BY <1>3, <1>6 DEF disable
  <2> QED BY <1>1, <2>1 DEF WalkOK, Scanning
<1>7. ASSUME NEW x \in Alarm, AddReturns(x) PROVE WalkOK' /\ CallsOK(stack')
  <2>1. stack # <<>> /\ Last(stack).at = "now" /\ stack' = Front(stack)
    BY <1>7 DEF AddReturns, Now
  <2>2. CallsOK(stack') /\ (stack' = <<>> \/ Last(stack') # TickFrame)
    BY <1>1, <1>2, <2>1, CallsFacts
  <2> QED BY <2>2 DEF WalkOK, Scanning
<1>8. CASE Tick
  <2>1. node' = HeadNode /\ alarm_list' = alarm_list /\ stack' = <<TickFrame>>
    BY <1>8 DEF Tick
  <2>2. WalkOK'
    BY <1>2, <2>1, WalkStarts DEF WalkOK
  <2>3. CallsOK(stack')
    BY <2>1 DEF CallsOK
  <2> QED BY <2>2, <2>3
<1>9. CASE ScanNext
  <2>1. stack' = stack
    BY <1>9 DEF ScanNext
  <2> QED BY <1>1, <1>9, <2>1, ScanNextWalk
<1>10. CASE Expire
  <2> DEFINE x == alarm_list[node]
             calls == Append(stack, CallOf(x))
  <2>1. x \in Alarm
    BY <1>1, <1>10, NodeFacts DEF Expire
  <2>2. (\E t, list : add_alarm(x, t, list, calls)) \/ stack' = calls
    BY <1>10 DEF Expire
  <2> HIDE DEF x
  <2>3. CallOf(x) \in Frame /\ CallOf(x) # TickFrame /\ CallOf(x).at # "now"
    BY <2>1, FrameFacts DEF CallOf
  <2>4. calls \in Seq(Frame) /\ calls # <<>> /\ Last(calls) # TickFrame
    BY <1>2, <2>3, PushFacts, TopFacts
  <2>5. CallsOK(calls)
    BY <1>1, <1>2, <2>3, CallsFacts
  <2> HIDE DEF calls
  <2>6. CASE \E t, list : add_alarm(x, t, list, calls)
    BY <2>1, <2>4, <2>5, <2>6, AddAlarmWalk
  <2>7. CASE stack' = calls
    BY <2>4, <2>5, <2>7 DEF WalkOK, Scanning
  <2> QED BY <2>2, <2>6, <2>7
<1>11. CASE CallFunction
  <2>1. stack # <<>> /\ Last(stack).at = "call"
        /\ stack' = Append(Front(stack), Due(Last(stack).alarm))
    BY <1>11 DEF CallFunction
  <2>2. Front(stack) \in Seq(Frame) /\ Last(stack) \in Frame /\ CallsOK(Front(stack))
    BY <1>1, <1>2, <2>1, PopFacts, CallsFacts
  <2>3. PICK x \in Alarm : Last(stack) = CallOf(x)
    BY <2>1, <2>2 DEF Frame, TickFrame, CallOf, Due, Now
  <2>4. Last(stack).alarm = x
    BY <2>3 DEF CallOf
  <2>5. Due(x) \in Frame /\ Due(x) # TickFrame /\ Due(x).at # "now"
    BY FrameFacts DEF Due
  <2>6. Last(stack') # TickFrame
    BY <2>1, <2>2, <2>4, <2>5, TopFacts
  <2>7. CallsOK(stack')
    BY <2>1, <2>2, <2>4, <2>5, CallsFacts
  <2> QED BY <2>6, <2>7 DEF WalkOK, Scanning
<1>12. CASE FunctionReturns
  <2>1. node' = HeadNode /\ alarm_list' = alarm_list /\ stack # <<>> /\ stack' = Front(stack)
    BY <1>12 DEF FunctionReturns
  <2>2. WalkOK'
    BY <1>2, <2>1, WalkStarts DEF WalkOK
  <2>3. CallsOK(stack')
    BY <1>1, <1>2, <2>1, CallsFacts
  <2> QED BY <2>2, <2>3
<1>13. CASE TickDone
  <2>1. stack' = <<>>
    BY <1>13 DEF TickDone
  <2> QED BY <2>1 DEF WalkOK, Scanning, CallsOK
<1>14. ASSUME NEW v \in 0..MaxCounter, set_value(v) PROVE WalkOK' /\ CallsOK(stack')
  <2>1. stack = <<>> /\ stack' = stack
    BY <1>14 DEF set_value
  <2> QED BY <2>1 DEF WalkOK, Scanning, CallsOK
<1>15. CASE UNCHANGED alarms
  BY <1>1, <1>15 DEF alarms, WalkOK, Scanning
<1> QED
  BY <1>4, <1>5, <1>6, <1>7, <1>8, <1>9, <1>10, <1>11, <1>12, <1>13, <1>14, <1>15 DEF AlarmsNext

\* The types, and what the walk of the list relies on, hold throughout, with or
\* without alarms that are queued again from inside add_alarm().
THEOREM TickInvTheorem == AlarmsSpec => []TickInv
<1>1. AlarmsInit => TickInv
  <2> SUFFICES ASSUME AlarmsInit PROVE TickInv
    OBVIOUS
  <2>1. stack = <<>>
    BY DEF AlarmsInit
  <2>2. WalkOK /\ CallsOK(stack)
    BY <2>1 DEF WalkOK, Scanning, CallsOK
  <2> QED BY <2>2, TypeInit DEF TickInv
<1> QED BY <1>1, TickStep, PTL DEF AlarmsSpec

\* tick() misses no alarm, whatever the functions it calls do to the list: the
\* alarms its walk has passed are not due, no function runs between two nodes
\* of one walk, and no other return empties the stack of a tick.
THEOREM NoAlarmMissedTheorem == AlarmsSpec => NoAlarmMissed
<1>1. ASSUME TickInv, AlarmsNext, Len(stack) > 0, stack[1] = TickFrame, stack' = <<>>
      PROVE  \A n \in DOMAIN alarm_list' : trigger'[alarm_list'[n]] > counter'
  <2>1. stack \in Seq(Frame) /\ stack # <<>> /\ AlarmsTypeOK /\ WalkOK
    BY <1>1 DEF TickInv, AlarmsTypeOK
  <2>2. Front(stack) \in Seq(Frame) /\ Last(stack) \in Frame
    BY <2>1, PopFacts
  <2>3. \A s \in Seq(Frame), f \in Frame : Append(s, f) \in Seq(Frame) /\ Append(s, f) # <<>>
    BY PushFacts
  <2>4. Front(stack) = <<>> => Last(stack) = TickFrame
    BY <2>1, <1>1, PopFacts
  <2>5. ASSUME NEW x \in Alarm, NEW t, NEW list, NEW calls \in Seq(Frame), calls # <<>>,
               add_alarm(x, t, list, calls)
        PROVE  FALSE
    BY <1>1, <2>3, <2>5, FrameFacts DEF add_alarm
  <2>6. ASSUME NEW x \in Alarm, NEW t, NEW i, initialize(x, t, i) PROVE FALSE
    BY <2>1, <2>5, <2>6 DEF initialize
  <2>7. ASSUME NEW x \in Alarm, enable(x) PROVE FALSE
    BY <2>1, <2>5, <2>7 DEF enable
  <2>8. ASSUME (\E x \in Alarm : disable(x)) \/ ScanNext PROVE FALSE
    BY <1>1, <2>1, <2>8 DEF disable, ScanNext
  <2>9. ASSUME NEW x \in Alarm, AddReturns(x) PROVE FALSE
    BY <1>1, <2>4, <2>9, FrameFacts DEF AddReturns
  <2>10. ASSUME Expire PROVE FALSE
    <3> DEFINE x == alarm_list[node]
    <3>1. x \in Alarm
      BY <2>1, <2>10, NodeFacts DEF Expire
    <3>2. Append(stack, CallOf(x)) \in Seq(Frame) /\ Append(stack, CallOf(x)) # <<>>
      BY <2>1, <2>3, <3>1, FrameFacts
    <3> QED BY <1>1, <2>5, <2>10, <3>1, <3>2 DEF Expire
  <2>11. ASSUME CallFunction PROVE FALSE
    <3>1. \E x \in Alarm : Last(stack) = CallOf(x)
      BY <2>2, <2>11 DEF CallFunction, Frame, TickFrame, CallOf, Due, Now
    <3>2. Due(Last(stack).alarm) \in Frame
      BY <3>1, FrameFacts DEF CallOf
    <3> QED BY <1>1, <2>2, <2>3, <2>11, <3>2 DEF CallFunction
  <2>12. ASSUME FunctionReturns PROVE FALSE
    BY <1>1, <2>4, <2>12 DEF FunctionReturns, TickFrame
  <2>13. ASSUME Tick \/ \E v \in 0..MaxCounter : set_value(v) PROVE FALSE
    BY <2>1, <2>13 DEF Tick, set_value
  <2>14. CASE TickDone
    BY <2>1, <2>14 DEF TickDone, WalkOK
  <2> QED
    BY <1>1, <2>6, <2>7, <2>8, <2>9, <2>10, <2>11, <2>12, <2>13, <2>14 DEF AlarmsNext
<1>2. TickInv /\ [AlarmsNext]_alarms
        => [(Len(stack) > 0 /\ stack[1] = TickFrame /\ stack' = <<>>)
              => \A n \in DOMAIN alarm_list' : trigger'[alarm_list'[n]] > counter']_alarms
  BY <1>1
<1> QED BY <1>2, TickInvTheorem, PTL DEF AlarmsSpec, NoAlarmMissed
-----------------------------------------------------------------------------
(* The list, when no alarm is queued again in add_alarm() *)

\* A tick is started by the interrupt, never by an alarm function.
TickAtBottom(s) == \A n \in DOMAIN s : s[n] = TickFrame => n = 1

\* The list holds, once each, the enabled alarms whose add_alarm() is done.
ListOK ==
    /\ IsInjective(alarm_list)
    /\ \A x \in Alarm : x \in Range(alarm_list) <=> enabled[x] /\ x \notin Adding(stack)

\* add_alarm() calls the function of an alarm only when it is due, and the
\* counter does not move before the function returns.
AddingOK ==
    /\ Once(stack)
    /\ TickAtBottom(stack)
    /\ \A x \in Adding(stack) : trigger[x] <= counter

AlarmsInv ==
    /\ TickInv
    /\ ListOK
    /\ AddingOK

\* Calls and returns keep the tick at the bottom.
LEMMA BottomFacts ==
    ASSUME NEW s \in Seq(Frame), TickAtBottom(s)
    PROVE  /\ \A f \in Frame : f # TickFrame => TickAtBottom(Append(s, f))
           /\ s # <<>> => TickAtBottom(Front(s))
           /\ s # <<>> /\ Last(s) = TickFrame => Adding(s) = {}
<1>1. DOMAIN s = 1..Len(s) /\ Len(s) \in Nat
  BY LenProperties
<1>2. ASSUME NEW f \in Frame, f # TickFrame PROVE TickAtBottom(Append(s, f))
  <2> DEFINE r == Append(s, f)
  <2>1. /\ DOMAIN r = 1..(Len(s) + 1)
        /\ \A i \in 1..Len(s) : r[i] = s[i]
        /\ r[Len(s) + 1] = f
    BY AppendProperties, LenProperties
  <2> HIDE DEF r
  <2>2. TickAtBottom(r)
    BY <1>1, <1>2, <2>1 DEF TickAtBottom
  <2> QED BY <2>2 DEF r
<1>3. ASSUME s # <<>> PROVE TickAtBottom(Front(s))
  <2> DEFINE r == Front(s)
  <2>1. DOMAIN r \subseteq DOMAIN s /\ \A n \in DOMAIN r : r[n] = s[n]
    BY <1>3, FrontFacts
  <2> HIDE DEF r
  <2>2. TickAtBottom(r)
    BY <2>1 DEF TickAtBottom
  <2> QED BY <2>2 DEF r
<1>4. ASSUME s # <<>>, Last(s) = TickFrame PROVE Adding(s) = {}
  <2>1. Len(s) \in DOMAIN s /\ s[Len(s)] = TickFrame
    BY <1>1, <1>4, EmptySeq DEF Last
  <2>2. Len(s) = 1
    BY <2>1 DEF TickAtBottom
  <2>3. \A n \in DOMAIN s : s[n] = TickFrame
    BY <1>1, <2>1, <2>2
  <2> QED BY <2>3, FrameFacts DEF Adding
<1> QED BY <1>2, <1>3, <1>4

\* add_alarm() of an alarm that is neither on the list nor being added.
LEMMA AddAlarmInv ==
    ASSUME AlarmsTypeOK, NEW x \in Alarm, NEW t \in Tick64,
           NEW list \in Seq(Alarm), IsInjective(list), x \notin Range(list),
           NEW calls \in Seq(Frame), Once(calls), TickAtBottom(calls),
           x \notin Adding(calls),
           \A y \in Alarm : y # x => (y \in Range(list) <=> enabled[y] /\ y \notin Adding(calls)),
           \A y \in Adding(calls) : trigger[y] <= counter,
           counter' = counter,
           add_alarm(x, t, list, calls)
    PROVE  ListOK' /\ AddingOK'
<1>1. trigger' = [trigger EXCEPT ![x] = t] /\ enabled' = [enabled EXCEPT ![x] = TRUE]
  BY DEF add_alarm
<1>2. \A y \in Alarm : /\ trigger'[y] = IF y = x THEN t ELSE trigger[y]
                       /\ enabled'[y] = IF y = x THEN TRUE ELSE enabled[y]
  BY <1>1 DEF AlarmsTypeOK
<1>3. Adding(calls) \subseteq Alarm
  BY DEF Adding
<1>4. CASE t <= counter
  <2>1. alarm_list' = list /\ stack' = Append(calls, Now(x))
    BY <1>4 DEF add_alarm
  <2>2. Now(x) \in Frame /\ Now(x) # TickFrame /\ {y \in Alarm : Now(x) = Now(y)} = {x}
    BY FrameFacts
  <2>3. Adding(stack') = Adding(calls) \cup {x}
    BY <2>1, <2>2, PushFacts
  <2>4. Once(stack')
    BY <2>1, <2>2, PushFacts
  <2>5. TickAtBottom(stack')
    BY <2>1, <2>2, BottomFacts
  <2>6. ListOK'
    BY <1>2, <2>1, <2>3 DEF ListOK
  <2>7. AddingOK'
    BY <1>2, <1>3, <1>4, <2>3, <2>4, <2>5 DEF AddingOK
  <2> QED BY <2>6, <2>7
<1>5. CASE ~(t <= counter)
  <2>1. alarm_list' = Append(list, x) /\ stack' = calls
    BY <1>5 DEF add_alarm
  <2>2. Range(alarm_list') = Range(list) \cup {x} /\ IsInjective(alarm_list')
    BY <2>1, AppendFacts
  <2>3. ListOK'
    BY <1>2, <2>1, <2>2 DEF ListOK
  <2>4. AddingOK'
    BY <1>2, <1>3, <2>1 DEF AddingOK
  <2> QED BY <2>3, <2>4
<1> QED BY <1>4, <1>5

\* rem_alarm() of an alarm that is not being added.
LEMMA WithoutFacts ==
    ASSUME AlarmsInv, NEW x \in Alarm
    PROVE  /\ Without(x) \in Seq(Alarm)
           /\ IsInjective(Without(x))
           /\ Range(Without(x)) = Range(alarm_list) \ {x}
<1>1. alarm_list \in Seq(Alarm) /\ IsInjective(alarm_list)
  BY DEF AlarmsInv, TickInv, AlarmsTypeOK, ListOK
<1>2. ~enabled[x] => x \notin Range(alarm_list)
  BY DEF AlarmsInv, ListOK
<1> QED BY <1>1, <1>2, RemoveFirstFacts DEF Without

\* Steps that leave the alarms, the list and the alarms being added alone.
LEMMA AlarmsKept ==
    ASSUME AlarmsInv, TickInv', UNCHANGED <<alarm_list, trigger, enabled>>,
           Once(stack'), TickAtBottom(stack'), Adding(stack') = Adding(stack),
           counter' = counter \/ Adding(stack) = {}
    PROVE  AlarmsInv'
<1>1. ListOK'
  BY DEF AlarmsInv, ListOK
<1>2. AddingOK'
  BY DEF AlarmsInv, AddingOK
<1> QED BY <1>1, <1>2 DEF AlarmsInv

\* Every step keeps the invariant, unless the function of an alarm that
\* add_alarm() has called may have that alarm queued again.
LEMMA AlarmsStep ==
    ~RearmInside => (AlarmsInv /\ [AlarmsNext]_alarms => AlarmsInv')
<1> SUFFICES ASSUME ~RearmInside, AlarmsInv, [AlarmsNext]_alarms PROVE AlarmsInv'
  OBVIOUS
<1>1. TickInv /\ AlarmsTypeOK /\ WalkOK /\ TickInv'
  BY TickStep DEF AlarmsInv, TickInv
<1>2. /\ stack \in Seq(Frame) /\ Once(stack) /\ TickAtBottom(stack)
      /\ \A y \in Adding(stack) : trigger[y] <= counter
      /\ alarm_list \in Seq(Alarm) /\ IsInjective(alarm_list)
      /\ \A y \in Alarm : y \in Range(alarm_list) <=> enabled[y] /\ y \notin Adding(stack)
      /\ counter \in 0..MaxCounter
      /\ \A y \in Alarm : trigger[y] \in Tick64 /\ interval[y] \in Interval
  BY DEF AlarmsInv, TickInv, AlarmsTypeOK, ListOK, AddingOK
<1>3. \A x \in Alarm : InAdd(x) <=> x \in Adding(stack)
  BY DEF InAdd, Adding
<1>4. ASSUME NEW x \in Alarm, NEW t \in Times, NEW i \in Intervals, initialize(x, t, i)
      PROVE  AlarmsInv'
  <2>1. t \in Tick64 /\ x \notin Adding(stack) /\ counter' = counter
        /\ add_alarm(x, t, Without(x), stack)
    BY <1>3, <1>4, AlarmsAssumption DEF initialize, Tick64
  <2>2. ListOK' /\ AddingOK'
    BY <1>1, <1>2, <2>1, WithoutFacts, AddAlarmInv
  <2> QED BY <1>1, <2>2 DEF AlarmsInv
<1>5. ASSUME NEW x \in Alarm, enable(x) PROVE AlarmsInv'
  <2> DEFINE t == synchronize(trigger[x], interval[x])
  <2>1. /\ x \notin Adding(stack) /\ x \notin Range(alarm_list) /\ counter' = counter
        /\ add_alarm(x, t, alarm_list, stack)
    BY <1>2, <1>3, <1>5 DEF enable
  <2>2. t \in Tick64
    BY <1>2, SynchronizeType
  <2> HIDE DEF t
  <2>3. ListOK' /\ AddingOK'
    BY <1>1, <1>2, <2>1, <2>2, AddAlarmInv
  <2> QED BY <1>1, <2>3 DEF AlarmsInv
<1>6. ASSUME NEW x \in Alarm, disable(x) PROVE AlarmsInv'
  <2>1. /\ alarm_list' = Without(x)
        /\ enabled' = [enabled EXCEPT ![x] = FALSE]
        /\ UNCHANGED <<counter, trigger, stack>>
    BY <1>6 DEF disable
  <2>2. \A y \in Alarm : enabled'[y] = IF y = x THEN FALSE ELSE enabled[y]
    BY <1>1, <2>1 DEF AlarmsTypeOK
  <2>3. ListOK'
    BY <1>2, <2>1, <2>2, WithoutFacts DEF ListOK
  <2>4. AddingOK'
    BY <2>1 DEF AlarmsInv, AddingOK
  <2> QED BY <1>1, <2>3, <2>4 DEF AlarmsInv
<1>7. ASSUME NEW x \in Alarm, AddReturns(x) PROVE AlarmsInv'
  <2>1. stack # <<>> /\ Last(stack) = Now(x) /\ stack' = Front(stack)
    BY <1>7 DEF AddReturns
  <2>2. {y \in Alarm : Now(x) = Now(y)} = {x}
    BY FrameFacts
  <2>3. /\ Adding(stack) = Adding(stack') \cup {x}
        /\ x \notin Adding(stack')
        /\ Once(stack')
    BY <1>2, <2>1, <2>2, PopFacts
  <2>4. TickAtBottom(stack')
    BY <1>2, <2>1, BottomFacts
  <2>5. trigger[x] <= counter /\ x \notin Range(alarm_list) /\ counter' = counter
    BY <1>2, <1>7, <2>3 DEF AddReturns
  <2>6. CASE interval[x] # 0 /\ enabled[x]
    <3> DEFINE t == synchronize((trigger[x] + interval[x]) % TickMod, interval[x])
    <3>1. trigger' = [trigger EXCEPT ![x] = t] /\ alarm_list' = Append(alarm_list, x)
          /\ UNCHANGED enabled
      BY <1>1, <1>7, <2>6 DEF AddReturns, AlarmsTypeOK
    <3> HIDE DEF t
    <3>2. Range(alarm_list') = Range(alarm_list) \cup {x} /\ IsInjective(alarm_list')
      BY <1>2, <2>5, <3>1, AppendFacts
    <3>3. ListOK'
      BY <1>2, <2>3, <2>6, <3>1, <3>2 DEF ListOK
    <3>4. \A y \in Alarm : y # x => trigger'[y] = trigger[y]
      BY <1>1, <3>1 DEF AlarmsTypeOK
    <3>5. Adding(stack') \subseteq Alarm
      BY DEF Adding
    <3>6. AddingOK'
      BY <1>2, <2>3, <2>4, <2>5, <3>4, <3>5 DEF AddingOK
    <3> QED BY <1>1, <3>3, <3>6 DEF AlarmsInv
  <2>7. CASE ~(interval[x] # 0 /\ enabled[x])
    <3>1. /\ enabled' = [enabled EXCEPT ![x] = FALSE]
          /\ UNCHANGED <<alarm_list, trigger>>
      BY <1>7, <2>7 DEF AddReturns
    <3>2. \A y \in Alarm : enabled'[y] = IF y = x THEN FALSE ELSE enabled[y]
      BY <1>1, <3>1 DEF AlarmsTypeOK
    <3>3. ListOK'
      BY <1>2, <2>3, <2>5, <3>1, <3>2 DEF ListOK
    <3>4. AddingOK'
      BY <1>2, <2>3, <2>4, <2>5, <3>1 DEF AddingOK
    <3> QED BY <1>1, <3>3, <3>4 DEF AlarmsInv
  <2> QED BY <2>6, <2>7
<1>8. CASE Tick
  <2>1. stack = <<>> /\ stack' = <<TickFrame>>
        /\ UNCHANGED <<alarm_list, trigger, enabled>>
    BY <1>8 DEF Tick
  <2>2. Adding(stack) = {} /\ Adding(stack') = {} /\ Once(stack')
    BY <2>1, FrameFacts
  <2>3. TickAtBottom(stack')
    BY <2>1 DEF TickAtBottom
  <2> QED BY <1>1, <2>1, <2>2, <2>3, AlarmsKept
<1>9. CASE Expire
  <2> DEFINE x == alarm_list[node]
             rest == RemoveFirst(alarm_list, x)
             calls == Append(stack, CallOf(x))
  <2>1. x \in Alarm /\ x \in Range(alarm_list) /\ trigger[x] <= counter
    BY <1>1, <1>9, NodeFacts DEF Expire
  <2> HIDE DEF x
  <2>2. x \notin Adding(stack) /\ counter' = counter
    BY <1>2, <1>9, <2>1 DEF Expire
  <2>3. rest \in Seq(Alarm) /\ IsInjective(rest) /\ Range(rest) = Range(alarm_list) \ {x}
    BY <1>2, RemoveFirstFacts
  <2>4. /\ CallOf(x) \in Frame /\ CallOf(x) # TickFrame
        /\ \A y \in Alarm : CallOf(x) # Now(y)
    BY <2>1, FrameFacts
  <2>5. calls \in Seq(Frame) /\ Once(calls) /\ Adding(calls) = Adding(stack)
    BY <1>2, <2>4, PushFacts
  <2>6. TickAtBottom(calls)
    BY <1>2, <2>4, BottomFacts
  <2> HIDE DEF rest, calls
  <2>7. CASE interval[x] # 0
    <3> DEFINE u == (trigger[x] + interval[x]) % TickMod
    <3>1. u \in Tick64
      BY <1>2, <2>1, <2>7, NextTrigger
    <3>2. add_alarm(x, u, rest, calls)
      BY <1>9, <2>7 DEF Expire, x, rest, calls
    <3> HIDE DEF u
    <3>3. x \notin Range(rest) /\ x \notin Adding(calls)
          /\ \A y \in Alarm : y # x => (y \in Range(rest) <=> enabled[y] /\ y \notin Adding(calls))
      BY <1>2, <2>2, <2>3, <2>5
    <3>4. \A y \in Adding(calls) : trigger[y] <= counter
      BY <1>2, <2>5
    <3>5. ListOK' /\ AddingOK'
      BY <1>1, <2>1, <2>2, <2>3, <2>5, <2>6, <3>1, <3>2, <3>3, <3>4, AddAlarmInv
    <3> QED BY <1>1, <3>5 DEF AlarmsInv
  <2>8. CASE interval[x] = 0
    <3>1. /\ alarm_list' = rest /\ stack' = calls
          /\ enabled' = [enabled EXCEPT ![x] = FALSE]
          /\ UNCHANGED trigger
      BY <1>9, <2>8 DEF Expire, x, rest, calls
    <3>2. \A y \in Alarm : enabled'[y] = IF y = x THEN FALSE ELSE enabled[y]
      BY <1>1, <3>1 DEF AlarmsTypeOK
    <3>3. ListOK'
      BY <1>2, <2>3, <2>5, <3>1, <3>2 DEF ListOK
    <3>4. AddingOK'
      BY <1>2, <2>2, <2>5, <2>6, <3>1 DEF AddingOK
    <3> QED BY <1>1, <3>3, <3>4 DEF AlarmsInv
  <2> QED BY <2>7, <2>8
<1>10. CASE CallFunction
  <2>1. stack # <<>> /\ Last(stack).at = "call" /\ counter' = counter
        /\ stack' = Append(Front(stack), Due(Last(stack).alarm))
        /\ UNCHANGED <<alarm_list, trigger, enabled>>
    BY <1>10 DEF CallFunction
  <2>2. /\ Front(stack) \in Seq(Frame) /\ Last(stack) \in Frame
        /\ Once(Front(stack)) /\ TickAtBottom(Front(stack))
        /\ Adding(stack) = Adding(Front(stack)) \cup {y \in Alarm : Last(stack) = Now(y)}
    BY <1>2, <2>1, PopFacts, BottomFacts
  <2>3. PICK x \in Alarm : Last(stack) = CallOf(x)
    BY <2>1, <2>2 DEF Frame, TickFrame, CallOf, Due, Now
  <2>4. Last(stack).alarm = x
    BY <2>3 DEF CallOf
  <2>5. /\ Due(x) \in Frame /\ Due(x) # TickFrame
        /\ \A y \in Alarm : Due(x) # Now(y) /\ Last(stack) # Now(y)
    BY <2>3, FrameFacts
  <2>6. Once(stack') /\ Adding(stack') = Adding(stack)
    BY <2>1, <2>2, <2>4, <2>5, PushFacts
  <2>7. TickAtBottom(stack')
    BY <2>1, <2>2, <2>4, <2>5, BottomFacts
  <2> QED BY <1>1, <2>1, <2>6, <2>7, AlarmsKept
<1>11. CASE FunctionReturns
  <2>1. stack # <<>> /\ Last(stack).at = "due" /\ stack' = Front(stack) /\ counter' = counter
        /\ UNCHANGED <<alarm_list, trigger, enabled>>
    BY <1>11 DEF FunctionReturns
  <2>2. \A y \in Alarm : Last(stack) # Now(y)
    BY <2>1 DEF Now
  <2>3. Once(stack') /\ TickAtBottom(stack')
    BY <1>2, <2>1, PopFacts, BottomFacts
  <2>4. Adding(stack) = Adding(stack') \cup {y \in Alarm : Last(stack) = Now(y)}
    BY <1>2, <2>1, PopFacts
  <2>5. Adding(stack') = Adding(stack)
    BY <2>2, <2>4
  <2> QED BY <1>1, <2>1, <2>3, <2>5, AlarmsKept
<1>12. CASE TickDone
  <2>1. stack # <<>> /\ Last(stack) = TickFrame /\ stack' = <<>> /\ counter' = counter
        /\ UNCHANGED <<alarm_list, trigger, enabled>>
    BY <1>12 DEF TickDone, Scanning
  <2>2. Adding(stack) = {}
    BY <1>2, <2>1, BottomFacts
  <2>3. Once(stack') /\ Adding(stack') = {} /\ TickAtBottom(stack')
    BY <2>1, FrameFacts DEF TickAtBottom
  <2> QED BY <1>1, <2>1, <2>2, <2>3, AlarmsKept
<1>13. ASSUME NEW v \in 0..MaxCounter, set_value(v) PROVE AlarmsInv'
  <2>1. stack = <<>> /\ stack' = stack
        /\ UNCHANGED <<alarm_list, trigger, enabled>>
    BY <1>13 DEF set_value
  <2>2. Adding(stack) = {} /\ Adding(stack') = Adding(stack) /\ Once(stack') /\ TickAtBottom(stack')
    BY <1>2, <2>1, FrameFacts
  <2> QED BY <1>1, <2>1, <2>2, AlarmsKept
<1>14. CASE ScanNext \/ UNCHANGED alarms
  <2>1. UNCHANGED <<counter, alarm_list, trigger, enabled, stack>>
    BY <1>14 DEF alarms, ScanNext
  <2> QED BY <1>1, <1>2, <2>1, AlarmsKept
<1> QED
  BY <1>4, <1>5, <1>6, <1>7, <1>8, <1>9, <1>10, <1>11, <1>12, <1>13, <1>14 DEF AlarmsNext

\* The invariant holds of the initial state.
LEMMA AlarmsInitInv == AlarmsInit /\ TickInv => AlarmsInv
<1> SUFFICES ASSUME AlarmsInit, TickInv PROVE AlarmsInv
  OBVIOUS
<1>1. stack = <<>> /\ alarm_list = <<>> /\ Adding(stack) = {} /\ Once(stack)
  BY FrameFacts DEF AlarmsInit
<1>2. ListOK
  BY <1>1 DEF AlarmsInit, ListOK, IsInjective, Range
<1>3. AddingOK
  BY <1>1 DEF AddingOK, TickAtBottom
<1> QED BY <1>2, <1>3 DEF AlarmsInv

\* The list and the calls agree as long as no alarm function has
\* the alarm that add_alarm() is adding queued again.
THEOREM AlarmsInvTheorem == ~RearmInside => (AlarmsSpec => []AlarmsInv)
<1> SUFFICES ASSUME ~RearmInside PROVE AlarmsSpec => []AlarmsInv
  OBVIOUS
<1>1. AlarmsInv /\ [AlarmsNext]_alarms => AlarmsInv'
  BY AlarmsStep
<1> QED BY <1>1, AlarmsInitInv, TickInvTheorem, PTL DEF AlarmsSpec

\* An alarm is on the list exactly once if it is enabled and not at all
\* otherwise, whatever alarm functions do with the other alarms: disable(),
\* initialize() and tick() unlink an alarm that is there.
THEOREM QueuedTheorem == ~RearmInside => (AlarmsSpec => []QueuedIffEnabled)
<1> SUFFICES ASSUME ~RearmInside PROVE AlarmsSpec => []QueuedIffEnabled
  OBVIOUS
<1>1. AlarmsInv => QueuedIffEnabled
  <2> SUFFICES ASSUME AlarmsInv, NEW x \in Alarm, ~InAdd(x)
               PROVE  Cardinality({n \in DOMAIN alarm_list : alarm_list[n] = x})
                        = IF enabled[x] THEN 1 ELSE 0
    BY DEF QueuedIffEnabled
  <2> DEFINE N == {n \in DOMAIN alarm_list : alarm_list[n] = x}
  <2>1. x \in Range(alarm_list) <=> enabled[x]
    BY DEF AlarmsInv, ListOK, InAdd, Adding
  <2>2. CASE enabled[x]
    <3>1. PICK n \in DOMAIN alarm_list : alarm_list[n] = x
      BY <2>1, <2>2 DEF Range
    <3>2. N = {n}
      BY <3>1 DEF AlarmsInv, ListOK, IsInjective
    <3>3. Cardinality({n}) = 1
      BY FS_Singleton
    <3> QED BY <2>2, <3>2, <3>3
  <2>3. CASE ~enabled[x]
    <3>1. N = {}
      BY <2>1, <2>3 DEF Range
    <3> QED BY <2>3, <3>1, FS_EmptySet
  <2> QED BY <2>2, <2>3
<1> QED BY <1>1, AlarmsInvTheorem, PTL

-----------------------------------------------------------------------------
(* The phases *)

\* A trigger that is set and one that is kept.
LEMMA PhaseKept ==
    ASSUME AlarmsTypeOK, InPhase, NEW x \in Alarm, NEW t,
           trigger' = [trigger EXCEPT ![x] = t],
           interval' = interval, phase' = phase,
           PhaseOf(t, interval[x]) = PhaseOf(trigger[x], interval[x])
    PROVE  InPhase'
<1>1. \A y \in Alarm : trigger'[y] = IF y = x THEN t ELSE trigger[y]
  BY DEF AlarmsTypeOK
<1> QED BY <1>1 DEF InPhase

\* An alarm that enable() may meet far ahead has an interval that divides 2^64.
AheadDivides == \A i \in EnableAhead \ {0} : TickMod % i = 0

\* Every step keeps the phases.
LEMMA PhaseStep ==
    ASSUME ~RearmInside, AheadDivides
    PROVE  AlarmsInv /\ InPhase /\ [AlarmsNext]_alarms => InPhase'
<1> SUFFICES ASSUME AlarmsInv, InPhase, [AlarmsNext]_alarms PROVE InPhase'
  OBVIOUS
<1>1. /\ AlarmsTypeOK /\ WalkOK
      /\ \A y \in Adding(stack) : trigger[y] <= counter
      /\ counter \in 0..MaxCounter /\ stack \in Seq(Frame)
      /\ \A y \in Alarm : trigger[y] \in Tick64 /\ interval[y] \in Interval
  BY DEF AlarmsInv, TickInv, AlarmsTypeOK, AddingOK
<1>2. ASSUME NEW x \in Alarm, NEW t \in Times, NEW i \in Intervals, initialize(x, t, i)
      PROVE  InPhase'
  <2>1. /\ trigger' = [trigger EXCEPT ![x] = t]
        /\ interval' = [interval EXCEPT ![x] = i]
        /\ phase' = [phase EXCEPT ![x] = PhaseOf(t, i)]
    BY <1>2 DEF initialize, add_alarm
  <2>2. /\ \A y \in Alarm : trigger'[y] = IF y = x THEN t ELSE trigger[y]
        /\ \A y \in Alarm : interval'[y] = IF y = x THEN i ELSE interval[y]
        /\ \A y \in Alarm : phase'[y] = IF y = x THEN PhaseOf(t, i) ELSE phase[y]
    BY <1>1, <2>1 DEF AlarmsTypeOK
  <2> QED BY <2>2 DEF InPhase
<1>3. ASSUME NEW x \in Alarm, enable(x) PROVE InPhase'
  <2> DEFINE i == interval[x]
             t == synchronize(trigger[x], i)
  <2>1. trigger' = [trigger EXCEPT ![x] = t] /\ UNCHANGED <<interval, phase>>
    BY <1>3 DEF enable, add_alarm
  <2>2. i \in Nat /\ trigger[x] \in Nat /\ counter \in Nat
    BY <1>1, IntervalFacts, AlarmsAssumption DEF Tick64
  <2>3. CASE i # 0 /\ trigger[x] > counter + i
    <3>1. TickMod % i = 0
      BY <1>3, <2>3 DEF enable, Ahead, AheadDivides
    <3>2. PhaseOf(t, i) = PhaseOf(trigger[x], i)
      BY <1>1, <2>3, <3>1, SynchronizeWraps
    <3> QED BY <1>1, <2>1, <3>2, PhaseKept
  <2>4. CASE trigger[x] <= counter + i
    <3>1. PhaseOf(t, i) = PhaseOf(trigger[x], i)
      BY <1>1, <2>4, SynchronizePhase
    <3> QED BY <1>1, <2>1, <3>1, PhaseKept
  <2>5. CASE i = 0
    <3>1. t = trigger[x]
      BY <2>5 DEF synchronize
    <3> QED BY <1>1, <2>1, <3>1, PhaseKept
  <2> QED BY <2>2, <2>3, <2>4, <2>5
<1>4. ASSUME NEW x \in Alarm, AddReturns(x) PROVE InPhase'
  <2>1. stack # <<>> /\ Last(stack) = Now(x) /\ UNCHANGED <<interval, phase>>
    BY <1>4 DEF AddReturns
  <2>2. x \in Adding(stack)
    BY <1>1, <2>1, PopFacts
  <2>3. CASE interval[x] # 0 /\ enabled[x]
    <3> DEFINE u == (trigger[x] + interval[x]) % TickMod
               t == synchronize(u, interval[x])
    <3>1. u \in Tick64 /\ u <= counter + interval[x]
          /\ PhaseOf(u, interval[x]) = PhaseOf(trigger[x], interval[x])
      BY <1>1, <2>2, <2>3, NextTrigger
    <3>2. trigger' = [trigger EXCEPT ![x] = t]
      BY <1>1, <1>4, <2>3 DEF AddReturns, AlarmsTypeOK
    <3> HIDE DEF u
    <3>3. PhaseOf(t, interval[x]) = PhaseOf(trigger[x], interval[x])
      BY <1>1, <3>1, SynchronizePhase
    <3> HIDE DEF t
    <3> QED BY <1>1, <2>1, <3>2, <3>3, PhaseKept
  <2>4. CASE ~(interval[x] # 0 /\ enabled[x])
    <3>1. trigger' = trigger
      BY <1>4, <2>4 DEF AddReturns
    <3> QED BY <2>1, <3>1 DEF InPhase
  <2> QED BY <2>3, <2>4
<1>5. CASE Expire
  <2> DEFINE x == alarm_list[node]
             u == (trigger[x] + interval[x]) % TickMod
  <2>1. x \in Alarm /\ trigger[x] <= counter /\ UNCHANGED <<interval, phase>>
    BY <1>1, <1>5, NodeFacts DEF Expire
  <2>2. IF interval[x] # 0 THEN trigger' = [trigger EXCEPT ![x] = u] ELSE trigger' = trigger
    BY <1>5 DEF Expire, add_alarm
  <2> HIDE DEF x
  <2>3. CASE interval[x] # 0
    <3>1. PhaseOf(u, interval[x]) = PhaseOf(trigger[x], interval[x])
      BY <1>1, <2>1, <2>3, NextTrigger
    <3> QED BY <1>1, <2>1, <2>2, <2>3, <3>1, PhaseKept
  <2>4. CASE interval[x] = 0
    BY <2>1, <2>2, <2>4 DEF InPhase
  <2> QED BY <2>3, <2>4
<1>6. CASE UNCHANGED <<trigger, interval, phase>>
  BY <1>6 DEF InPhase
<1>7. ASSUME \/ \E x \in Alarm : disable(x)
             \/ Tick \/ ScanNext \/ CallFunction \/ FunctionReturns \/ TickDone
             \/ \E v \in 0..MaxCounter : set_value(v)
             \/ UNCHANGED alarms
      PROVE  UNCHANGED <<trigger, interval, phase>>
  BY <1>7 DEF disable, Tick, ScanNext, CallFunction, FunctionReturns, TickDone, set_value, alarms
<1> QED
  BY <1>2, <1>3, <1>4, <1>5, <1>6, <1>7 DEF AlarmsNext

\* A periodic alarm keeps the phase it was initialized with through late
\* calls, jumps of the counter, disable() and enable().  enable() may meet it
\* more than an interval ahead, where synchronize() wraps round 2^64, if its
\* interval divides 2^64.
THEOREM InPhaseTheorem ==
    ~RearmInside /\ AheadDivides => (AlarmsSpec => []InPhase)
<1> SUFFICES ASSUME ~RearmInside, AheadDivides PROVE AlarmsSpec => []InPhase
  OBVIOUS
<1>1. AlarmsInit => InPhase
  BY DEF AlarmsInit, InPhase, PhaseOf
<1>2. AlarmsInv /\ InPhase /\ [AlarmsNext]_alarms => InPhase'
  BY PhaseStep
<1>3. AlarmsSpec => []AlarmsInv
  BY AlarmsInvTheorem
<1> QED BY <1>1, <1>2, <1>3, PTL DEF AlarmsSpec
=============================================================================
