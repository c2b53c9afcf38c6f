---------------------------- MODULE SequenceFacts ---------------------------
(***************************************************************************)
(* Facts about the operators of SequencesExt that the models use for the   *)
(* kernel's linked lists: the run queues, the wait queues, the alarm list. *)
(***************************************************************************)
EXTENDS Integers, Sequences, SequencesExt, TLAPS, SequenceTheorems,
        WellFoundedInduction

\* A non-empty set of naturals has a minimum, and Min returns it.
LEMMA MinOfNats ==
    ASSUME NEW S, S \subseteq Nat, S # {}
    PROVE  Min(S) \in S /\ \A x \in S : Min(S) <= x
<1>1. PICK x \in S : \A y \in S : ~(<<y, x>> \in OpToRel(<, Nat))
  BY WFMin, NatLessThanWellFounded
<1>2. ASSUME NEW y \in S PROVE x <= y
  <2>1. ~(<<y, x>> \in {ss \in Nat \X Nat : ss[1] < ss[2]})
    BY <1>1 DEF OpToRel
  <2> QED BY <2>1
<1> QED BY <1>2 DEF Min

\* A set that has 0 and, with each natural, the next one has them all.
LEMMA SetInduction ==
    ASSUME NEW S, 0 \in S, \A n \in Nat : n \in S => n + 1 \in S
    PROVE  Nat \subseteq S
<1> DEFINE T == Nat \ S
<1> SUFFICES ASSUME T # {} PROVE FALSE
  OBVIOUS
<1>1. PICK x \in T : \A y \in T : ~(<<y, x>> \in OpToRel(<, Nat))
  BY NatLessThanWellFounded, WFMin DEF T
<1>2. x \in Nat /\ x # 0 /\ x \notin S
  BY <1>1
<1>3. x - 1 \in Nat /\ (x - 1) + 1 = x
  BY <1>2
<1>4. <<x - 1, x>> \in OpToRel(<, Nat)
  BY <1>2, <1>3 DEF OpToRel
<1>5. x - 1 \in S
  BY <1>1, <1>3, <1>4
<1> QED BY <1>2, <1>3, <1>5

\* The sequence without its j-th element.
LEMMA RemoveAtFacts ==
    ASSUME NEW S, NEW s \in Seq(S), NEW j \in 1..Len(s)
    PROVE  /\ RemoveAt(s, j) \in Seq(S)
           /\ Len(RemoveAt(s, j)) = Len(s) - 1
           /\ \A i \in 1..(Len(s) - 1) :
                 RemoveAt(s, j)[i] = IF i < j THEN s[i] ELSE s[i + 1]
<1> DEFINE u == SubSeq(s, 1, j - 1)
           v == SubSeq(s, j + 1, Len(s))
<1>1. /\ u \in Seq(S)
      /\ Len(u) = j - 1
      /\ \A i \in 1..(j - 1) : u[i] = s[i]
  BY SubSeqProperties, ElementOfSeq
<1>2. /\ v \in Seq(S)
      /\ Len(v) = Len(s) - j
      /\ \A i \in 1..(Len(s) - j) : v[i] = s[i + j]
  BY SubSeqProperties, ElementOfSeq
<1>3. RemoveAt(s, j) = u \o v
  BY DEF RemoveAt
<1> HIDE DEF u, v
<1>4. Len(s) \in Nat /\ j \in Int
  BY LenProperties
<1>5. u \o v \in Seq(S) /\ Len(u \o v) = Len(s) - 1
  <2>1. u \o v \in Seq(S) /\ Len(u \o v) = Len(u) + Len(v)
    BY <1>1, <1>2, ConcatProperties
  <2> QED BY <2>1, <1>4, <1>1, <1>2
<1>6. ASSUME NEW i \in 1..(Len(s) - 1)
      PROVE  (u \o v)[i] = IF i < j THEN s[i] ELSE s[i + 1]
  <2>1. /\ i \in 1..(Len(u) + Len(v))
        /\ (u \o v)[i] = IF i <= Len(u) THEN u[i] ELSE v[i - Len(u)]
    BY <1>1, <1>2, ConcatProperties, <1>4
  <2>2. CASE i < j
    BY <2>1, <2>2, <1>1
  <2>3. CASE i >= j
    <3>1. i - (j - 1) \in 1..(Len(s) - j) /\ (i - (j - 1)) + j = i + 1
      BY <2>3, <1>4
    <3> QED BY <3>1, <2>1, <2>3, <1>1, <1>2
  <2>4. i < j \/ i >= j
    BY <1>4
  <2> QED BY <2>2, <2>3, <2>4
<1> QED BY <1>3, <1>5, <1>6

\* RemoveFirst leaves the sequence alone or removes one occurrence.
LEMMA RemoveFirstCases ==
    ASSUME NEW S, NEW s \in Seq(S), NEW e
    PROVE  \/ e \notin Range(s) /\ RemoveFirst(s, e) = s
           \/ \E j \in 1..Len(s) : s[j] = e /\ RemoveFirst(s, e) = RemoveAt(s, j)
<1> DEFINE I == {i \in 1..Len(s) : s[i] = e}
<1>1. CASE I = {}
  <2>1. RemoveFirst(s, e) = s
    BY <1>1 DEF RemoveFirst
  <2>2. e \notin Range(s)
    BY <1>1 DEF Range
  <2> QED BY <2>1, <2>2
<1>2. CASE I # {}
  <2>1. Min(I) \in I
    BY <1>2, MinOfNats, I \subseteq Nat
  <2>2. RemoveFirst(s, e) = RemoveAt(s, Min(I))
    BY <1>2, Zenon DEF RemoveFirst, SelectInSeq
  <2> QED BY <2>1, <2>2
<1> QED BY <1>1, <1>2

\* Removing an element from a list that holds it at most once removes it.
LEMMA RemoveFirstFacts ==
    ASSUME NEW S, NEW s \in Seq(S), NEW e
    PROVE  /\ RemoveFirst(s, e) \in Seq(S)
           /\ IsInjective(s) => /\ IsInjective(RemoveFirst(s, e))
                                /\ Range(RemoveFirst(s, e)) = Range(s) \ {e}
<1>1. CASE e \notin Range(s) /\ RemoveFirst(s, e) = s
  BY <1>1
<1>2. ASSUME NEW j \in 1..Len(s), s[j] = e, RemoveFirst(s, e) = RemoveAt(s, j)
      PROVE  /\ RemoveFirst(s, e) \in Seq(S)
             /\ IsInjective(s) => /\ IsInjective(RemoveFirst(s, e))
                                  /\ Range(RemoveFirst(s, e)) = Range(s) \ {e}
  <2> DEFINE r == RemoveAt(s, j)
  <2>1. /\ r \in Seq(S)
        /\ Len(r) = Len(s) - 1
        /\ \A i \in 1..(Len(s) - 1) : r[i] = IF i < j THEN s[i] ELSE s[i + 1]
    BY RemoveAtFacts
  <2> HIDE DEF r
  <2>2. /\ DOMAIN s = 1..Len(s)
        /\ DOMAIN r = 1..(Len(s) - 1)
        /\ Len(s) \in Nat
    BY <2>1, LenProperties
  <2> DEFINE h(i) == IF i < j THEN i ELSE i + 1
  <2>5. \A i \in DOMAIN r : r[i] = s[h(i)] /\ h(i) \in DOMAIN s /\ h(i) # j
    BY <2>1, <2>2
  <2>6. \A i, m \in DOMAIN r : h(i) = h(m) => i = m
    BY <2>2
  <2>3. ASSUME IsInjective(s) PROVE IsInjective(r)
    <3> HIDE DEF h
    <3>1. ASSUME NEW i \in DOMAIN r, NEW m \in DOMAIN r, r[i] = r[m] PROVE i = m
      <4>1. h(i) = h(m)
        BY <2>3, <2>5, <3>1 DEF IsInjective
      <4> QED BY <2>6, <4>1
    <3> QED BY <3>1 DEF IsInjective
  <2>4. ASSUME IsInjective(s) PROVE Range(r) = Range(s) \ {e}
    <3>1. Range(r) \subseteq Range(s) \ {e}
      <4> HIDE DEF h
      <4>1. ASSUME NEW i \in DOMAIN r PROVE r[i] \in Range(s) /\ r[i] # e
        <5>1. s[h(i)] # s[j] /\ j \in DOMAIN s
          BY <2>2, <2>4, <2>5 DEF IsInjective
        <5> QED BY <1>2, <2>5, <5>1 DEF Range
      <4> QED BY <4>1 DEF Range
    <3>2. ASSUME NEW i \in 1..Len(s), s[i] # e PROVE s[i] \in Range(r)
      <4>1. CASE i < j
        BY <4>1, <2>1, <2>2 DEF Range
      <4>2. CASE i > j
        <5>1. i - 1 \in DOMAIN r /\ r[i - 1] = s[i]
          BY <4>2, <2>1, <2>2
        <5> QED BY <5>1 DEF Range
      <4> QED BY <4>1, <4>2, <1>2, <3>2
    <3> QED BY <3>1, <3>2, <2>2 DEF Range
  <2> QED BY <2>1, <2>3, <2>4, <1>2 DEF r
<1> QED BY <1>1, <1>2, RemoveFirstCases

\* Appending an element that is not on the list keeps its entries distinct.
LEMMA AppendFacts ==
    ASSUME NEW S, NEW s \in Seq(S), NEW e \in S
    PROVE  /\ Append(s, e) \in Seq(S)
           /\ Append(s, e) # <<>>
           /\ Range(Append(s, e)) = Range(s) \cup {e}
           /\ IsInjective(s) /\ e \notin Range(s) => IsInjective(Append(s, e))
<1> DEFINE r == Append(s, e)
<1>1. /\ r \in Seq(S)
      /\ r # <<>>
      /\ Len(r) = Len(s) + 1
      /\ \A i \in 1..Len(s) : r[i] = s[i]
      /\ r[Len(s) + 1] = e
  BY AppendProperties
<1>2. /\ DOMAIN s = 1..Len(s)
      /\ DOMAIN r = 1..(Len(s) + 1)
      /\ Len(s) \in Nat
  BY <1>1, LenProperties
<1> HIDE DEF r
<1>3. Range(r) = Range(s) \cup {e}
  BY <1>1, <1>2 DEF Range
<1>4. ASSUME IsInjective(s), e \notin Range(s) PROVE IsInjective(r)
  BY <1>1, <1>2, <1>4 DEF IsInjective, Range
<1> QED BY <1>1, <1>3, <1>4 DEF r

\* A non-empty list has a head, which is one of its entries.
LEMMA HeadFacts ==
    ASSUME NEW S, NEW s \in Seq(S)
    PROVE  /\ s = <<>> <=> Range(s) = {}
           /\ s # <<>> => Head(s) \in S /\ Head(s) \in Range(s)
<1>1. DOMAIN s = 1..Len(s) /\ Len(s) \in Nat
  BY LenProperties
<1>2. CASE s = <<>>
  BY <1>2 DEF Range
<1>3. CASE s # <<>>
  <2>1. 1 \in DOMAIN s /\ Head(s) = s[1]
    BY <1>1, <1>3
  <2> QED BY <2>1, <1>1, <1>3, ElementOfSeq DEF Range
<1> QED BY <1>2, <1>3
=============================================================================
