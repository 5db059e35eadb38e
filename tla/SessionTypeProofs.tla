--------------------------- MODULE SessionTypeProofs ---------------------------
(* Proofs about AdapterSession, continued: what the operators on samples do   *)
(* to sequences that are in the order of their ticks, which scripts the       *)
(* operations of the adapter run through, and that every variable has its     *)
(* type.                                                                      *)
EXTENDS AdapterSessionProofs, FiniteSetTheorems, WellFoundedInduction

-----------------------------------------------------------------------------
(* Samples in the order of their ticks.                                      *)

Sorted(s) == \A i, j \in 1 .. Len(s) : i < j => s[i].tick < s[j].tick

\* A set of samples: all that matters is that they have a tick.
Ticked(S) == \A x \in S : x.tick \in Nat

\* What is counted is a part of the sequence.
LEMMA PassedType ==
    ASSUME NEW S, NEW s \in Seq(S), NEW t \in Int
    PROVE  Passed(s, t) \in 0 .. Len(s) /\ Len(s) \in Nat
<1> DEFINE D == {i \in DOMAIN s : s[i].tick <= t}
<1>1. DOMAIN s = 1 .. Len(s) /\ Len(s) \in Nat
  OBVIOUS
<1>2. IsFiniteSet(1 .. Len(s)) /\ Cardinality(1 .. Len(s)) = Len(s)
  BY <1>1, FS_Interval
<1>3. D \in SUBSET (1 .. Len(s))
  BY <1>1
<1> HIDE DEF D
<1>4. Cardinality(D) \in Nat /\ Cardinality(D) <= Len(s)
  BY <1>2, <1>3, FS_Subset, FS_CardinalityType
<1> QED
  BY <1>1, <1>4 DEF Passed, D

\* Samples up to t that come before all others are the ones that are counted.
LEMMA PassedIs ==
    ASSUME NEW S, NEW s \in Seq(S), Ticked(S), NEW t \in Int,
           NEW n \in 0 .. Len(s),
           \A i \in 1 .. n : s[i].tick <= t,
           \A i \in n + 1 .. Len(s) : s[i].tick > t
    PROVE  Passed(s, t) = n
<1>1. DOMAIN s = 1 .. Len(s) /\ Len(s) \in Nat /\ \A i \in 1 .. Len(s) : s[i].tick \in Nat
  BY DEF Ticked
<1>2. {i \in DOMAIN s : s[i].tick <= t} = 1 .. n
  <2>1. ASSUME NEW i \in 1 .. Len(s)
        PROVE  s[i].tick <= t <=> i \in 1 .. n
    <3>1. CASE i \in 1 .. n
      BY <3>1
    <3>2. CASE i \notin 1 .. n
      <4>1. i \in n + 1 .. Len(s)
        BY <3>2, <1>1
      <4> QED
        BY <3>2, <4>1, <1>1
    <3> QED
      BY <3>1, <3>2
  <2> QED
    BY <1>1, <2>1
<1>3. Cardinality(1 .. n) = n
  BY <1>1, FS_Interval
<1> QED
  BY <1>2, <1>3 DEF Passed

\* Samples in order have such a place.
LEMMA Cut ==
    ASSUME NEW S, NEW s \in Seq(S), Ticked(S), Sorted(s), NEW t \in Int
    PROVE  /\ Passed(s, t) \in 0 .. Len(s) /\ Len(s) \in Nat
           /\ \A i \in 1 .. Passed(s, t) : s[i].tick <= t
           /\ \A i \in Passed(s, t) + 1 .. Len(s) : s[i].tick > t
<1> DEFINE T == {n \in Nat : n <= Len(s) /\ \A i \in n + 1 .. Len(s) : s[i].tick > t}
<1>1. Len(s) \in Nat /\ \A i \in 1 .. Len(s) : s[i].tick \in Nat
  BY DEF Ticked
<1>2. Len(s) \in T /\ T \subseteq Nat
  BY <1>1
<1>3. PICK n \in T : \A m \in T : ~(<<m, n>> \in OpToRel(<, Nat))
  BY <1>2, NatLessThanWellFounded, WFMin
<1>4. \A m \in Nat : m < n => m \notin T
  <2>1. SUFFICES ASSUME NEW m \in Nat, m < n, m \in T PROVE FALSE
    OBVIOUS
  <2>2. <<m, n>> \in OpToRel(<, Nat)
    BY <2>1, <1>2 DEF OpToRel
  <2> QED
    BY <2>1, <2>2, <1>3
<1>5. n \in 0 .. Len(s) /\ \A i \in n + 1 .. Len(s) : s[i].tick > t
  BY <1>1
<1>6. \A i \in 1 .. n : s[i].tick <= t
  <2>1. SUFFICES ASSUME NEW i \in 1 .. n PROVE s[i].tick <= t
    OBVIOUS
  <2>2. n \in Nat /\ n - 1 \in Nat /\ n - 1 < n
    BY <2>1, <1>1, <1>5
  <2>3. PICK j \in n .. Len(s) : ~(s[j].tick > t)
    <3> HIDE DEF T
    <3>1. n - 1 \notin T
      BY <2>2, <1>4
    <3>2. n - 1 <= Len(s) /\ n - 1 + 1 = n
      BY <2>2, <1>1, <1>5
    <3> QED
      BY <3>1, <3>2, <2>2 DEF T
  <2>4. j = n
    BY <2>3, <1>5
  <2>5. s[n].tick <= t
    BY <2>3, <2>4, <1>1, <1>5
  <2>6. i = n \/ s[i].tick < s[n].tick
    BY <1>1, <1>5 DEF Sorted
  <2>7. s[i].tick \in Nat /\ s[n].tick \in Nat
    BY <1>1, <1>5
  <2> QED
    BY <2>5, <2>6, <2>7
<1>7. Passed(s, t) = n
  BY <1>5, <1>6, PassedIs
<1> QED
  BY <1>1, <1>5, <1>6, <1>7

\* What lies ahead of a tick.
LEMMA AfterType ==
    ASSUME NEW S, NEW s \in Seq(S), NEW t \in Int
    PROVE  After(s, t) \in Seq(S) /\ Len(After(s, t)) = Len(s) - Passed(s, t)
<1>1. Passed(s, t) \in 0 .. Len(s) /\ Len(s) \in Nat
  BY PassedType
<1> DEFINE n == Passed(s, t)
<1> HIDE DEF n
<1>2. \A i \in n + 1 .. Len(s) : s[i] \in S
  BY <1>1 DEF n
<1> QED
  BY <1>1, <1>2, SubSeqProperties DEF After, n

LEMMA BeforeType ==
    ASSUME NEW S, NEW s \in Seq(S), NEW t \in Int
    PROVE  Before(s, t) \in Seq(S) /\ Len(Before(s, t)) = Passed(s, t - 1)
<1> DEFINE n == Passed(s, t - 1)
<1>1. n \in 0 .. Len(s) /\ Len(s) \in Nat
  BY PassedType
<1> HIDE DEF n
<1>2. \A i \in 1 .. n : s[i] \in S
  BY <1>1
<1> QED
  BY <1>1, <1>2, SubSeqProperties DEF Before, n

LEMMA AfterOrder ==
    ASSUME NEW S, NEW s \in Seq(S), Ticked(S), Sorted(s), NEW t \in Int
    PROVE  /\ \A i \in 1 .. Len(After(s, t)) :
                 /\ After(s, t)[i] = s[Passed(s, t) + i]
                 /\ After(s, t)[i].tick > t
           /\ Sorted(After(s, t))
           /\ After(s, t) # <<>> => s # <<>> /\ LastTick(After(s, t)) = LastTick(s)
           /\ After(s, t) = <<>> => \A i \in 1 .. Len(s) : s[i].tick <= t
<1> DEFINE n == Passed(s, t)
           a == After(s, t)
<1>1. /\ n \in 0 .. Len(s) /\ Len(s) \in Nat
      /\ \A i \in 1 .. n : s[i].tick <= t
      /\ \A i \in n + 1 .. Len(s) : s[i].tick > t
  BY Cut
<1>2. a \in Seq(S) /\ Len(a) = Len(s) - n
  BY AfterType
<1>3. a = SubSeq(s, n + 1, Len(s))
  BY DEF After
<1> HIDE DEF n, a
<1>4. \A i \in n + 1 .. Len(s) : s[i] \in S
  BY <1>1
<1>5. \A i \in 1 .. Len(s) - n : a[i] = s[n + i]
  <2> SUFFICES ASSUME NEW i \in 1 .. Len(s) - n PROVE a[i] = s[n + i]
    OBVIOUS
  <2>1. i \in 1 .. Len(s) - (n + 1) + 1 /\ (n + 1) + i - 1 = n + i
    BY <1>1
  <2>2. a[i] = s[(n + 1) + i - 1]
    BY <1>1, <1>3, <1>4, <2>1, SubSeqProperties
  <2> QED
    BY <2>1, <2>2
<1>6. \A i \in 1 .. Len(a) : n + i \in n + 1 .. Len(s) /\ n + i \in 1 .. Len(s)
  BY <1>1, <1>2
<1>7. \A i \in 1 .. Len(a) : a[i] = s[n + i] /\ a[i].tick > t
  BY <1>1, <1>2, <1>5, <1>6
<1>8. Sorted(a)
  <2> SUFFICES ASSUME NEW i \in 1 .. Len(a), NEW j \in 1 .. Len(a), i < j
               PROVE  a[i].tick < a[j].tick
    BY DEF Sorted
  <2>1. n + i \in 1 .. Len(s) /\ n + j \in 1 .. Len(s) /\ n + i < n + j
    BY <1>1, <1>6
  <2> QED
    BY <2>1, <1>7 DEF Sorted
<1>9. a # <<>> => s # <<>> /\ LastTick(a) = LastTick(s)
  <2> SUFFICES ASSUME a # <<>> PROVE s # <<>> /\ LastTick(a) = LastTick(s)
    OBVIOUS
  <2>1. Len(a) \in 1 .. Len(a) /\ Len(a) \in Nat
    BY <1>2
  <2>2. n + Len(a) = Len(s) /\ Len(s) # 0
    BY <1>1, <1>2, <2>1
  <2> QED
    BY <1>7, <2>1, <2>2 DEF LastTick
<1>10. a = <<>> => \A i \in 1 .. Len(s) : s[i].tick <= t
  <2> SUFFICES ASSUME a = <<>> PROVE n = Len(s)
    BY <1>1
  <2>1. Len(a) = 0
    OBVIOUS
  <2> QED
    BY <1>1, <1>2, <2>1
<1> QED
  BY <1>7, <1>8, <1>9, <1>10 DEF n, a

LEMMA BeforeOrder ==
    ASSUME NEW S, NEW s \in Seq(S), Ticked(S), Sorted(s), NEW t \in Int
    PROVE  /\ \A i \in 1 .. Len(Before(s, t)) :
                 Before(s, t)[i] = s[i] /\ Before(s, t)[i].tick < t
           /\ Sorted(Before(s, t))
<1> DEFINE n == Passed(s, t - 1)
           a == Before(s, t)
<1>1. /\ n \in 0 .. Len(s) /\ Len(s) \in Nat
      /\ \A i \in 1 .. n : s[i].tick <= t - 1
  <2>1. t - 1 \in Int
    OBVIOUS
  <2> QED
    BY <2>1, Cut
<1>2. a \in Seq(S) /\ Len(a) = n
  BY BeforeType
<1>3. a = SubSeq(s, 1, n)
  BY DEF Before
<1> HIDE DEF n, a
<1>4. \A i \in 1 .. n : s[i] \in S /\ i \in 1 .. Len(s) /\ s[i].tick \in Nat
  BY <1>1 DEF Ticked
<1>5. \A i \in 1 .. n : a[i] = s[i]
  <2>1. \A i \in 1 .. n - 1 + 1 : a[i] = s[1 + i - 1]
    BY <1>1, <1>3, <1>4, SubSeqProperties
  <2>2. n - 1 + 1 = n /\ \A i \in Int : 1 + i - 1 = i
    BY <1>1
  <2> QED
    BY <2>1, <2>2
<1>6. \A i \in 1 .. n : a[i] = s[i] /\ a[i].tick < t
  BY <1>1, <1>4, <1>5
<1>7. Sorted(a)
  BY <1>1, <1>2, <1>4, <1>5 DEF Sorted
<1> QED
  BY <1>2, <1>6, <1>7 DEF a, n

-----------------------------------------------------------------------------
(* How samples are cut, joined and taken.                                    *)

\* Nothing lies ahead in an empty queue.
LEMMA NothingAhead ==
    ASSUME NEW t \in Int
    PROVE  After(<<>>, t) = <<>> /\ Sorted(<<>>)
<1>1. <<>> \in Seq({}) /\ Len(<<>>) = 0
  OBVIOUS
<1>2. Passed(<<>>, t) = 0
  <2>1. \A q \in Seq({}) : Passed(q, t) \in 0 .. Len(q)
    BY PassedType
  <2>2. Passed(<<>>, t) \in 0 .. Len(<<>>)
    BY <1>1, <2>1, Zenon
  <2> QED
    BY <1>1, <2>2
<1> QED
  BY <1>1, <1>2 DEF After, Sorted

\* A part of samples in order is in order.
LEMMA PartOrder ==
    ASSUME NEW S, NEW s \in Seq(S), Ticked(S), Sorted(s),
           NEW m \in Nat \ {0}, NEW n \in Int, n <= Len(s)
    PROVE  /\ SubSeq(s, m, n) \in Seq(S)
           /\ Len(SubSeq(s, m, n)) = IF m <= n THEN n - m + 1 ELSE 0
           /\ \A i \in 1 .. Len(SubSeq(s, m, n)) : SubSeq(s, m, n)[i] = s[m + i - 1]
           /\ Sorted(SubSeq(s, m, n))
<1> DEFINE a == SubSeq(s, m, n)
<1>1. Len(s) \in Nat /\ \A i \in m .. n : i \in 1 .. Len(s) /\ s[i] \in S
  OBVIOUS
<1>2. /\ a \in Seq(S) /\ Len(a) = IF m <= n THEN n - m + 1 ELSE 0
      /\ \A i \in 1 .. n - m + 1 : a[i] = s[m + i - 1]
  BY <1>1, SubSeqProperties
<1> HIDE DEF a
<1>3. Len(a) \in Nat /\ \A i \in 1 .. Len(a) : i \in 1 .. n - m + 1
  BY <1>2
<1>4. \A i \in 1 .. Len(a) : a[i] = s[m + i - 1] /\ m + i - 1 \in 1 .. Len(s)
  BY <1>1, <1>2, <1>3
<1>5. Sorted(a)
  <2> SUFFICES ASSUME NEW i \in 1 .. Len(a), NEW j \in 1 .. Len(a), i < j
               PROVE  a[i].tick < a[j].tick
    BY DEF Sorted
  <2>1. m + i - 1 \in 1 .. Len(s) /\ m + j - 1 \in 1 .. Len(s) /\ m + i - 1 < m + j - 1
    BY <1>3, <1>4
  <2> QED
    BY <2>1, <1>4 DEF Sorted
<1> QED
  BY <1>2, <1>4, <1>5 DEF a

\* Samples that follow others in order.
LEMMA JoinOrder ==
    ASSUME NEW S, NEW s \in Seq(S), NEW b \in Seq(S), Ticked(S),
           Sorted(s), Sorted(b), b # <<>>,
           s # <<>> => LastTick(s) < FirstTick(b)
    PROVE  /\ s \o b \in Seq(S) /\ s \o b # <<>> /\ Sorted(s \o b)
           /\ LastTick(s \o b) = LastTick(b)
<1>1. /\ Len(s) \in Nat /\ Len(b) \in Nat \ {0}
      /\ \A i \in 1 .. Len(s) : s[i].tick \in Nat
      /\ \A i \in 1 .. Len(b) : b[i].tick \in Nat
  BY DEF Ticked
<1> DEFINE c == s \o b
<1>2. /\ c \in Seq(S) /\ Len(c) = Len(s) + Len(b)
      /\ \A i \in 1 .. Len(s) : c[i] = s[i]
      /\ \A i \in 1 .. Len(b) : c[Len(s) + i] = b[i]
  OBVIOUS
<1> HIDE DEF c
<1>3. \A i \in 1 .. Len(c) :
         i \in 1 .. Len(s) \/ \E k \in 1 .. Len(b) : i = Len(s) + k
  <2> SUFFICES ASSUME NEW i \in 1 .. Len(c), i \notin 1 .. Len(s)
               PROVE  \E k \in 1 .. Len(b) : i = Len(s) + k
    OBVIOUS
  <2>1. i - Len(s) \in 1 .. Len(b) /\ i = Len(s) + (i - Len(s))
    BY <1>1, <1>2
  <2> QED
    BY <2>1
<1>4. \A i \in 1 .. Len(s), k \in 1 .. Len(b) : s[i].tick < b[k].tick
  <2> SUFFICES ASSUME NEW i \in 1 .. Len(s), NEW k \in 1 .. Len(b)
               PROVE  s[i].tick < b[k].tick
    OBVIOUS
  <2>1. i = Len(s) \/ s[i].tick < s[Len(s)].tick
    BY <1>1 DEF Sorted
  <2>2. k = 1 \/ b[1].tick < b[k].tick
    BY <1>1 DEF Sorted
  <2>3. s[Len(s)].tick < b[1].tick
    BY <1>1 DEF LastTick, FirstTick
  <2>4. /\ s[i].tick \in Nat /\ s[Len(s)].tick \in Nat
        /\ b[1].tick \in Nat /\ b[k].tick \in Nat
    BY <1>1
  <2> QED
    BY <2>1, <2>2, <2>3, <2>4, SMTT(20)
<1>5. Sorted(c)
  <2> SUFFICES ASSUME NEW i \in 1 .. Len(c), NEW j \in 1 .. Len(c), i < j
               PROVE  c[i].tick < c[j].tick
    BY DEF Sorted
  <2>1. CASE j \in 1 .. Len(s)
    <3>1. i \in 1 .. Len(s)
      BY <2>1, <1>1, <1>2
    <3> QED
      BY <2>1, <3>1, <1>2 DEF Sorted
  <2>2. ASSUME NEW k \in 1 .. Len(b), j = Len(s) + k
        PROVE  c[i].tick < c[j].tick
    <3>1. CASE i \in 1 .. Len(s)
      BY <2>2, <3>1, <1>2, <1>4
    <3>2. ASSUME NEW l \in 1 .. Len(b), i = Len(s) + l
          PROVE  c[i].tick < c[j].tick
      <4>1. l < k
        BY <2>2, <3>2, <1>1
      <4>2. b[l].tick < b[k].tick
        BY <4>1 DEF Sorted
      <4> QED
        BY <2>2, <3>2, <4>2, <1>2
    <3> QED
      BY <1>3, <3>1, <3>2
  <2> QED
    BY <1>3, <2>1, <2>2
<1>6. c # <<>> /\ LastTick(c) = LastTick(b)
  <2>1. Len(c) # 0 /\ Len(b) \in 1 .. Len(b)
    BY <1>1, <1>2
  <2>2. c # <<>>
    BY <2>1
  <2> QED
    BY <2>1, <2>2, <1>2 DEF LastTick
<1> QED
  BY <1>2, <1>5, <1>6 DEF c

\* What was behind a tick is behind a later one.
LEMMA AfterAfter ==
    ASSUME NEW S, NEW s \in Seq(S), Ticked(S), Sorted(s),
           NEW t \in Int, NEW u \in Int, t <= u
    PROVE  After(After(s, t), u) = After(s, u)
<1> DEFINE n == Passed(s, t)
           m == Passed(s, u)
           a == After(s, t)
<1>1. /\ n \in 0 .. Len(s) /\ Len(s) \in Nat
      /\ \A i \in 1 .. n : s[i].tick <= t
      /\ \A i \in n + 1 .. Len(s) : s[i].tick > t
  BY Cut
<1>2. /\ m \in 0 .. Len(s)
      /\ \A i \in 1 .. m : s[i].tick <= u
      /\ \A i \in m + 1 .. Len(s) : s[i].tick > u
  BY Cut
<1>3. /\ a \in Seq(S) /\ Len(a) = Len(s) - n
      /\ \A i \in 1 .. Len(a) : a[i] = s[n + i]
  BY AfterType, AfterOrder
<1> HIDE DEF n, m, a
<1>6. n <= m
  <2> SUFFICES ASSUME n > m PROVE FALSE
    BY <1>1, <1>2
  <2>1. n \in 1 .. n /\ n \in m + 1 .. Len(s) /\ n \in 1 .. Len(s)
    BY <1>1, <1>2
  <2>2. s[n].tick <= t /\ s[n].tick > u /\ s[n].tick \in Nat
    BY <2>1, <1>1, <1>2 DEF Ticked
  <2> QED
    BY <2>2
<1>7. Passed(a, u) = m - n
  <2>1. m - n \in 0 .. Len(a)
    BY <1>1, <1>2, <1>3, <1>6
  <2>2. \A i \in 1 .. m - n : i \in 1 .. Len(a) /\ n + i \in 1 .. m
    BY <1>1, <1>2, <1>3, <1>6
  <2>3. \A i \in (m - n) + 1 .. Len(a) :
           i \in 1 .. Len(a) /\ n + i \in m + 1 .. Len(s)
    BY <1>1, <1>2, <1>3, <1>6
  <2>4. \A i \in 1 .. m - n : a[i].tick <= u
    BY <2>2, <1>2, <1>3
  <2>5. \A i \in (m - n) + 1 .. Len(a) : a[i].tick > u
    BY <2>3, <1>2, <1>3
  <2> QED
    BY <2>1, <2>4, <2>5, <1>3, PassedIs
<1> DEFINE e == After(a, u)
           f == After(s, u)
<1>8. /\ f \in Seq(S) /\ Len(f) = Len(s) - m
      /\ \A i \in 1 .. Len(f) : f[i] = s[m + i]
  <2>1. Passed(s, u) = m
    BY DEF m
  <2>2. f \in Seq(S) /\ Len(f) = Len(s) - Passed(s, u)
    BY AfterType
  <2>3. \A i \in 1 .. Len(f) : f[i] = s[Passed(s, u) + i]
    BY AfterOrder
  <2> QED
    BY <2>1, <2>2, <2>3
<1>9. /\ e \in Seq(S) /\ Len(e) = Len(a) - (m - n)
      /\ \A i \in 1 .. Len(e) : e[i] = a[(m - n) + i]
  <2>1. e \in Seq(S) /\ Len(e) = Len(a) - Passed(a, u)
    BY <1>3, AfterType
  <2>2. Sorted(a)
    BY AfterOrder DEF a
  <2>3. \A i \in 1 .. Len(e) : e[i] = a[Passed(a, u) + i]
    BY <1>3, <2>2, AfterOrder
  <2> QED
    BY <2>1, <2>3, <1>7
<1> HIDE DEF e, f
<1>10. Len(e) = Len(f) /\ Len(f) \in Nat
  BY <1>1, <1>2, <1>3, <1>8, <1>9
<1>11. ASSUME NEW i \in 1 .. Len(f) PROVE e[i] = f[i]
  <2>1. (m - n) + i \in 1 .. Len(a) /\ n + ((m - n) + i) = m + i
    BY <1>1, <1>2, <1>3, <1>6, <1>8
  <2>2. a[(m - n) + i] = s[m + i]
    BY <2>1, <1>3
  <2>3. e[i] = a[(m - n) + i] /\ f[i] = s[m + i]
    BY <1>8, <1>9, <1>10
  <2> QED
    BY <2>2, <2>3
<1>12. e = f
  BY <1>8, <1>9, <1>10, <1>11, SeqEqual
<1> QED
  BY <1>12 DEF e, f, a

\* The first sample of a queue that is not ahead makes no difference.
LEMMA AfterTail ==
    ASSUME NEW S, NEW s \in Seq(S), Ticked(S), Sorted(s), s # <<>>,
           NEW t \in Int, FirstTick(s) <= t
    PROVE  After(Tail(s), t) = After(s, t)
<1> DEFINE n == Passed(s, t)
           a == Tail(s)
           e == After(a, t)
           f == After(s, t)
<1>1. /\ n \in 0 .. Len(s) /\ Len(s) \in Nat \ {0}
      /\ \A i \in 1 .. n : s[i].tick <= t
      /\ \A i \in n + 1 .. Len(s) : s[i].tick > t
  <2>1. /\ Passed(s, t) \in 0 .. Len(s) /\ Len(s) \in Nat
        /\ \A i \in 1 .. Passed(s, t) : s[i].tick <= t
        /\ \A i \in Passed(s, t) + 1 .. Len(s) : s[i].tick > t
    BY Cut, Zenon
  <2>2. Len(s) # 0
    OBVIOUS
  <2> QED
    BY <2>1, <2>2
<1>2. /\ a \in Seq(S) /\ Len(a) = Len(s) - 1
      /\ \A i \in 1 .. Len(a) : a[i] = s[i + 1]
  BY TailOfLink
<1>3. f \in Seq(S) /\ Len(f) = Len(s) - n /\ \A i \in 1 .. Len(f) : f[i] = s[n + i]
  BY AfterType, AfterOrder
<1>4. Sorted(a)
  <2> SUFFICES ASSUME NEW i \in 1 .. Len(a), NEW j \in 1 .. Len(a), i < j
               PROVE  a[i].tick < a[j].tick
    BY DEF Sorted
  <2> HIDE DEF a
  <2>1. i + 1 \in 1 .. Len(s) /\ j + 1 \in 1 .. Len(s) /\ i + 1 < j + 1
    BY <1>1, <1>2
  <2> QED
    BY <2>1, <1>2 DEF Sorted
<1> HIDE DEF n, a, f
<1>5. n >= 1
  <2> SUFFICES ASSUME n = 0 PROVE FALSE
    BY <1>1
  <2>1. 1 \in n + 1 .. Len(s)
    BY <1>1
  <2>2. s[1].tick > t /\ s[1].tick <= t /\ s[1].tick \in Nat
    BY <1>1, <2>1 DEF FirstTick, Ticked
  <2> QED
    BY <2>2
<1>6. Passed(a, t) = n - 1
  <2>1. n - 1 \in 0 .. Len(a)
    BY <1>1, <1>2, <1>5
  <2>2. \A i \in 1 .. n - 1 : i \in 1 .. Len(a) /\ i + 1 \in 1 .. n
    BY <1>1, <1>2
  <2>3. \A i \in (n - 1) + 1 .. Len(a) :
           i \in 1 .. Len(a) /\ i + 1 \in n + 1 .. Len(s)
    BY <1>1, <1>2, <1>5
  <2>4. \A i \in 1 .. n - 1 : a[i].tick <= t
    BY <2>2, <1>1, <1>2
  <2>5. \A i \in (n - 1) + 1 .. Len(a) : a[i].tick > t
    BY <2>3, <1>1, <1>2
  <2> QED
    BY <2>1, <2>4, <2>5, <1>2, PassedIs
<1>7. /\ e \in Seq(S) /\ Len(e) = Len(a) - (n - 1)
      /\ \A i \in 1 .. Len(e) : e[i] = a[(n - 1) + i]
  <2>1. e \in Seq(S) /\ Len(e) = Len(a) - Passed(a, t)
    BY <1>2, AfterType
  <2>2. \A i \in 1 .. Len(e) : e[i] = a[Passed(a, t) + i]
    BY <1>2, <1>4, AfterOrder
  <2> QED
    BY <2>1, <2>2, <1>6
<1> HIDE DEF e
<1>8. Len(e) = Len(f) /\ Len(f) \in Nat
  BY <1>1, <1>2, <1>3, <1>7
<1>9. ASSUME NEW i \in 1 .. Len(f) PROVE e[i] = f[i]
  <2>1. (n - 1) + i \in 1 .. Len(a) /\ ((n - 1) + i) + 1 = n + i
    BY <1>1, <1>2, <1>3, <1>5
  <2>2. a[(n - 1) + i] = s[n + i]
    BY <2>1, <1>2
  <2>3. e[i] = a[(n - 1) + i] /\ f[i] = s[n + i]
    BY <1>3, <1>7, <1>8
  <2> QED
    BY <2>2, <2>3
<1>10. e = f
  BY <1>3, <1>7, <1>8, <1>9, SeqEqual
<1> QED
  BY <1>10 DEF e, f, a

\* Samples that all lie ahead stay ahead behind others.
LEMMA AfterJoin ==
    ASSUME NEW S, NEW s \in Seq(S), NEW b \in Seq(S), Ticked(S), Sorted(s),
           NEW t \in Int, \A i \in 1 .. Len(b) : b[i].tick > t
    PROVE  After(s \o b, t) = After(s, t) \o b
<1> DEFINE n == Passed(s, t)
           c == s \o b
           f == After(s, t)
           g == f \o b
           e == SubSeq(c, n + 1, Len(c))
<1>1. /\ n \in 0 .. Len(s) /\ Len(s) \in Nat /\ Len(b) \in Nat
      /\ \A i \in 1 .. n : s[i].tick <= t
      /\ \A i \in n + 1 .. Len(s) : s[i].tick > t
  <2>1. Len(b) \in Nat
    OBVIOUS
  <2> QED
    BY <2>1, Cut
<1>2. /\ c \in Seq(S) /\ Len(c) = Len(s) + Len(b)
      /\ \A i \in 1 .. Len(c) : c[i] = IF i <= Len(s) THEN s[i] ELSE b[i - Len(s)]
  BY ConcatProperties
<1>3. f \in Seq(S) /\ Len(f) = Len(s) - n /\ \A i \in 1 .. Len(f) : f[i] = s[n + i]
  BY AfterType, AfterOrder
<1> HIDE DEF n, c, f
<1>4. /\ g \in Seq(S) /\ Len(g) = Len(f) + Len(b)
      /\ \A i \in 1 .. Len(g) : g[i] = IF i <= Len(f) THEN f[i] ELSE b[i - Len(f)]
  BY <1>3, ConcatProperties
<1> HIDE DEF g
<1>5. Passed(c, t) = n
  <2>1. n \in 0 .. Len(c)
    BY <1>1, <1>2
  <2>2. \A i \in 1 .. n : i \in 1 .. Len(c) /\ i <= Len(s)
    BY <1>1, <1>2
  <2>3. \A i \in 1 .. n : c[i].tick <= t
    BY <2>2, <1>1, <1>2
  <2>4. ASSUME NEW i \in n + 1 .. Len(c) PROVE c[i].tick > t
    <3>1. i \in 1 .. Len(c)
      BY <1>1, <1>2
    <3>2. CASE i <= Len(s)
      BY <3>1, <3>2, <1>1, <1>2
    <3>3. CASE i > Len(s)
      <4>1. i - Len(s) \in 1 .. Len(b) /\ c[i] = b[i - Len(s)]
        BY <3>1, <3>3, <1>1, <1>2
      <4> QED
        BY <4>1
    <3> QED
      BY <3>1, <3>2, <3>3, <1>1
  <2> QED
    BY <2>1, <2>3, <2>4, <1>2, PassedIs
<1>6. \A i \in n + 1 .. Len(c) : c[i] \in S
  BY <1>1, <1>2
<1>7. /\ e \in Seq(S) /\ Len(e) = Len(c) - n
      /\ \A i \in 1 .. Len(c) - n : e[i] = c[n + i]
  <2>1. /\ n + 1 \in Int /\ Len(c) \in Int
        /\ Len(c) - (n + 1) + 1 = Len(c) - n /\ n <= Len(c)
    BY <1>1, <1>2
  <2>2. /\ e \in Seq(S)
        /\ Len(e) = IF n + 1 <= Len(c) THEN Len(c) - (n + 1) + 1 ELSE 0
        /\ \A i \in 1 .. Len(c) - (n + 1) + 1 : e[i] = c[(n + 1) + i - 1]
    BY <1>6, <2>1, SubSeqProperties
  <2> HIDE DEF e
  <2>3. Len(e) = Len(c) - n
    BY <2>1, <2>2, <1>1, <1>2
  <2>4. ASSUME NEW i \in 1 .. Len(c) - n PROVE e[i] = c[n + i]
    <3>1. (n + 1) + i - 1 = n + i
      BY <1>1
    <3> QED
      BY <2>1, <2>2, <3>1
  <2> QED
    BY <2>2, <2>3, <2>4
<1>8. After(c, t) = e
  BY <1>5 DEF After
<1> HIDE DEF e
<1>9. Len(e) = Len(g) /\ Len(g) \in Nat
  BY <1>1, <1>2, <1>3, <1>4, <1>7
<1>10. ASSUME NEW i \in 1 .. Len(g) PROVE e[i] = g[i]
  <2>1. n + i \in 1 .. Len(c) /\ e[i] = c[n + i]
    BY <1>1, <1>2, <1>3, <1>4, <1>7
  <2>2. CASE i <= Len(f)
    <3>1. i \in 1 .. Len(f) /\ n + i <= Len(s)
      BY <2>2, <1>1, <1>3
    <3>2. g[i] = f[i] /\ c[n + i] = s[n + i]
      BY <2>1, <2>2, <3>1, <1>2, <1>4
    <3> QED
      BY <2>1, <3>1, <3>2, <1>3
  <2>3. CASE i > Len(f)
    <3>1. n + i > Len(s) /\ (n + i) - Len(s) = i - Len(f)
      BY <2>3, <1>1, <1>3
    <3>2. g[i] = b[i - Len(f)]
      BY <2>3, <1>1, <1>3, <1>4
    <3>3. c[n + i] = b[(n + i) - Len(s)]
      BY <2>1, <3>1, <1>1, <1>2
    <3> QED
      BY <2>1, <3>1, <3>2, <3>3
  <2> QED
    BY <2>2, <2>3, <1>1, <1>3
<1>11. e = g
  BY <1>4, <1>7, <1>9, <1>10, SeqEqual
<1> QED
  BY <1>8, <1>11 DEF c, f, g

\* Ahead of one tick and before a later one, in either order.
LEMMA AfterBefore ==
    ASSUME NEW S, NEW s \in Seq(S), Ticked(S), Sorted(s),
           NEW t \in Int, NEW u \in Int, t < u
    PROVE  After(Before(s, u), t) = Before(After(s, t), u)
<1> DEFINE n == Passed(s, t)
           m == Passed(s, u - 1)
           a == After(s, t)
           b == Before(s, u)
           e == After(b, t)
           g == Before(a, u)
<1>0. u - 1 \in Int /\ t <= u - 1
  OBVIOUS
<1>1. /\ n \in 0 .. Len(s) /\ Len(s) \in Nat
      /\ \A i \in 1 .. n : s[i].tick <= t
      /\ \A i \in n + 1 .. Len(s) : s[i].tick > t
  BY Cut
<1>2. /\ m \in 0 .. Len(s)
      /\ \A i \in 1 .. m : s[i].tick <= u - 1
      /\ \A i \in m + 1 .. Len(s) : s[i].tick > u - 1
  BY <1>0, Cut
<1>3. /\ a \in Seq(S) /\ Len(a) = Len(s) - n /\ Sorted(a)
      /\ \A i \in 1 .. Len(a) : a[i] = s[n + i]
  BY AfterType, AfterOrder
<1>4. /\ b \in Seq(S) /\ Len(b) = m /\ Sorted(b)
      /\ \A i \in 1 .. Len(b) : b[i] = s[i]
  BY BeforeType, BeforeOrder
<1> HIDE DEF n, m, a, b
<1>5. n <= m
  <2> SUFFICES ASSUME n > m PROVE FALSE
    BY <1>1, <1>2
  <2>1. n \in 1 .. n /\ n \in m + 1 .. Len(s) /\ n \in 1 .. Len(s)
    BY <1>1, <1>2
  <2>2. s[n].tick <= t /\ s[n].tick > u - 1 /\ s[n].tick \in Nat
    BY <2>1, <1>1, <1>2 DEF Ticked
  <2> QED
    BY <2>2, <1>0
<1>6. Passed(a, u - 1) = m - n
  <2>1. m - n \in 0 .. Len(a)
    BY <1>1, <1>2, <1>3, <1>5
  <2>2. \A i \in 1 .. m - n : i \in 1 .. Len(a) /\ n + i \in 1 .. m
    BY <1>1, <1>2, <1>3, <1>5
  <2>3. \A i \in (m - n) + 1 .. Len(a) :
           i \in 1 .. Len(a) /\ n + i \in m + 1 .. Len(s)
    BY <1>1, <1>2, <1>3, <1>5
  <2>4. \A i \in 1 .. m - n : a[i].tick <= u - 1
    BY <2>2, <1>2, <1>3
  <2>5. \A i \in (m - n) + 1 .. Len(a) : a[i].tick > u - 1
    BY <2>3, <1>2, <1>3
  <2> QED
    BY <2>1, <2>4, <2>5, <1>0, <1>3, PassedIs
<1>7. Passed(b, t) = n
  <2>1. n \in 0 .. Len(b)
    BY <1>1, <1>2, <1>4, <1>5
  <2>2. \A i \in 1 .. n : i \in 1 .. Len(b)
    BY <1>1, <1>2, <1>4, <1>5
  <2>3. \A i \in n + 1 .. Len(b) : i \in 1 .. Len(b) /\ i \in n + 1 .. Len(s)
    BY <1>1, <1>2, <1>4
  <2>4. \A i \in 1 .. n : b[i].tick <= t
    BY <2>2, <1>1, <1>4
  <2>5. \A i \in n + 1 .. Len(b) : b[i].tick > t
    BY <2>3, <1>1, <1>4
  <2> QED
    BY <2>1, <2>4, <2>5, <1>4, PassedIs
<1>8. /\ e \in Seq(S) /\ Len(e) = Len(b) - n
      /\ \A i \in 1 .. Len(e) : e[i] = b[n + i]
  <2>1. e \in Seq(S) /\ Len(e) = Len(b) - Passed(b, t)
    BY <1>4, AfterType
  <2>2. \A i \in 1 .. Len(e) : e[i] = b[Passed(b, t) + i]
    BY <1>4, AfterOrder
  <2> QED
    BY <2>1, <2>2, <1>7
<1>9. /\ g \in Seq(S) /\ Len(g) = m - n
      /\ \A i \in 1 .. Len(g) : g[i] = a[i]
  <2>1. g \in Seq(S) /\ Len(g) = Passed(a, u - 1)
    BY <1>3, BeforeType
  <2>2. \A i \in 1 .. Len(g) : g[i] = a[i]
    BY <1>3, BeforeOrder
  <2> QED
    BY <2>1, <2>2, <1>6
<1> HIDE DEF e, g
<1>10. Len(e) = Len(g) /\ Len(g) \in Nat
  BY <1>1, <1>2, <1>4, <1>5, <1>8, <1>9
<1>11. ASSUME NEW i \in 1 .. Len(g) PROVE e[i] = g[i]
  <2>1. n + i \in 1 .. Len(b) /\ i \in 1 .. Len(a)
    BY <1>1, <1>2, <1>3, <1>4, <1>9
  <2>2. e[i] = b[n + i] /\ g[i] = a[i]
    BY <1>8, <1>9, <1>10
  <2> QED
    BY <2>1, <2>2, <1>3, <1>4
<1>12. e = g
  BY <1>8, <1>9, <1>10, <1>11, SeqEqual
<1> QED
  BY <1>12 DEF e, g, a, b

-----------------------------------------------------------------------------
(* The scripts of the operations, from their begin to their end.             *)

\* What a START goes through, from its begin on or from a later step.
Powering == <<"ARM", "HEARTBEAT", "ENABLE", "HEARTBEAT", "OPEN", "APPEND">>
Enabling == <<"HEARTBEAT", "ENABLE", "HEARTBEAT", "OPEN", "APPEND">>
StartScripts ==
    {Arming, Preparing, Claiming, Opening, Powering, Enabling,
     <<"ENABLE", "HEARTBEAT", "OPEN", "APPEND">>, <<"HEARTBEAT", "OPEN", "APPEND">>,
     <<"OPEN", "APPEND">>, <<"APPEND">>, <<>>}

\* What a poll goes through; it feeds a finite plan first.
Feeding == <<"HEARTBEAT", "PUMP", "HEARTBEAT", "EXECUTOR", "HEARTBEAT", "TRACKING",
             "HEARTBEAT">>
Pumping == <<"PUMP", "HEARTBEAT", "EXECUTOR", "HEARTBEAT", "TRACKING", "HEARTBEAT">>
Looking == <<"HEARTBEAT", "EXECUTOR", "HEARTBEAT", "TRACKING", "HEARTBEAT">>
PollScripts ==
    {Feeding, Pumping, Looking, <<"EXECUTOR", "HEARTBEAT", "TRACKING", "HEARTBEAT">>,
     <<"FEEDBACK", "HEARTBEAT", "TRACKING", "HEARTBEAT">>,
     <<"HEARTBEAT", "TRACKING", "HEARTBEAT">>, <<"TRACKING", "HEARTBEAT">>,
     <<"HEARTBEAT">>, <<>>}

\* The steps of a stream, which only its own operations have.
StreamSteps == {"ENABLE", "OPEN", "APPEND", "SPLICE", "PUMP", "EXECUTOR"}

Shapes ==
    /\ job = "start" => todo \in StartScripts
    /\ job = "poll" => todo \in PollScripts
    /\ job = "append" => todo \in {<<"HEARTBEAT", "APPEND">>, <<"APPEND">>, <<>>}
    /\ job = "splice" => todo \in {<<"HEARTBEAT", "SPLICE">>, <<"SPLICE">>, <<>>}
    /\ job = "feedback" => todo \in {<<"FEEDBACK">>, <<>>}
    /\ job \notin {"start", "poll", "append", "splice", "feedback"} =>
          \A k \in StreamSteps : Lacks(todo, k)
    /\ job = "none" => todo = <<>> /\ seen = NothingSeen

\* A claim still finds an epoch; a stream that was claimed has an owner.
Claims ==
    /\ job = "start" /\ ~Lacks(todo, "CLAIM") => epoch < MaxEpoch
    /\ job = "splice" /\ todo # <<>> /\ asked # "SPLICE" => epoch < MaxEpoch
    /\ job = "start" /\ Lacks(todo, "CLAIM") => owned /\ armed
    /\ host = "ACTIVE" => owned

ShapeInv == Shapes /\ Claims

\* A START goes on step by step, and opens the stream right before its batch.
LEMMA StartGoesOn ==
    ASSUME NEW s \in StartScripts
    PROVE  /\ s \in Seq(Steps)
           /\ \A k \in {"SPLICE", "PUMP", "EXECUTOR"} : Lacks(s, k)
           /\ s # <<>> =>
                 /\ Tail(s) \in StartScripts
                 /\ Head(s) = "CLAIM" => Lacks(Tail(s), "CLAIM")
                 /\ Head(s) = "OPEN" <=> Tail(s) = <<"APPEND">>
                 /\ Head(s) = "APPEND" <=> Tail(s) = <<>>
                 /\ Head(s) = "APPEND" <=> s = <<"APPEND">>
                 /\ Head(s) = "OPEN" <=> s = <<"OPEN", "APPEND">>
<1> USE DEF StartScripts, Lacks, Steps, PlainKinds, StatusKinds
<1>1. CASE s = Arming
  BY <1>1 DEF Arming, Preparing
<1>2. CASE s = Preparing
  BY <1>2 DEF Preparing, Claiming
<1>3. CASE s = Claiming
  BY <1>3 DEF Claiming, Powering
<1>4. CASE s = Opening
  BY <1>4 DEF Opening
<1>5. CASE s = Powering
  BY <1>5 DEF Powering, Enabling
<1>6. CASE s = Enabling
  BY <1>6 DEF Enabling
<1>7. CASE s = <<"ENABLE", "HEARTBEAT", "OPEN", "APPEND">>
  BY <1>7
<1>8. CASE s = <<"HEARTBEAT", "OPEN", "APPEND">>
  BY <1>8
<1>9. CASE s = <<"OPEN", "APPEND">>
  BY <1>9
<1>10. CASE s = <<"APPEND">>
  BY <1>10
<1>11. CASE s = <<>>
  BY <1>11
<1> QED
  BY <1>1, <1>2, <1>3, <1>4, <1>5, <1>6, <1>7, <1>8, <1>9, <1>10, <1>11

\* A script that is made of two.
LEMMA Joined ==
    ASSUME NEW s \in Seq(Steps), NEW t \in Seq(Steps), NEW c \in Seq(Steps),
           Len(c) = Len(s) + Len(t),
           \A i \in 1 .. Len(s) : c[i] = s[i],
           \A i \in 1 .. Len(t) : c[Len(s) + i] = t[i]
    PROVE  s \o t = c
<1>1. /\ s \o t \in Seq(Steps) /\ Len(s \o t) = Len(s) + Len(t)
      /\ \A i \in 1 .. Len(s \o t) : (s \o t)[i] = IF i <= Len(s) THEN s[i] ELSE t[i - Len(s)]
  BY ConcatProperties
<1>2. Len(s) \in Nat /\ Len(t) \in Nat
  OBVIOUS
<1> DEFINE d == s \o t
<1> HIDE DEF d
<1>3. ASSUME NEW i \in 1 .. Len(d) PROVE d[i] = c[i]
  <2>1. CASE i <= Len(s)
    <3>1. i \in 1 .. Len(s)
      BY <2>1, <1>1, <1>2 DEF d
    <3> QED
      BY <2>1, <3>1, <1>1 DEF d
  <2>2. CASE i > Len(s)
    <3>1. i - Len(s) \in 1 .. Len(t) /\ Len(s) + (i - Len(s)) = i
      BY <2>2, <1>1, <1>2 DEF d
    <3>2. d[i] = t[i - Len(s)]
      BY <2>2, <1>1, <1>2 DEF d
    <3> QED
      BY <3>1, <3>2
  <2> QED
    BY <2>1, <2>2, <1>2
<1>4. d \in Seq(Steps) /\ Len(d) = Len(c)
  BY <1>1 DEF d
<1>5. d = c
  BY <1>3, <1>4, SeqEqual
<1> QED
  BY <1>5 DEF d

\* So does a poll: it feeds the plan before it looks at the executor, and looks
\* at the tracking feedback after that.
LEMMA PollGoesOn ==
    ASSUME NEW s \in PollScripts
    PROVE  /\ s \in Seq(Steps)
           /\ \A k \in {"SPLICE", "OPEN", "APPEND", "ENABLE"} : Lacks(s, k)
           /\ ~Lacks(s, "EXECUTOR") => ~Lacks(s, "TRACKING")
           /\ ~Lacks(s, "PUMP") => ~Lacks(s, "EXECUTOR")
           /\ s # <<>> =>
                 /\ Tail(s) \in PollScripts
                 /\ Head(s) = "EXECUTOR" =>
                       /\ <<"FEEDBACK">> \o Tail(s) \in PollScripts
                       /\ \A r \in {Tail(s), <<"FEEDBACK">> \o Tail(s)} :
                             Lacks(r, "PUMP") /\ Lacks(r, "EXECUTOR")
<1> USE DEF PollScripts, Lacks, Steps, PlainKinds, StatusKinds
<1>1. CASE s = Feeding
  BY <1>1 DEF Feeding, Pumping
<1>2. CASE s = Pumping
  BY <1>2 DEF Pumping, Looking
<1>3. CASE s = Looking
  BY <1>3 DEF Looking
<1>4. CASE s = <<"EXECUTOR", "HEARTBEAT", "TRACKING", "HEARTBEAT">>
  <2> DEFINE a == <<"FEEDBACK">>
             b == <<"HEARTBEAT", "TRACKING", "HEARTBEAT">>
             c == <<"FEEDBACK", "HEARTBEAT", "TRACKING", "HEARTBEAT">>
  <2>1. Tail(s) = b
    BY <1>4
  <2>2. a \o b = c
    <3>1. /\ a \in Seq(Steps) /\ b \in Seq(Steps) /\ c \in Seq(Steps)
          /\ Len(a) = 1 /\ Len(b) = 3 /\ Len(c) = 4
      OBVIOUS
    <3>2. /\ \A i \in 1 .. 1 : c[i] = a[i]
          /\ \A i \in 1 .. 3 : c[1 + i] = b[i]
      OBVIOUS
    <3> HIDE DEF a, b, c, Steps
    <3>3. /\ Len(c) = Len(a) + Len(b) /\ \A i \in 1 .. Len(a) : c[i] = a[i]
          /\ \A i \in 1 .. Len(b) : c[Len(a) + i] = b[i]
      BY <3>1, <3>2
    <3> QED
      BY <3>1, <3>3, Joined
  <2> QED
    BY <1>4, <2>1, <2>2
<1>5. CASE s = <<"FEEDBACK", "HEARTBEAT", "TRACKING", "HEARTBEAT">>
  BY <1>5
<1>6. CASE s = <<"HEARTBEAT", "TRACKING", "HEARTBEAT">>
  BY <1>6
<1>7. CASE s = <<"TRACKING", "HEARTBEAT">>
  BY <1>7
<1>8. CASE s = <<"HEARTBEAT">>
  BY <1>8
<1>9. CASE s = <<>>
  BY <1>9
<1> QED
  BY <1>1, <1>2, <1>3, <1>4, <1>5, <1>6, <1>7, <1>8, <1>9

\* When an operation is over nothing is left of it.
LEMMA DoneShapes ==
    ASSUME Done, host' = "ACTIVE" => owned'
    PROVE  ShapeInv'
  BY ShortScripts DEF Done, ShapeInv, Shapes, Claims

LEMMA FaultShapes ==
    ASSUME Fault
    PROVE  ShapeInv'
<1>1. \A k \in StreamSteps : k # "SAFE_STOP"
  BY DEF StreamSteps
<1>2. "SAFE_STOP" \in Steps
  BY DEF Steps, PlainKinds
<1>3. Shapes'
  BY <1>1, <1>2, ShortScripts DEF Fault, Shapes
<1>4. Claims'
  BY DEF Fault, Claims
<1> QED
  BY <1>3, <1>4 DEF ShapeInv

\* The operations begin with their scripts.
LEMMA OperationShapes ==
    ASSUME ScriptInv, ShapeInv, Operation
    PROVE  ShapeInv'
<1> USE DEF StreamSteps
<1>1. CASE Start
  <2>1. /\ job' = "start" /\ UNCHANGED <<epoch, owned, armed, host>>
        /\ host = "READY" /\ epoch < MaxEpoch
        /\ todo' = IF armed THEN Opening ELSE Arming
    BY <1>1 DEF Start, Begin
  <2>2. todo' \in StartScripts
    BY <2>1 DEF StartScripts
  <2>3. ~Lacks(Opening, "CLAIM") /\ ~Lacks(Arming, "CLAIM")
    BY DEF Lacks, Opening, Arming
  <2>4. ~Lacks(todo', "CLAIM")
    BY <2>1, <2>3
  <2>5. Shapes' /\ Claims'
    BY <2>1, <2>2, <2>4 DEF ShapeInv, Shapes, Claims
  <2> QED
    BY <2>5 DEF ShapeInv
<1>2. CASE Poll
  <2>1. job' = "poll" /\ UNCHANGED <<owned, host>>
    BY <1>2 DEF Poll, Begin
  <2>2. todo' \in PollScripts
    <3>1. CASE pending = <<>>
      <4>1. todo' = <<>> \o Looking
        BY <1>2, <3>1 DEF Poll, Begin, Looking
      <4>2. Looking \in Seq(Steps)
        BY PollGoesOn DEF PollScripts
      <4>3. todo' = Looking
        BY <4>1, <4>2, ConcatEmptySeq
      <4> QED
        BY <4>3 DEF PollScripts
    <3>2. CASE pending # <<>>
      <4> DEFINE a == <<"HEARTBEAT", "PUMP">>
      <4>1. todo' = a \o Looking
        BY <1>2, <3>2 DEF Poll, Begin, Looking
      <4>2. /\ a \in Seq(Steps) /\ Len(a) = 2
            /\ Looking \in Seq(Steps) /\ Len(Looking) = 5
            /\ Feeding \in Seq(Steps) /\ Len(Feeding) = 7
        BY DEF Steps, PlainKinds, Looking, Feeding
      <4>3. /\ \A i \in 1 .. 2 : Feeding[i] = a[i]
            /\ \A i \in 1 .. 5 : Feeding[2 + i] = Looking[i]
        BY DEF Looking, Feeding
      <4> HIDE DEF a
      <4>4. /\ Len(Feeding) = Len(a) + Len(Looking)
            /\ \A i \in 1 .. Len(a) : Feeding[i] = a[i]
            /\ \A i \in 1 .. Len(Looking) : Feeding[Len(a) + i] = Looking[i]
        BY <4>2, <4>3
      <4>5. a \o Looking = Feeding
        BY <4>2, <4>4, Joined
      <4> QED
        BY <4>1, <4>5 DEF PollScripts
    <3> QED
      BY <3>1, <3>2
  <2> QED
    BY <2>1, <2>2 DEF ShapeInv, Shapes, Claims
<1>3. CASE AppendPoints
  BY <1>3 DEF AppendPoints, Begin, ShapeInv, Shapes, Claims
<1>4. CASE SplicePoints
  BY <1>4 DEF SplicePoints, Begin, ShapeInv, Shapes, Claims
<1>5. CASE PublishFeedback
  BY <1>5 DEF PublishFeedback, Begin, ShapeInv, Shapes, Claims
<1>6. CASE StrayClaim
  <2>1. job = "none" /\ UNCHANGED <<job, todo, seen, host>> /\ host # "ACTIVE"
    BY <1>6 DEF StrayClaim, Idle, operation
  <2> QED
    BY <2>1 DEF ShapeInv, Shapes, Claims
<1>7. CASE Prepare \/ RefreshUnarmedAnchor \/ Keepalive \/ StopStream
  <2>1. /\ job' \in {"prepare", "refresh", "keepalive", "stop"}
        /\ host' = host /\ (owned => owned')
    BY <1>7 DEF Prepare, RefreshUnarmedAnchor, Keepalive, StopStream, Begin
  <2>2. todo' \in {<<"HELLO", "HEARTBEAT", "TRACKING", "SHADOW">>, <<"HEARTBEAT", "SHADOW">>,
                    <<"HEARTBEAT">>, <<"SAFE_STOP">>}
    BY <1>7 DEF Prepare, RefreshUnarmedAnchor, Keepalive, StopStream, Begin
  <2>3. \A k \in StreamSteps :
           /\ Lacks(<<"HELLO", "HEARTBEAT", "TRACKING", "SHADOW">>, k)
           /\ Lacks(<<"HEARTBEAT", "SHADOW">>, k)
           /\ Lacks(<<"HEARTBEAT">>, k) /\ Lacks(<<"SAFE_STOP">>, k)
    BY DEF Lacks
  <2> QED
    BY <2>1, <2>2, <2>3 DEF ShapeInv, Shapes, Claims
<1> QED
  BY <1>1, <1>2, <1>3, <1>4, <1>5, <1>6, <1>7 DEF Operation

\* A step that was asked for is done.
LEMMA AnswerShapes ==
    ASSUME ScriptInv, ShapeInv, Waiting, NEW says, todo' = Rest(says),
           asked' = "NONE", UNCHANGED <<job, epoch, owned, armed, host>>
    PROVE  ShapeInv'
<1>1. /\ todo \in Seq(Steps) /\ todo # <<>> /\ job # "none" /\ asked # "CLAIM"
      /\ Head(todo) = asked \/ (Head(todo) = "PUMP" /\ asked = "APPEND")
  BY DEF ScriptInv, Scripts, AskedIsNext, PlainKinds, StatusKinds
<1>2. /\ Tail(todo) \in Seq(Steps)
      /\ \A k : Lacks(todo, k) => Lacks(Tail(todo), k) /\ Head(todo) # k
  BY <1>1, TailLacks
<1>3. asked # "EXECUTOR" => todo' = Tail(todo)
  BY <1>2, ConcatEmptySeq DEF Rest
<1>4. CASE job = "start"
  <2>1. todo \in StartScripts
    BY <1>4 DEF ShapeInv, Shapes
  <2>2. todo' = Tail(todo) /\ Head(todo) # "CLAIM"
    BY <2>1, <1>1, <1>2, <1>3, StartGoesOn
  <2>3. todo' \in StartScripts
    BY <2>1, <2>2, <1>1, StartGoesOn
  <2>4. Lacks(todo', "CLAIM") => Lacks(todo, "CLAIM")
    <3> SUFFICES ASSUME Lacks(Tail(todo), "CLAIM"), NEW i \in 1 .. Len(todo)
                 PROVE  todo[i] # "CLAIM"
      BY <2>2 DEF Lacks
    <3>1. CASE i = 1
      BY <3>1, <2>2
    <3>2. CASE i # 1
      <4>1. i - 1 \in 1 .. Len(Tail(todo)) /\ Tail(todo)[i - 1] = todo[i]
        BY <3>2, <1>1
      <4> QED
        BY <4>1 DEF Lacks
    <3> QED
      BY <3>1, <3>2
  <2> QED
    BY <1>2, <1>4, <2>2, <2>3, <2>4 DEF ShapeInv, Shapes, Claims
<1>5. CASE job = "poll"
  <2>1. todo \in PollScripts
    BY <1>5 DEF ShapeInv, Shapes
  <2>2. todo' \in PollScripts
    <3>1. CASE asked = "EXECUTOR" /\ says = "SUCCEEDED"
      <4>1. todo' = <<"FEEDBACK">> \o Tail(todo)
        BY <3>1 DEF Rest
      <4> QED
        BY <4>1, <2>1, <3>1, <1>1, PollGoesOn
    <3>2. CASE ~(asked = "EXECUTOR" /\ says = "SUCCEEDED")
      <4>1. todo' = Tail(todo)
        BY <3>2, <1>2, ConcatEmptySeq DEF Rest
      <4> QED
        BY <4>1, <2>1, <1>1, PollGoesOn
    <3> QED
      BY <3>1, <3>2
  <2> QED
    BY <1>5, <2>2 DEF ShapeInv, Shapes, Claims
<1>6. CASE job \in {"append", "splice", "feedback"}
  <2>1. todo' = Tail(todo)
    BY <1>1, <1>3, <1>6 DEF ShapeInv, Shapes
  <2>2. /\ \A a \in Steps : Tail(<<a>>) = <<>>
        /\ Tail(<<"HEARTBEAT", "APPEND">>) = <<"APPEND">>
        /\ Tail(<<"HEARTBEAT", "SPLICE">>) = <<"SPLICE">>
        /\ "APPEND" \in Steps /\ "SPLICE" \in Steps /\ "FEEDBACK" \in Steps
    BY DEF Steps, PlainKinds, StatusKinds
  <2>3. Shapes'
    BY <1>1, <1>6, <2>1, <2>2 DEF ShapeInv, Shapes
  <2>4. asked = "SPLICE" /\ job = "splice" => todo' = <<>>
    BY <1>1, <2>1, <2>2 DEF ShapeInv, Shapes
  <2> QED
    BY <1>1, <1>6, <2>3, <2>4 DEF ShapeInv, Claims
<1>7. CASE job \notin {"start", "poll", "append", "splice", "feedback"}
  <2>1. \A k \in StreamSteps : Lacks(todo, k)
    BY <1>7 DEF ShapeInv, Shapes
  <2>2. asked # "EXECUTOR"
    BY <2>1, <1>1, <1>2 DEF StreamSteps
  <2> QED
    BY <1>1, <1>2, <1>3, <1>7, <2>1, <2>2 DEF ShapeInv, Shapes, Claims
<1> QED
  BY <1>4, <1>5, <1>6, <1>7

\* Every step keeps the shapes of the scripts.
LEMMA NextShapes ==
    ASSUME ScriptInv, ShapeInv, [Next]_vars
    PROVE  ShapeInv'
<1>1. CASE UNCHANGED <<asked, todo, job, seen, epoch, owned, armed, host>>
  BY <1>1 DEF ShapeInv, Shapes, Claims
<1>2. CASE Operation
  BY <1>2, OperationShapes
<1>3. CASE Claim
  <2>1. /\ todo \in Seq(Steps) /\ todo # <<>> /\ Head(todo) = "CLAIM"
        /\ UNCHANGED host /\ asked' = asked /\ asked = "NONE"
    BY <1>3 DEF Claim, Next1, Waiting, link, ScriptInv, Scripts
  <2>2. job = "start" /\ host = "READY"
    BY <2>1, TailLacks DEF ScriptInv, Scripts, HostJob
  <2>3. CASE Done
    BY <2>1, <2>2, <2>3, DoneShapes
  <2>4. CASE owned' = TRUE /\ armed' = TRUE /\ todo' = Tail(todo) /\ UNCHANGED job
    <3>1. todo' \in StartScripts /\ Lacks(todo', "CLAIM")
      BY <2>1, <2>2, <2>4, StartGoesOn DEF ShapeInv, Shapes
    <3> QED
      BY <2>1, <2>2, <2>4, <3>1 DEF ShapeInv, Shapes, Claims
  <2> QED
    BY <1>3, <2>3, <2>4 DEF Claim
<1>4. CASE Fault
  BY <1>4, FaultShapes
<1>5. CASE ~Fault /\ (AskPlain \/ OpenPlan \/ AskFirstBatch \/ AskAppend)
  <2>1. /\ UNCHANGED <<todo, job, owned, armed, host, epoch>>
        /\ job # "none" /\ todo # <<>> /\ asked = "NONE"
    BY <1>5 DEF AskPlain, OpenPlan, AskFirstBatch, AskAppend, Ask, Next1, Waiting
  <2> QED
    BY <2>1 DEF ShapeInv, Shapes, Claims
<1>6. CASE ~Fault /\ AskSplice
  <2>1. /\ UNCHANGED <<todo, job, owned, armed, host>> /\ asked' = "SPLICE"
        /\ job # "none" /\ todo \in Seq(Steps) /\ todo # <<>> /\ Head(todo) = "SPLICE"
    BY <1>6 DEF AskSplice, Ask, Send, Next1, ScriptInv, Scripts
  <2>2. job # "start"
    BY <2>1, TailLacks, StartGoesOn DEF ShapeInv, Shapes
  <2> QED
    BY <2>1, <2>2 DEF ShapeInv, Shapes, Claims
<1>7. CASE ~Fault /\ Pump
  <2>1. /\ UNCHANGED <<job, owned, armed, host, epoch>>
        /\ todo' = todo \/ todo' = Tail(todo)
        /\ job # "none" /\ todo \in Seq(Steps) /\ todo # <<>> /\ Head(todo) = "PUMP"
    BY <1>7 DEF Pump, Ask, Next1, ScriptInv, Scripts
  <2>2. ~Lacks(todo, "PUMP")
    BY <2>1, TailLacks
  <2>3. job = "poll"
    BY <2>1, <2>2, StartGoesOn DEF ShapeInv, Shapes, StreamSteps, Lacks
  <2>4. todo' \in PollScripts
    BY <2>1, <2>3, PollGoesOn DEF ShapeInv, Shapes
  <2> QED
    BY <2>1, <2>3, <2>4 DEF ShapeInv, Shapes, Claims
<1>8. CASE ~Fault /\ GetAnswer
  <2>1. /\ Waiting /\ asked' = "NONE" /\ \E says : todo' = Rest(says)
        /\ UNCHANGED <<job, epoch, owned, armed, host>>
    BY <1>8 DEF GetAnswer, Receive
  <2> QED
    BY <2>1, AnswerShapes
<1>9. CASE ~Fault /\ TimeOut
  <2>1. Done /\ UNCHANGED <<host, owned>>
    BY <1>9 DEF TimeOut
  <2> QED
    BY <2>1, DoneShapes DEF ShapeInv, Claims
<1>10. CASE ~Fault /\ (PrepareEnds \/ StartEnds \/ PollEnds \/ FeedbackEnds
                      \/ StopEnds \/ FaultEnds \/ OtherEnds)
  <2>1. /\ Done /\ UNCHANGED owned
        /\ host' = "ACTIVE" => host = "ACTIVE" \/ (job = "start" /\ todo = <<>>)
    BY <1>10 DEF PrepareEnds, StartEnds, PollEnds, FeedbackEnds, StopEnds, FaultEnds,
                 OtherEnds, Ends
  <2>2. Lacks(<<>>, "CLAIM")
    BY ShortScripts
  <2> QED
    BY <2>1, <2>2, DoneShapes DEF ShapeInv, Claims
<1>11. CASE Crash
  BY <1>11, DoneShapes DEF Crash
<1>12. CASE Firmware
  BY <1>1, <1>12
     DEF Firmware, Handle, Hello, Heartbeat, PrepareShadow, ArmRequest, Enable,
         SafeStop, ExecutorDiagnostics, TrackingDiagnostics, FeedbackSnapshot,
         StreamOpen, SetpointBatch, SpliceBatch, Admit, Answer, AnswerAt, adapter,
         operation
<1>13. CASE Environment \/ Loss \/ UNCHANGED vars
  BY <1>1, <1>13
     DEF Environment, Loss, LoseRequest, LoseAnswer, adapter, operation, link, vars
<1> QED
  BY <1>2, <1>3, <1>4, <1>5, <1>6, <1>7, <1>8, <1>9, <1>10, <1>11, <1>12, <1>13
     DEF Next, Exchange

LEMMA SpecShapes == Spec => []ShapeInv
<1>1. Init => ShapeInv
  BY ShortScripts DEF Init, ShapeInv, Shapes, Claims
<1>2. ScriptInv /\ ShapeInv /\ [Next]_vars => ShapeInv'
  BY NextShapes
<1> QED
  BY <1>1, <1>2, SpecScripts, PTL DEF Spec

-----------------------------------------------------------------------------
(* What a caller may ask for, and what batches are made of.                  *)

SampleSet == [tick : Nat, epoch : Nat]

\* Samples are ticked.
LEMMA SamplesAreTicked ==
    /\ Samples = Seq(SampleSet) /\ Ticked(SampleSet)
    /\ \A s \in Samples : s # <<>> =>
          LastTick(s) \in Nat /\ FirstTick(s) \in Nat /\ Len(s) \in Nat \ {0}
<1>1. Samples = Seq(SampleSet) /\ Ticked(SampleSet)
  BY DEF Samples, SampleSet, Ticked
<1>2. \A s \in Seq(SampleSet) : s # <<>> =>
         /\ Len(s) \in Nat \ {0} /\ s[1] \in SampleSet /\ s[Len(s)] \in SampleSet
  OBVIOUS
<1> QED
  BY <1>1, <1>2 DEF LastTick, FirstTick, Ticked

\* The offsets of a plan are in order, as each is before the next one.
LEMMA PlanOrder ==
    ASSUME NEW p \in Plans
    PROVE  /\ p \in Seq(Nat) /\ p # <<>> /\ Len(p) \in Nat \ {0}
           /\ \A i \in 1 .. Len(p) : p[i] \in Nat \ {0} /\ p[i] % ControlTick = 0
           /\ \A i, j \in 1 .. Len(p) : i < j => p[i] < p[j]
<1>1. /\ p \in Seq(Nat \ {0}) /\ p # <<>>
      /\ \A i \in 1 .. Len(p) : p[i] % ControlTick = 0
      /\ \A i \in 1 .. Len(p) - 1 : p[i] < p[i + 1]
  BY AdapterAssumption
<1>2. /\ p \in Seq(Nat) /\ Len(p) \in Nat \ {0}
      /\ \A i \in 1 .. Len(p) : p[i] \in Nat \ {0}
  BY <1>1
<1>3. ASSUME NEW i \in 1 .. Len(p), NEW k \in 1 .. Len(p), i < k, ~(p[i] < p[k])
      PROVE  FALSE
  <2> DEFINE T == {j \in 1 .. Len(p) : i < j /\ ~(p[i] < p[j])}
  <2>1. k \in T /\ T \subseteq Nat /\ T # {}
    BY <1>3
  <2> HIDE DEF T
  <2>2. PICK j \in T : \A m \in T : ~(<<m, j>> \in OpToRel(<, Nat))
    BY <2>1, NatLessThanWellFounded, WFMin
  <2>3. j \in 1 .. Len(p) /\ i < j /\ ~(p[i] < p[j]) /\ j \in Nat /\ i \in Nat
    <3>1. j \in 1 .. Len(p) /\ i < j /\ ~(p[i] < p[j])
      BY DEF T
    <3> QED
      BY <3>1, <1>2
  <2>4. j - 1 \in 1 .. Len(p) - 1 /\ j - 1 \in 1 .. Len(p) /\ (j - 1) + 1 = j
    BY <2>3, <1>2
  <2>5. p[j - 1] < p[j]
    BY <1>1, <2>4
  <2>6. p[i] \in Nat /\ p[j - 1] \in Nat /\ p[j] \in Nat
    BY <1>2, <2>3, <2>4
  <2>7. CASE j - 1 = i
    BY <2>3, <2>5, <2>7
  <2>8. CASE j - 1 # i
    <3>1. i < j - 1 /\ ~(p[i] < p[j - 1])
      BY <2>3, <2>5, <2>6, <2>8
    <3>2. j - 1 \in T
      BY <3>1, <2>4 DEF T
    <3>3. <<j - 1, j>> \in OpToRel(<, Nat)
      BY <2>3, <2>4 DEF OpToRel
    <3> QED
      BY <2>2, <3>2, <3>3
  <2> QED
    BY <2>7, <2>8
<1> QED
  BY <1>1, <1>2, <1>3

\* The samples of a plan.
LEMMA PlanSamples ==
    ASSUME NEW p \in Plans, NEW start \in Nat, NEW e \in Nat
    PROVE  LET s == SamplesAt(p, start, e) IN
           /\ s \in Samples /\ s # <<>> /\ Len(s) = Len(p) /\ Sorted(s)
           /\ \A i \in 1 .. Len(s) : s[i].tick = start + p[i] /\ s[i].epoch = e
           /\ FirstTick(s) = start + p[1] /\ LastTick(s) = start + p[Len(p)]
<1> DEFINE s == SamplesAt(p, start, e)
<1>1. /\ Len(p) \in Nat \ {0} /\ \A i \in 1 .. Len(p) : p[i] \in Nat
      /\ \A i, j \in 1 .. Len(p) : i < j => p[i] < p[j]
  BY PlanOrder
<1>2. s = [i \in 1 .. Len(p) |-> [tick |-> start + p[i], epoch |-> e]]
  BY DEF SamplesAt, Sample
<1>3. \A i \in 1 .. Len(p) : [tick |-> start + p[i], epoch |-> e] \in SampleSet
  BY <1>1 DEF SampleSet
<1>4. s \in Seq(SampleSet) /\ Len(s) = Len(p)
  BY <1>1, <1>2, <1>3
<1>5. \A i \in 1 .. Len(p) : s[i].tick = start + p[i] /\ s[i].epoch = e
  BY <1>2
<1> HIDE DEF s
<1>6. Sorted(s)
  <2> SUFFICES ASSUME NEW i \in 1 .. Len(s), NEW j \in 1 .. Len(s), i < j
               PROVE  s[i].tick < s[j].tick
    BY DEF Sorted
  <2>1. p[i] < p[j] /\ p[i] \in Nat /\ p[j] \in Nat
    BY <1>1, <1>4
  <2> QED
    BY <2>1, <1>4, <1>5
<1>7. s # <<>> /\ FirstTick(s) = start + p[1] /\ LastTick(s) = start + p[Len(p)]
  BY <1>1, <1>4, <1>5 DEF FirstTick, LastTick
<1> QED
  BY <1>4, <1>5, <1>6, <1>7, SamplesAreTicked DEF s

\* A part of samples is samples.
LEMMA PartType ==
    ASSUME NEW S, NEW s \in Seq(S), NEW m \in Nat \ {0}, NEW n \in Int, n <= Len(s)
    PROVE  /\ SubSeq(s, m, n) \in Seq(S)
           /\ Len(SubSeq(s, m, n)) = IF m <= n THEN n - m + 1 ELSE 0
<1>1. Len(s) \in Nat /\ \A i \in m .. n : i \in 1 .. Len(s) /\ s[i] \in S
  OBVIOUS
<1> QED
  BY <1>1, SubSeqProperties

-----------------------------------------------------------------------------
(* The types of what is on the link.                                         *)

Frames == [kind : Kinds, mine : BOOLEAN, content : Contents]
Replies == [kind : Kinds \cup {"STATE", "STATUS"}, mine : BOOLEAN, says : Words, at : Nat]

LinkTyped ==
    up \in Seq(Frames) /\ down \in Seq(Replies) /\ asked \in Kinds \cup {"NONE"}

\* A batch has samples.
FullBatches ==
    \A i \in 1 .. Len(up) :
        up[i].kind \in {"APPEND", "SPLICE"} => up[i].content.samples # <<>>

LEMMA ContentParts ==
    /\ \A c \in Contents : c.horizon \in Nat /\ c.epoch \in Nat /\ c.samples \in Samples
    /\ \A h \in Nat, e \in Nat, s \in Samples :
          [horizon |-> h, epoch |-> e, samples |-> s] \in Contents
    /\ \A h \in Nat : [NoContent EXCEPT !.horizon = h] \in Contents
    /\ NoContent \in Contents /\ NoContent.samples = <<>> /\ <<>> \in Samples
<1>1. <<>> \in Samples
  BY DEF Samples
<1>2. \A c \in Contents : c.horizon \in Nat /\ c.epoch \in Nat /\ c.samples \in Samples
  BY DEF Contents
<1>3. \A h \in Nat, e \in Nat, s \in Samples :
         [horizon |-> h, epoch |-> e, samples |-> s] \in Contents
  BY DEF Contents
<1>4. \A h \in Nat : [NoContent EXCEPT !.horizon = h]
                    = [horizon |-> h, epoch |-> 0, samples |-> <<>>]
  BY DEF NoContent
<1>5. NoContent = [horizon |-> 0, epoch |-> 0, samples |-> <<>>] /\ NoContent.samples = <<>>
  BY DEF NoContent
<1>6. NoContent \in Contents
  BY <1>1, <1>3, <1>5
<1> QED
  BY <1>1, <1>2, <1>3, <1>4, <1>5, <1>6

LEMMA FrameParts ==
    /\ \A f \in Frames : f.kind \in Kinds /\ f.content \in Contents /\ f.mine \in BOOLEAN
    /\ \A f \in Frames : /\ [f EXCEPT !.mine = FALSE] \in Frames
                         /\ [f EXCEPT !.mine = FALSE].kind = f.kind
                         /\ [f EXCEPT !.mine = FALSE].content = f.content
                         /\ ~[f EXCEPT !.mine = FALSE].mine
    /\ \A k \in Kinds, c \in Contents :
          [kind |-> k, mine |-> TRUE, content |-> c] \in Frames
  BY DEF Frames

LEMMA ReplyParts ==
    /\ \A r \in Replies : r.says \in Words /\ r.at \in Nat /\ r.mine \in BOOLEAN
    /\ \A r \in Replies : /\ [r EXCEPT !.mine = FALSE] \in Replies
                          /\ [r EXCEPT !.mine = FALSE].at = r.at
                          /\ [r EXCEPT !.mine = FALSE].says = r.says
                          /\ ~[r EXCEPT !.mine = FALSE].mine
    /\ \A k \in Kinds \cup {"STATE", "STATUS"}, m \in BOOLEAN, s \in Words, t \in Nat :
          [kind |-> k, mine |-> m, says |-> s, at |-> t] \in Replies
  BY DEF Replies

\* Frames that are not waited for any more are the same but for that.
LEMMA DisownedFrames ==
    ASSUME NEW s \in Seq(Frames)
    PROVE  /\ Disowned(s) \in Seq(Frames) /\ Len(Disowned(s)) = Len(s) /\ Len(s) \in Nat
           /\ \A i \in 1 .. Len(s) :
                 /\ Disowned(s)[i].kind = s[i].kind /\ ~Disowned(s)[i].mine
                 /\ Disowned(s)[i].content = s[i].content
<1> DEFINE new(i) == [s[i] EXCEPT !.mine = FALSE]
<1>1. /\ Len(s) \in Nat /\ DOMAIN s = 1 .. Len(s)
      /\ \A i \in 1 .. Len(s) : s[i] \in Frames
  OBVIOUS
<1>2. \A i \in 1 .. Len(s) :
         /\ new(i) \in Frames /\ new(i).kind = s[i].kind /\ ~new(i).mine
         /\ new(i).content = s[i].content
  BY <1>1, FrameParts
<1>3. Disowned(s) = [i \in 1 .. Len(s) |-> new(i)]
  BY <1>1 DEF Disowned
<1> HIDE DEF new
<1>4. Disowned(s) \in Seq(Frames) /\ Len(Disowned(s)) = Len(s)
  BY <1>1, <1>2, <1>3
<1> QED
  BY <1>1, <1>2, <1>3, <1>4

LEMMA DisownedReplies ==
    ASSUME NEW s \in Seq(Replies)
    PROVE  /\ Disowned(s) \in Seq(Replies) /\ Len(Disowned(s)) = Len(s) /\ Len(s) \in Nat
           /\ \A i \in 1 .. Len(s) :
                 ~Disowned(s)[i].mine /\ Disowned(s)[i].at = s[i].at
<1> DEFINE new(i) == [s[i] EXCEPT !.mine = FALSE]
<1>1. /\ Len(s) \in Nat /\ DOMAIN s = 1 .. Len(s)
      /\ \A i \in 1 .. Len(s) : s[i] \in Replies
  OBVIOUS
<1>2. \A i \in 1 .. Len(s) :
         new(i) \in Replies /\ ~new(i).mine /\ new(i).at = s[i].at
  BY <1>1, ReplyParts
<1>3. Disowned(s) = [i \in 1 .. Len(s) |-> new(i)]
  BY <1>1 DEF Disowned
<1> HIDE DEF new
<1>4. Disowned(s) \in Seq(Replies) /\ Len(Disowned(s)) = Len(s)
  BY <1>1, <1>2, <1>3
<1> QED
  BY <1>1, <1>2, <1>3, <1>4

\* The link after a request was sent: the new one is the last, and nothing else
\* on it is waited for.
LEMMA SendView ==
    ASSUME LinkTyped, NEW kind \in Kinds, NEW content \in Contents, Send(kind, content)
    PROVE  /\ LinkTyped' /\ asked' = kind
           /\ Len(up) \in Nat /\ Len(up') = Len(up) + 1 /\ Len(down') = Len(down)
           /\ \A i \in 1 .. Len(up) :
                 /\ up'[i].kind = up[i].kind /\ up'[i].content = up[i].content
                 /\ ~up'[i].mine
           /\ LET new == up'[Len(up) + 1] IN
              new.kind = kind /\ new.content = content /\ new.mine
           /\ \A i \in 1 .. Len(down) : ~down'[i].mine /\ down'[i].at = down[i].at
<1> DEFINE old == Disowned(up)
           new == [kind |-> kind, mine |-> TRUE, content |-> content]
<1>1. /\ old \in Seq(Frames) /\ Len(old) = Len(up) /\ Len(up) \in Nat
      /\ \A i \in 1 .. Len(up) :
            old[i].kind = up[i].kind /\ old[i].content = up[i].content /\ ~old[i].mine
  BY DisownedFrames DEF LinkTyped
<1>2. /\ down' \in Seq(Replies) /\ Len(down') = Len(down)
      /\ \A i \in 1 .. Len(down) : ~down'[i].mine /\ down'[i].at = down[i].at
  BY DisownedReplies DEF LinkTyped, Send
<1>3. /\ new \in Frames /\ new.kind = kind /\ new.content = content /\ new.mine
      /\ up' = Append(old, new) /\ asked' = kind
  BY FrameParts DEF Send
<1> HIDE DEF old, new
<1>4. /\ up' \in Seq(Frames) /\ Len(up') = Len(up) + 1
      /\ \A i \in 1 .. Len(up) : up'[i] = old[i]
      /\ up'[Len(up) + 1] = new
  BY <1>1, <1>3
<1> QED
  BY <1>1, <1>2, <1>3, <1>4 DEF LinkTyped

\* The link after a request was handled: the answer is the last.
LEMMA AnswerView ==
    ASSUME LinkTyped, up # <<>>, NEW says \in Words, NEW at \in Nat, AnswerAt(says, at)
    PROVE  /\ LinkTyped' /\ asked' = asked
           /\ Len(up) \in Nat \ {0} /\ Len(up') = Len(up) - 1
           /\ Head(up) = up[1] /\ Head(up) \in Frames
           /\ \A i \in 1 .. Len(up') : up'[i] = up[i + 1]
           /\ Len(down) \in Nat /\ Len(down') = Len(down) + 1
           /\ \A i \in 1 .. Len(down) : down'[i] = down[i]
           /\ LET new == down'[Len(down) + 1] IN
              new.says = says /\ new.at = at /\ new.mine = Head(up).mine
<1> DEFINE new == [kind |-> AnswerKind(Head(up).kind), mine |-> Head(up).mine,
                   says |-> says, at |-> at]
<1>1. /\ up' = Tail(up) /\ asked' = asked /\ up \in Seq(Frames) /\ down \in Seq(Replies)
      /\ asked \in Kinds \cup {"NONE"}
      /\ down' = Append(down, new)
  BY DEF AnswerAt, LinkTyped
<1>2. /\ up' \in Seq(Frames) /\ Len(up') = Len(up) - 1 /\ Len(up) \in Nat \ {0}
      /\ Head(up) = up[1] /\ Head(up) \in Frames
      /\ \A i \in 1 .. Len(up') : up'[i] = up[i + 1]
  BY <1>1, TailOfLink
<1>3. Head(up).kind \in Kinds /\ Head(up).mine \in BOOLEAN
  BY <1>2, FrameParts
<1>4. AnswerKind(Head(up).kind) \in Kinds \cup {"STATE", "STATUS"}
  <2>1. \A k : AnswerKind(k) \in {"STATE", "STATUS", k}
    BY DEF AnswerKind
  <2> QED
    BY <1>3, <2>1
<1>5. /\ new \in Replies /\ new.says = says /\ new.at = at /\ new.mine = Head(up).mine
  BY <1>3, <1>4, ReplyParts
<1> HIDE DEF new
<1>6. /\ down' \in Seq(Replies) /\ Len(down) \in Nat /\ Len(down') = Len(down) + 1
      /\ \A i \in 1 .. Len(down) : down'[i] = down[i]
      /\ down'[Len(down) + 1] = new
  BY <1>1, <1>5
<1> QED
  BY <1>1, <1>2, <1>5, <1>6 DEF LinkTyped

\* The link after an answer was received: what came before it is gone.
LEMMA ReceiveView ==
    ASSUME LinkTyped, NEW i \in DOMAIN down, Receive(i)
    PROVE  /\ LinkTyped' /\ asked' = "NONE" /\ up' = up
           /\ Len(down) \in Nat /\ Len(down') = Len(down) - i /\ i \in 1 .. Len(down)
           /\ down[i] \in Replies /\ down[i].mine /\ down[i].kind = AnswerKind(asked)
           /\ \A j \in 1 .. Len(down') : down'[j] = down[i + j]
<1>1. /\ down \in Seq(Replies) /\ down' = SubSeq(down, i + 1, Len(down))
      /\ asked' = "NONE" /\ up' = up /\ up \in Seq(Frames)
      /\ down[i].mine /\ down[i].kind = AnswerKind(asked)
  BY DEF Receive, LinkTyped, FirstMatch, Matches
<1>2. Len(down) \in Nat /\ i \in 1 .. Len(down) /\ down[i] \in Replies
  BY <1>1
<1>3. \A j \in i + 1 .. Len(down) : down[j] \in Replies
  BY <1>1, <1>2
<1>4. /\ down' \in Seq(Replies)
      /\ Len(down') = IF i + 1 <= Len(down) THEN Len(down) - (i + 1) + 1 ELSE 0
      /\ \A j \in 1 .. Len(down) - (i + 1) + 1 : down'[j] = down[(i + 1) + j - 1]
  BY <1>1, <1>2, <1>3, SubSeqProperties
<1>5. Len(down') = Len(down) - i
  BY <1>2, <1>4
<1>6. ASSUME NEW j \in 1 .. Len(down') PROVE down'[j] = down[i + j]
  <2>1. j \in 1 .. Len(down) - (i + 1) + 1 /\ (i + 1) + j - 1 = i + j
    BY <1>2, <1>5
  <2> QED
    BY <2>1, <1>4
<1> QED
  BY <1>1, <1>2, <1>4, <1>5, <1>6 DEF LinkTyped

-----------------------------------------------------------------------------
(* TypeOK.                                                                   *)

FirmwareTyped ==
    /\ now \in Nat /\ silence \in 0 .. Stale /\ exec \in ExecStates
    /\ queue \in Samples /\ Len(queue) <= QueueCapacity
    /\ limit \in Nat /\ streamEpoch \in Nat

FlagsTyped ==
    /\ starting \in BOOLEAN /\ enabled \in BOOLEAN
    /\ armsOn \in BOOLEAN /\ torque \in BOOLEAN /\ faulted \in BOOLEAN
    /\ latched \in BOOLEAN /\ anchored \in BOOLEAN /\ tracking \in BOOLEAN

Drafts == [route : Samples, horizon : Nat, pending : Samples]

PlanTyped ==
    /\ route \in Samples /\ horizon \in Nat /\ pending \in Samples /\ draft \in Drafts

SeenTyped ==
    seen \in [base : Nat, healthy : BOOLEAN, exec : Words \cup {"NONE"}, idle : BOOLEAN]

Jobs == {"none", "prepare", "refresh", "start", "append", "splice", "poll",
         "keepalive", "feedback", "stop", "fault"}

HostTyped ==
    /\ host \in {"NEW", "READY", "ACTIVE", "STOPPED", "FAULTED", "DEAD"}
    /\ owned \in BOOLEAN /\ armed \in BOOLEAN
    /\ epoch \in 0 .. MaxEpoch /\ streak \in 0 .. FailureLimit - 1 /\ job \in Jobs

\* A stream that is opened, or about to be, has a plan; a batch that is waited
\* for belongs to one.
Planned == host = "ACTIVE" \/ (job = "start" /\ todo = <<>>)
RouteKnown ==
    /\ Planned => route # <<>>
    /\ job = "start" /\ (todo = <<"APPEND">> \/ asked = "OPEN") => draft.route # <<>>
    /\ asked \in {"APPEND", "SPLICE"} => draft.route # <<>>

TypeInv ==
    /\ LinkTyped /\ FullBatches /\ FirmwareTyped /\ FlagsTyped
    /\ HostTyped /\ PlanTyped /\ SeenTyped /\ RouteKnown

\* The parts are what TypeOK says, with the scripts.
LEMMA TypeInvIsEnough ==
    ASSUME TypeInv, ScriptInv
    PROVE  TypeOK
<1>1. /\ up \in Seq([kind : Kinds, mine : BOOLEAN, content : Contents])
      /\ down \in Seq([kind : Kinds \cup {"STATE", "STATUS"}, mine : BOOLEAN,
                       says : Words, at : Nat])
      /\ asked \in Kinds \cup {"NONE"}
  BY DEF TypeInv, LinkTyped, Frames, Replies
<1>2. /\ now \in Nat /\ silence \in 0 .. Stale /\ exec \in ExecStates
      /\ queue \in Samples /\ Len(queue) <= QueueCapacity
      /\ limit \in Nat /\ streamEpoch \in Nat
  BY DEF TypeInv, FirmwareTyped
<1>3. /\ {starting, enabled, latched, anchored, tracking} \subseteq BOOLEAN
      /\ {armsOn, torque, faulted} \subseteq BOOLEAN
  BY Zenon DEF TypeInv, FlagsTyped
<1>4. /\ host \in {"NEW", "READY", "ACTIVE", "STOPPED", "FAULTED", "DEAD"}
      /\ epoch \in 0 .. MaxEpoch /\ streak \in 0 .. FailureLimit - 1
      /\ job \in {"none", "prepare", "refresh", "start", "append", "splice", "poll",
                  "keepalive", "feedback", "stop", "fault"}
  BY DEF TypeInv, HostTyped, Jobs
<1>5. {owned, armed} \subseteq BOOLEAN
  BY Zenon DEF TypeInv, HostTyped
<1>6. /\ route \in Samples /\ horizon \in Nat /\ pending \in Samples
      /\ draft \in [route : Samples, horizon : Nat, pending : Samples]
  BY DEF TypeInv, PlanTyped, Drafts
<1>7. todo \in Seq(PlainKinds \cup StatusKinds \cup {"CLAIM", "PUMP"})
  BY DEF ScriptInv, Scripts, Steps
<1>8. seen \in [base : Nat, healthy : BOOLEAN, exec : Words \cup {"NONE"}, idle : BOOLEAN]
  BY DEF TypeInv, SeenTyped
<1> QED
  BY <1>1, <1>2, <1>3, <1>4, <1>5, <1>6, <1>7, <1>8, Zenon DEF TypeOK

\* The request a handler is for, and the words it can answer with.
LEMMA HandleAnswers ==
    ASSUME Handle, FirmwareTyped
    PROVE  /\ up # <<>>
           /\ \E says \in Words, at \in Nat : at <= now /\ AnswerAt(says, at)
<1>1. /\ "OK" \in Words /\ "LATCHED" \in Words /\ "REFUSED" \in Words
      /\ "FAILED" \in Words
      /\ "ACTIVE" \in Words /\ "IDLE" \in Words /\ exec \in Words
      /\ Health \in Words /\ 0 \in Nat /\ now \in Nat
      /\ 0 <= now /\ now <= now
  BY DEF Words, ExecStates, Health, FirmwareTyped
<1>2. up # <<>>
  BY HandleEffect
<1>3. CASE Hello
  BY <1>1, <1>2, <1>3 DEF Hello, Answer
<1>4. CASE Heartbeat
  BY <1>1, <1>2, <1>4 DEF Heartbeat
<1>5. CASE PrepareShadow
  <2>1. Answer("OK") \/ Answer("REFUSED")
    BY <1>5, Zenon DEF PrepareShadow
  <2> QED
    BY <1>1, <1>2, <2>1 DEF Answer
<1>6. CASE ArmRequest
  <2>1. Answer("OK") \/ Answer("REFUSED")
    BY <1>6, Zenon DEF ArmRequest
  <2> QED
    BY <1>1, <1>2, <2>1 DEF Answer
<1>7. CASE Enable
  BY <1>1, <1>2, <1>7 DEF Enable, Answer
<1>8. CASE SafeStop
  <2>1. Answer("FAILED") \/ Answer("LATCHED")
    BY <1>8 DEF SafeStop
  <2> QED
    BY <1>1, <1>2, <2>1 DEF Answer
<1>9. CASE ExecutorDiagnostics
  BY <1>1, <1>2, <1>9 DEF ExecutorDiagnostics, Answer
<1>10. CASE TrackingDiagnostics
  <2>1. Answer("ACTIVE") \/ Answer("IDLE")
    BY <1>10 DEF TrackingDiagnostics
  <2> QED
    BY <1>1, <1>2, <2>1 DEF Answer
<1>11. CASE FeedbackSnapshot
  <2>1. Answer("OK") \/ Answer("REFUSED")
    BY <1>11 DEF FeedbackSnapshot
  <2> QED
    BY <1>1, <1>2, <2>1 DEF Answer
<1>12. CASE StreamOpen \/ SetpointBatch \/ SpliceBatch
  <2>1. Answer("OK") \/ Answer("REFUSED")
    BY <1>12 DEF StreamOpen, SetpointBatch, SpliceBatch, Admit
  <2> QED
    BY <1>1, <1>2, <2>1 DEF Answer
<1> QED
  BY <1>3, <1>4, <1>5, <1>6, <1>7, <1>8, <1>9, <1>10, <1>11, <1>12 DEF Handle

\* A sample, a part and a whole of the queue.
LEMMA AdmitTyped ==
    ASSUME FirmwareTyped, NEW b \in Contents, NEW q \in Samples, Len(q) <= QueueCapacity,
           Admit(b, q)
    PROVE  FirmwareTyped'
  BY ContentParts DEF Admit, FirmwareTyped, arms

LEMMA HandleTyped ==
    ASSUME LinkTyped, FullBatches, FirmwareTyped, Handle
    PROVE  FirmwareTyped'
<1>1. /\ 0 \in 0 .. Stale /\ <<>> \in Samples /\ Len(<<>>) <= QueueCapacity /\ 0 \in Nat
      /\ "PRIMING" \in ExecStates
  BY FirmwareAssumption DEF Stale, Samples, ExecStates
<1>2. /\ Len(up) \in Nat \ {0} /\ Head(up) = up[1] /\ Head(up).kind \in Kinds
      /\ Head(up).content \in Contents
  BY HandleEffect, TailOfLink, FrameParts DEF LinkTyped
<1>3. CASE UNCHANGED <<now, silence, exec, queue, limit, streamEpoch>>
  BY <1>3 DEF FirmwareTyped
<1>4. CASE Heartbeat \/ ArmRequest
  BY <1>1, <1>4 DEF Heartbeat, ArmRequest, FirmwareTyped, stream
<1>5. CASE SafeStop
  BY <1>1, <1>5 DEF SafeStop, CoordinatedStop, FirmwareTyped
<1>6. CASE StreamOpen
  <2>1. Head(up).content.horizon \in Nat
    BY <1>2, ContentParts
  <2>2. UNCHANGED <<now, silence>>
    BY <1>6 DEF StreamOpen
  <2>3. CASE UNCHANGED <<exec, queue, limit, streamEpoch>>
    BY <1>3, <2>2, <2>3
  <2>4. CASE exec' = "PRIMING" /\ queue' = <<>> /\ limit' = Head(up).content.horizon
             /\ streamEpoch' = 0
    BY <1>1, <2>1, <2>2, <2>4 DEF FirmwareTyped
  <2> QED
    BY <1>6, <2>3, <2>4 DEF StreamOpen
<1>7. CASE SetpointBatch
  <2> DEFINE b == Head(up).content
  <2>1. b.samples \in Samples
    BY <1>2, ContentParts
  <2>2. CASE ~AppendAdmitted(b)
    BY <1>3, <1>7, <2>2 DEF SetpointBatch, firmware, stream
  <2>3. CASE AppendAdmitted(b)
    <3>1. Admit(b, queue \o b.samples) /\ Len(queue) + Len(b.samples) <= QueueCapacity
      BY <1>7, <2>3 DEF SetpointBatch, AppendAdmitted
    <3>2. queue \in Seq(SampleSet) /\ b.samples \in Seq(SampleSet)
      BY <2>1, SamplesAreTicked DEF FirmwareTyped
    <3> HIDE DEF b
    <3>3. queue \o b.samples \in Seq(SampleSet) /\ Len(queue \o b.samples) <= QueueCapacity
      BY <3>1, <3>2
    <3>4. queue \o b.samples \in Samples /\ b \in Contents
      BY <3>3, <1>2, SamplesAreTicked DEF b
    <3> QED
      BY <3>1, <3>3, <3>4, AdmitTyped
  <2> QED
    BY <2>2, <2>3
<1>8. CASE SpliceBatch
  <2> DEFINE b == Head(up).content
             f == FirstTick(b.samples)
  <2>1. b.samples \in Samples /\ b.samples # <<>>
    <3>1. up[1].kind = "SPLICE" /\ 1 \in 1 .. Len(up)
      BY <1>2, <1>8 DEF SpliceBatch, Handles
    <3> QED
      BY <3>1, <1>2, ContentParts DEF FullBatches
  <2>2. CASE ~SpliceAdmitted(b)
    BY <1>3, <1>8, <2>2 DEF SpliceBatch, firmware, stream
  <2>3. CASE SpliceAdmitted(b)
    <3>1. Admit(b, Before(queue, f) \o b.samples)
          /\ Len(Before(queue, f)) + Len(b.samples) <= QueueCapacity
      BY <1>8, <2>3 DEF SpliceBatch, SpliceAdmitted
    <3>2. queue \in Seq(SampleSet) /\ b.samples \in Seq(SampleSet) /\ f \in Int
      BY <2>1, SamplesAreTicked DEF FirmwareTyped
    <3> HIDE DEF b, f
    <3>3. Before(queue, f) \in Seq(SampleSet)
      BY <3>2, BeforeType
    <3> DEFINE q == Before(queue, f)
    <3> HIDE DEF q
    <3>4. q \o b.samples \in Seq(SampleSet) /\ Len(q \o b.samples) <= QueueCapacity
      BY <3>1, <3>2, <3>3 DEF q
    <3>5. q \o b.samples \in Samples /\ b \in Contents /\ Admit(b, q \o b.samples)
      BY <3>1, <3>4, <1>2, SamplesAreTicked DEF b, q
    <3> QED
      BY <3>4, <3>5, AdmitTyped
  <2> QED
    BY <2>2, <2>3
<1>9. CASE Hello \/ PrepareShadow \/ Enable \/ ExecutorDiagnostics \/ TrackingDiagnostics
           \/ FeedbackSnapshot
  <2>1. UNCHANGED <<now, silence, stream>>
    BY <1>9 DEF Hello, PrepareShadow, Enable, ExecutorDiagnostics, TrackingDiagnostics,
                FeedbackSnapshot, firmware
  <2> QED
    BY <1>3, <2>1 DEF stream
<1> QED
  BY <1>4, <1>5, <1>6, <1>7, <1>8, <1>9 DEF Handle

\* Left to itself the firmware keeps its types, too.
LEMMA EnvironmentTyped ==
    ASSUME FirmwareTyped, Environment
    PROVE  FirmwareTyped'
<1>1. /\ <<>> \in Samples /\ Len(<<>>) <= QueueCapacity /\ 0 \in Nat
      /\ "ENDED" \in ExecStates /\ "RUNNING" \in ExecStates /\ "SUCCEEDED" \in ExecStates
  BY FirmwareAssumption DEF Samples, ExecStates
<1>2. \A e \in ExecStates : Stop(e) => FirmwareTyped'
  BY <1>1 DEF Stop, CoordinatedStop, FirmwareTyped
<1>3. CASE Watchdog \/ FirmwareStops \/ Underflow
  BY <1>1, <1>2, <1>3 DEF Watchdog, FirmwareStops, Underflow, FirmwareTyped
<1>4. CASE Clock
  <2>1. UNCHANGED <<exec, queue, limit, streamEpoch>>
    BY <1>4 DEF Clock, stream
  <2>2. now' \in Nat
    BY <1>4 DEF Clock, FirmwareTyped
  <2>3. silence' \in 0 .. Stale
    <3>1. silence \in 0 .. Stale /\ Stale \in Nat
      BY FirmwareAssumption DEF FirmwareTyped, Stale
    <3>2. CASE silence' = silence
      BY <3>1, <3>2
    <3>3. CASE silence < Stale /\ silence' = silence + 1
      BY <3>1, <3>3
    <3> QED
      BY <1>4, <3>2, <3>3 DEF Clock, Ageing
  <2> QED
    BY <2>1, <2>2, <2>3 DEF FirmwareTyped
<1>5. CASE StreamStarts
  BY <1>1, <1>2, <1>5 DEF StreamStarts, FirmwareTyped
<1>6. CASE SampleApplied
  <2>1. queue \in Seq(SampleSet) /\ queue # <<>> /\ queue' = Tail(queue)
    BY <1>6, SamplesAreTicked DEF SampleApplied, FirmwareTyped
  <2>2. queue' \in Seq(SampleSet) /\ Len(queue') <= QueueCapacity
    <3>1. /\ Tail(queue) \in Seq(SampleSet) /\ Len(Tail(queue)) = Len(queue) - 1
          /\ Len(queue) \in Nat
      BY <2>1, TailOfLink
    <3> QED
      BY <2>1, <3>1, FirmwareAssumption DEF FirmwareTyped
  <2>3. exec' \in ExecStates /\ UNCHANGED <<now, silence, limit, streamEpoch>>
    BY <1>1, <1>6 DEF SampleApplied, FirmwareTyped
  <2> QED
    BY <2>2, <2>3, SamplesAreTicked DEF FirmwareTyped
<1>7. CASE SettleEnds
  BY <1>7 DEF SettleEnds, FirmwareTyped
<1> QED
  BY <1>3, <1>4, <1>5, <1>6, <1>7 DEF Environment, Control

LEMMA FlagsStayTyped ==
    ASSUME FlagsTyped, Handle \/ Environment
    PROVE  FlagsTyped'
<1> USE DEF FlagsTyped
<1>1. CASE Hello \/ Heartbeat \/ ExecutorDiagnostics \/ TrackingDiagnostics
           \/ FeedbackSnapshot \/ Clock
  <2>1. UNCHANGED <<starting, tracking, armsOn, torque, faulted, enabled, latched, anchored>>
    BY <1>1 DEF Hello, Heartbeat, ExecutorDiagnostics, TrackingDiagnostics,
                FeedbackSnapshot, Clock, firmware, stream, arms
  <2> QED
    BY <2>1, Zenon
<1>2. CASE PrepareShadow
  <2>1. armsOn' = FALSE /\ UNCHANGED <<starting, tracking, enabled>>
    BY <1>2 DEF PrepareShadow, stream
  <2>4. /\ torque' = torque \/ torque' = FALSE
        /\ faulted' = faulted \/ faulted' = TRUE
    BY <1>2 DEF PrepareShadow
  <2>2. latched' = latched \/ latched' = TRUE
    BY <1>2, Zenon DEF PrepareShadow
  <2>3. anchored' = TRUE \/ anchored' = FALSE
    BY <1>2, Zenon DEF PrepareShadow
  <2> QED
    BY <2>1, <2>2, <2>3, <2>4, Zenon
<1>3. CASE ArmRequest
  <2>1. UNCHANGED <<starting, tracking, faulted, enabled, latched, anchored>>
    BY <1>3 DEF ArmRequest, stream
  <2>2. armsOn' = armsOn \/ armsOn' = TRUE
    BY <1>3, Zenon DEF ArmRequest
  <2>3. torque' = torque \/ torque' \in BOOLEAN
    BY <1>3 DEF ArmRequest
  <2> QED
    BY <2>1, <2>2, <2>3, Zenon
<1>4. CASE Enable
  <2>1. /\ enabled' = (armsOn /\ ~latched)
        /\ UNCHANGED <<starting, tracking, armsOn, torque, faulted, latched, anchored>>
    BY <1>4 DEF Enable, stream
  <2> QED
    BY <2>1, Zenon
<1>5. ASSUME NEW e, Stop(e) PROVE FlagsTyped'
  <2>1. PICK fails \in BOOLEAN : CoordinatedStop(e, fails)
    BY <1>5 DEF Stop
  <2>2. /\ latched' = TRUE /\ armsOn' = FALSE /\ enabled' = FALSE
        /\ torque' = (torque /\ fails) /\ faulted' = (faulted \/ fails)
        /\ starting' = FALSE /\ tracking' = FALSE /\ anchored' = anchored
    BY <2>1 DEF CoordinatedStop
  <2> QED
    BY <2>2, Zenon
<1>6. CASE SafeStop \/ Watchdog \/ FirmwareStops \/ Underflow
  <2>1. \E e : Stop(e)
    BY <1>6 DEF SafeStop, Stop, Watchdog, FirmwareStops, Underflow
  <2> QED
    BY <2>1, <1>5
<1>7. CASE StreamOpen
  <2>1. UNCHANGED <<tracking, armsOn, torque, faulted, enabled, latched, anchored>>
    BY <1>7 DEF StreamOpen, arms
  <2>2. starting' = FALSE \/ starting' = starting
    BY <1>7, Zenon DEF StreamOpen
  <2> QED
    BY <2>1, <2>2, Zenon
<1>8. ASSUME NEW b, NEW q, Admit(b, q) PROVE FlagsTyped'
  <2> DEFINE completes == exec = "PRIMING" /\ Len(q) >= MinStart
  <2>1. UNCHANGED <<armsOn, torque, faulted, enabled, latched, anchored>>
    BY <1>8 DEF Admit, arms
  <2>2. \/ starting' = (starting \/ completes) /\ tracking' = (tracking \/ completes)
        \/ UNCHANGED <<starting, tracking>>
    BY <1>8 DEF Admit
  <2> HIDE DEF completes
  <2> QED
    BY <2>1, <2>2, Zenon
<1>9. CASE SetpointBatch \/ SpliceBatch
  <2>1. UNCHANGED <<starting, tracking, armsOn, torque, faulted, enabled, latched, anchored>>
        \/ \E b, q : Admit(b, q)
    BY <1>9 DEF SetpointBatch, SpliceBatch, firmware, stream, arms
  <2> QED
    BY <2>1, <1>8, Zenon
<1>10. CASE StreamStarts
  <2>1. (\E e : Stop(e))
        \/ (starting' = FALSE /\ anchored' = FALSE
            /\ UNCHANGED <<tracking, armsOn, torque, faulted, enabled, latched>>)
    BY <1>10 DEF StreamStarts, arms
  <2> QED
    BY <2>1, <1>5, Zenon
<1>11. CASE SampleApplied
  <2>1. UNCHANGED <<starting, tracking, armsOn, torque, faulted, enabled, latched, anchored>>
    BY <1>11 DEF SampleApplied, arms
  <2> QED
    BY <2>1, Zenon
<1>12. CASE SettleEnds
  <2>1. /\ tracking' = FALSE /\ anchored' = TRUE
        /\ UNCHANGED <<starting, armsOn, torque, faulted, enabled, latched>>
    BY <1>12 DEF SettleEnds, arms
  <2> QED
    BY <2>1, Zenon
<1> QED
  BY <1>1, <1>2, <1>3, <1>4, <1>6, <1>7, <1>9, <1>10, <1>11, <1>12
     DEF Handle, Environment, Control

\* No step of the adapter touches the firmware, and no step of the firmware the
\* adapter.
AdapterStep == Operation \/ Exchange \/ Crash

LEMMA WhoMoves ==
    ASSUME [Next]_vars
    PROVE  \/ AdapterStep /\ UNCHANGED firmware
           \/ Handle /\ UNCHANGED adapter
           \/ Environment /\ UNCHANGED <<link, adapter>>
           \/ Loss /\ UNCHANGED <<firmware, adapter>>
           \/ UNCHANGED vars
<1>1. CASE Operation
  BY <1>1 DEF AdapterStep, Operation, Prepare, RefreshUnarmedAnchor, Start, AppendPoints,
              SplicePoints, StrayClaim, Poll, Keepalive, PublishFeedback, StopStream, Begin
<1>2. CASE AskPlain \/ Claim \/ OpenPlan \/ AskFirstBatch
  BY <1>2 DEF AdapterStep, Exchange, AskPlain, Claim, OpenPlan, AskFirstBatch, Ask
<1>3. CASE AskAppend
  BY <1>3 DEF AdapterStep, Exchange, AskAppend, Ask
<1>4. CASE AskSplice
  BY <1>4 DEF AdapterStep, Exchange, AskSplice, Ask
<1>5. CASE Pump
  BY <1>5 DEF AdapterStep, Exchange, Pump, Ask
<1>6. CASE GetAnswer \/ TimeOut
  BY <1>6 DEF AdapterStep, Exchange, GetAnswer, TimeOut
<1>7. CASE PrepareEnds \/ StartEnds \/ PollEnds \/ FeedbackEnds \/ StopEnds
           \/ FaultEnds \/ OtherEnds
  BY <1>7 DEF AdapterStep, Exchange, PrepareEnds, StartEnds, PollEnds, FeedbackEnds,
              StopEnds, FaultEnds, OtherEnds, Ends
<1>8. CASE Crash
  BY <1>8 DEF AdapterStep, Crash
<1>9. CASE Firmware \/ Environment \/ Loss \/ UNCHANGED vars
  BY <1>9 DEF Firmware, Environment, Loss
<1> QED
  BY <1>1, <1>2, <1>3, <1>4, <1>5, <1>6, <1>7, <1>8, <1>9 DEF Next, Exchange

\* Which operation a step of a stream belongs to.
LEMMA WhoseStep ==
    ASSUME ScriptInv, ShapeInv, job # "none", todo # <<>>
    PROVE  /\ todo \in Seq(Steps) /\ Head(todo) = todo[1]
           /\ Head(todo) \in {"OPEN", "ENABLE"} => job = "start"
           /\ Head(todo) = "OPEN" => todo = <<"OPEN", "APPEND">>
           /\ Head(todo) = "APPEND" => job \in {"start", "append"} /\ todo = <<"APPEND">>
           /\ Head(todo) = "SPLICE" => job = "splice" /\ todo = <<"SPLICE">>
           /\ Head(todo) \in {"PUMP", "EXECUTOR"} => job = "poll"
<1>1. todo \in Seq(Steps) /\ Head(todo) = todo[1]
  BY DEF ScriptInv, Scripts
<1>2. \A k : Lacks(todo, k) => Head(todo) # k
  BY <1>1, TailLacks
<1>3. CASE job = "start"
  BY <1>1, <1>2, <1>3, StartGoesOn DEF ShapeInv, Shapes
<1>4. CASE job = "poll"
  BY <1>1, <1>2, <1>4, PollGoesOn DEF ShapeInv, Shapes
<1>5. CASE job = "append"
  BY <1>1, <1>5 DEF ShapeInv, Shapes
<1>6. CASE job = "splice"
  BY <1>1, <1>6 DEF ShapeInv, Shapes
<1>7. CASE job = "feedback"
  BY <1>1, <1>7 DEF ShapeInv, Shapes
<1>8. CASE job \notin {"start", "poll", "append", "splice", "feedback"}
  BY <1>1, <1>2, <1>8 DEF ShapeInv, Shapes, StreamSteps
<1> QED
  BY <1>3, <1>4, <1>5, <1>6, <1>7, <1>8

\* Facts about the parts of what the adapter keeps.
LEMMA DraftParts ==
    /\ \A d \in Drafts : d.route \in Samples /\ d.horizon \in Nat /\ d.pending \in Samples
    /\ \A r \in Samples, h \in Nat, q \in Samples :
          [route |-> r, horizon |-> h, pending |-> q] \in Drafts
    /\ NoDraft \in Drafts /\ NoDraft.route = <<>> /\ NoDraft.pending = <<>>
<1>1. <<>> \in Samples
  BY DEF Samples
<1>2. NoDraft = [route |-> <<>>, horizon |-> 0, pending |-> <<>>]
  BY DEF NoDraft
<1> QED
  BY <1>1, <1>2 DEF Drafts

LEMMA SeenParts ==
    ASSUME SeenTyped
    PROVE  /\ seen.base \in Nat
           /\ \A t \in Nat : seen' = [seen EXCEPT !.base = t] => SeenTyped'
           /\ seen' = NothingSeen => SeenTyped'
<1>1. seen.base \in Nat
  BY DEF SeenTyped
<1>2. \A t \in Nat : seen' = [seen EXCEPT !.base = t] => SeenTyped'
  BY DEF SeenTyped
<1>3. seen' = NothingSeen => SeenTyped'
  <2>1. NothingSeen = [base |-> 0, healthy |-> TRUE, exec |-> "NONE", idle |-> TRUE]
    BY DEF NothingSeen
  <2>2. NothingSeen \in [base : Nat, healthy : BOOLEAN, exec : Words \cup {"NONE"},
                         idle : BOOLEAN]
    BY <2>1
  <2> QED
    BY <2>2 DEF SeenTyped
<1> QED
  BY <1>1, <1>2, <1>3

\* A request of the adapter, and what it changes beside the link.
TypedAsk(kind, content) ==
    /\ Send(kind, content)
    /\ kind \in Kinds /\ content \in Contents
    /\ kind \in {"APPEND", "SPLICE"} => content.samples # <<>>
    /\ draft' \in Drafts
    /\ draft'.route # <<>> \/ (draft' = draft /\ kind \in PlainKinds)
    /\ epoch' \in 0 .. MaxEpoch
    /\ seen' = [seen EXCEPT !.base = 0]
    /\ UNCHANGED <<host, owned, armed, route, horizon, pending, streak, job, todo>>

\* The samples of a plan that is opened or fed.
LEMMA FirstSamples ==
    ASSUME NEW s \in Samples, NEW n \in Int, n <= Len(s)
    PROVE  /\ Take(s, n) \in Samples /\ Len(Take(s, n)) = IF 1 <= n THEN n ELSE 0
           /\ n \in Nat => Drop(s, n) \in Samples
<1>1. s \in Seq(SampleSet) /\ Len(s) \in Nat
  BY SamplesAreTicked
<1>2. Take(s, n) \in Samples /\ Len(Take(s, n)) = IF 1 <= n THEN n - 1 + 1 ELSE 0
  BY <1>1, PartType, SamplesAreTicked DEF Take
<1>3. ASSUME n \in Nat PROVE Drop(s, n) \in Samples
  <2>1. n + 1 \in Nat \ {0} /\ Len(s) \in Int /\ Len(s) <= Len(s)
    BY <1>1, <1>3
  <2> QED
    BY <1>1, <2>1, PartType, SamplesAreTicked DEF Drop
<1> QED
  BY <1>2, <1>3

LEMMA WindowType ==
    ASSUME NEW s \in Samples, SeenTyped
    PROVE  InWindow(s) \in 0 .. Len(s) /\ Len(s) \in Nat
<1>1. Base + MaxLead \in Int
  BY SeenParts, FirmwareAssumption DEF Base
<1>2. Passed(s, Base + MaxLead) \in 0 .. Len(s) /\ Len(s) \in Nat
  BY <1>1, PassedType, SamplesAreTicked
<1> QED
  BY <1>2 DEF InWindow

LEMMA AskPlainTyped ==
    ASSUME AskPlain, PlanTyped, HostTyped
    PROVE  \E kind, content : TypedAsk(kind, content)
<1>1. PICK kind \in PlainKinds : Ask(kind, NoContent)
  BY DEF AskPlain
<1>2. kind \in Kinds /\ kind \notin {"APPEND", "SPLICE"} /\ NoContent \in Contents
  BY ContentParts DEF Kinds, PlainKinds
<1>3. UNCHANGED <<epoch, draft>>
  BY DEF AskPlain
<1>4. TypedAsk(kind, NoContent)
  BY <1>1, <1>2, <1>3 DEF TypedAsk, Ask, plan, PlanTyped, HostTyped
<1> QED
  BY <1>4

LEMMA OpenPlanTyped ==
    ASSUME OpenPlan, PlanTyped, HostTyped, SeenTyped
    PROVE  \E kind, content : TypedAsk(kind, content)
<1>1. PICK p \in Plans, finite \in BOOLEAN :
         LET samples == SamplesAt(p, Base, epoch)
             first == AtMost(MaxBatch, InWindow(samples))
             end == IF finite THEN LastTick(samples) ELSE 0
         IN
         /\ first >= MinStart
         /\ draft' = [route   |-> Take(samples, first), horizon |-> end,
                      pending |-> Drop(samples, first)]
         /\ Ask("OPEN", [NoContent EXCEPT !.horizon = end])
  BY DEF OpenPlan
<1> DEFINE samples == SamplesAt(p, Base, epoch)
           first == AtMost(MaxBatch, InWindow(samples))
           end == IF finite THEN LastTick(samples) ELSE 0
<1>2. /\ first >= MinStart
      /\ draft' = [route   |-> Take(samples, first), horizon |-> end,
                   pending |-> Drop(samples, first)]
      /\ Ask("OPEN", [NoContent EXCEPT !.horizon = end])
  BY <1>1
<1>3. Base \in Nat /\ epoch \in Nat
  BY SeenParts, AdapterAssumption DEF Base, HostTyped
<1>4. samples \in Samples /\ samples # <<>> /\ LastTick(samples) \in Nat
  BY <1>3, PlanSamples, SamplesAreTicked
<1>5. end \in Nat
  BY <1>4
<1>6. InWindow(samples) \in 0 .. Len(samples) /\ Len(samples) \in Nat
  BY <1>4, WindowType
<1>7. first \in Nat /\ first <= Len(samples)
  BY <1>6, AdapterAssumption DEF AtMost
<1> HIDE DEF samples, first, end
<1>8. /\ Take(samples, first) \in Samples /\ Drop(samples, first) \in Samples
      /\ Len(Take(samples, first)) = IF 1 <= first THEN first ELSE 0
  BY <1>4, <1>7, FirstSamples
<1>9. Take(samples, first) # <<>>
  <2>1. MinStart \in Nat \ {0} /\ first >= 1
    BY <1>2, <1>7, FirmwareAssumption
  <2>2. Len(Take(samples, first)) # 0
    BY <1>7, <1>8, <2>1
  <2> QED
    BY <2>2
<1>10. draft' \in Drafts /\ draft'.route # <<>>
  BY <1>2, <1>5, <1>8, <1>9, DraftParts
<1>11. [NoContent EXCEPT !.horizon = end] \in Contents /\ "OPEN" \in Kinds
  BY <1>5, ContentParts DEF Kinds, StatusKinds
<1>12. epoch' = epoch
  BY DEF OpenPlan
<1>13. TypedAsk("OPEN", [NoContent EXCEPT !.horizon = end])
  BY <1>2, <1>10, <1>11, <1>12 DEF TypedAsk, Ask, plan, HostTyped
<1> QED
  BY <1>13

LEMMA AskFirstBatchTyped ==
    ASSUME AskFirstBatch, TypeInv, ScriptInv, ShapeInv
    PROVE  \E kind, content : TypedAsk(kind, content)
<1> USE DEF TypeInv
<1>1. job = "start" /\ todo = <<"APPEND">>
  BY WhoseStep DEF AskFirstBatch, Next1
<1>2. draft \in Drafts /\ draft.route \in Samples /\ draft.horizon \in Nat
      /\ draft.route # <<>> /\ epoch \in Nat
  BY <1>1, DraftParts, AdapterAssumption DEF PlanTyped, RouteKnown, HostTyped
<1> DEFINE c == [horizon |-> draft.horizon, epoch |-> epoch, samples |-> draft.route]
<1>3. c \in Contents /\ c.samples # <<>> /\ "APPEND" \in Kinds
  BY <1>2, ContentParts DEF Kinds, StatusKinds
<1>4. Ask("APPEND", c) /\ UNCHANGED <<epoch, draft>>
  BY DEF AskFirstBatch
<1> HIDE DEF c
<1>5. TypedAsk("APPEND", c)
  BY <1>2, <1>3, <1>4 DEF TypedAsk, Ask, plan, HostTyped
<1> QED
  BY <1>5

\* The route of an active stream has a tail to align with.
LEMMA TailKnown ==
    ASSUME TypeInv, ScriptInv, job \in {"append", "splice", "poll"}
    PROVE  /\ host = "ACTIVE" /\ route \in Seq(SampleSet) /\ route # <<>>
           /\ Base \in Nat /\ epoch \in Nat
           /\ \A t \in Nat : Alignment(t) \in Nat
           /\ After(route, Base) \in Seq(SampleSet)
<1>1. host = "ACTIVE"
  BY DEF ScriptInv, HostJob
<1>2. route \in Seq(SampleSet) /\ route # <<>> /\ LastTick(route) \in Nat
  BY <1>1, SamplesAreTicked DEF TypeInv, PlanTyped, RouteKnown, Planned
<1>3. Base \in Nat /\ epoch \in Nat
  BY SeenParts, AdapterAssumption DEF Base, TypeInv, HostTyped
<1>4. \A t \in Nat : Alignment(t) \in Nat
  BY <1>2, FirmwareAssumption DEF Alignment
<1>5. Base \in Int
  BY <1>3
<1> QED
  BY <1>1, <1>2, <1>3, <1>4, <1>5, AfterType

LEMMA AskAppendTyped ==
    ASSUME AskAppend, ~Fault, TypeInv, ScriptInv, job = "append"
    PROVE  \E kind, content : TypedAsk(kind, content)
<1>1. PICK p \in Plans :
         LET first == Base + p[1]
             shift == Alignment(first)
             samples == SamplesAt(p, Base + shift, epoch)
         IN
         /\ draft' = [route   |-> After(route, Base) \o samples,
                      horizon |-> horizon, pending |-> pending]
         /\ Ask("APPEND", [horizon |-> horizon, epoch |-> epoch, samples |-> samples])
         /\ UNCHANGED epoch
  BY DEF AskAppend
<1>a. Base \in Nat /\ epoch \in Nat
  BY TailKnown
<1>b. \A t \in Nat : Alignment(t) \in Nat
  BY TailKnown
<1>c. After(route, Base) \in Seq(SampleSet)
  BY TailKnown
<1> DEFINE first == Base + p[1]
           shift == Alignment(first)
           samples == SamplesAt(p, Base + shift, epoch)
           future == After(route, Base)
           c == [horizon |-> horizon, epoch |-> epoch, samples |-> samples]
<1>2. /\ draft' = [route |-> future \o samples, horizon |-> horizon, pending |-> pending]
      /\ Ask("APPEND", c) /\ UNCHANGED epoch
  BY <1>1
<1>3. p[1] \in Nat
  BY PlanOrder
<1>4. first \in Nat
  BY <1>a, <1>3
<1>5. shift \in Nat
  BY <1>b, <1>4
<1>6. Base + shift \in Nat /\ epoch \in Nat
  BY <1>a, <1>5
<1>7. samples \in Samples /\ samples # <<>>
  BY <1>6, PlanSamples
<1>8. future \in Seq(SampleSet) /\ samples \in Seq(SampleSet)
  BY <1>c, <1>7, SamplesAreTicked
<1>9. horizon \in Nat /\ pending \in Samples
  BY DEF TypeInv, PlanTyped
<1>10. c \in Contents /\ c.samples # <<>> /\ "APPEND" \in Kinds
  BY <1>6, <1>7, <1>9, ContentParts DEF Kinds, StatusKinds
<1> HIDE DEF first, shift, samples, future, c
<1>11. future \o samples \in Seq(SampleSet) /\ future \o samples # <<>>
  BY <1>7, <1>8
<1>12. draft' \in Drafts /\ draft'.route # <<>>
  BY <1>2, <1>9, <1>11, DraftParts, SamplesAreTicked
<1>13. TypedAsk("APPEND", c)
  BY <1>2, <1>10, <1>12 DEF TypedAsk, Ask, plan, TypeInv, HostTyped
<1> QED
  BY <1>13

LEMMA AskSpliceTyped ==
    ASSUME AskSplice, ~Fault, TypeInv, ScriptInv, job = "splice", epoch < MaxEpoch
    PROVE  \E kind, content : TypedAsk(kind, content)
<1>1. PICK p \in Plans :
         LET at == Base + p[1]
             shift == Alignment(at)
             future == After(route, Base)
             samples == SamplesAt(p, Base + shift, epoch + 1)
         IN
         /\ epoch' = epoch + 1
         /\ draft' = [route   |-> Before(future, at + shift) \o samples,
                      horizon |-> horizon, pending |-> pending]
         /\ Ask("SPLICE", [horizon |-> 0, epoch |-> epoch + 1, samples |-> samples])
  BY DEF AskSplice
<1>a. Base \in Nat /\ epoch \in Nat
  BY TailKnown
<1>b. \A t \in Nat : Alignment(t) \in Nat
  BY TailKnown
<1>c. After(route, Base) \in Seq(SampleSet)
  BY TailKnown
<1> DEFINE at == Base + p[1]
           shift == Alignment(at)
           future == After(route, Base)
           samples == SamplesAt(p, Base + shift, epoch + 1)
           kept == Before(future, at + shift)
           c == [horizon |-> 0, epoch |-> epoch + 1, samples |-> samples]
<1>2. /\ draft' = [route |-> kept \o samples, horizon |-> horizon, pending |-> pending]
      /\ Ask("SPLICE", c) /\ epoch' = epoch + 1
  BY <1>1
<1>3. p[1] \in Nat
  BY PlanOrder
<1>4. at \in Nat
  BY <1>a, <1>3
<1>5. shift \in Nat
  BY <1>b, <1>4
<1>6. Base + shift \in Nat /\ epoch + 1 \in Nat /\ at + shift \in Int
  BY <1>a, <1>4, <1>5
<1>7. samples \in Samples /\ samples # <<>>
  BY <1>6, PlanSamples
<1>8. future \in Seq(SampleSet) /\ samples \in Seq(SampleSet)
  BY <1>c, <1>7, SamplesAreTicked
<1>9. horizon \in Nat /\ pending \in Samples /\ epoch + 1 \in 0 .. MaxEpoch
  BY AdapterAssumption DEF TypeInv, PlanTyped, HostTyped
<1>10. c \in Contents /\ c.samples # <<>> /\ "SPLICE" \in Kinds
  BY <1>6, <1>7, ContentParts DEF Kinds, StatusKinds
<1>11. kept \in Seq(SampleSet)
  BY <1>6, <1>8, BeforeType
<1> HIDE DEF at, shift, samples, future, kept, c
<1>12. kept \o samples \in Seq(SampleSet) /\ kept \o samples # <<>>
  BY <1>7, <1>8, <1>11
<1>13. draft' \in Drafts /\ draft'.route # <<>>
  BY <1>2, <1>9, <1>12, DraftParts, SamplesAreTicked
<1>14. TypedAsk("SPLICE", c)
  BY <1>2, <1>9, <1>10, <1>13 DEF TypedAsk, Ask, plan
<1> QED
  BY <1>14

LEMMA PumpTyped ==
    ASSUME Pump, ~Fault, TypeInv, ScriptInv, job = "poll"
    PROVE  \/ \E kind, content : TypedAsk(kind, content)
           \/ /\ todo' = Tail(todo) /\ asked = "NONE"
              /\ UNCHANGED <<host, owned, epoch, armed, plan, streak, job, draft,
                             seen, firmware, link>>
<1> DEFINE future == After(route, Base)
           room == AtMost(MaxBatch, QueueCapacity - Len(future))
           n == AtMost(room, InWindow(pending))
           ready == Take(pending, n)
           c == [horizon |-> horizon, epoch |-> epoch, samples |-> ready]
<1>1. CASE ready = <<>>
  <2>1. /\ todo' = Tail(todo)
        /\ UNCHANGED <<host, owned, epoch, armed, plan, streak, job, draft,
                       seen, firmware, link>>
    BY <1>1 DEF Pump
  <2>2. asked = "NONE"
    BY DEF Pump, Next1, Waiting
  <2> QED
    BY <2>1, <2>2
<1>2. CASE ready # <<>>
  <2>1. /\ draft' = [route |-> future \o ready, horizon |-> horizon,
                     pending |-> Drop(pending, Len(ready))]
        /\ Ask("APPEND", c) /\ UNCHANGED epoch
    BY <1>2 DEF Pump
  <2>2. future \in Seq(SampleSet) /\ epoch \in Nat
    BY TailKnown
  <2>3. InWindow(pending) \in 0 .. Len(pending) /\ Len(pending) \in Nat
        /\ pending \in Samples /\ horizon \in Nat
    BY WindowType DEF TypeInv, PlanTyped
  <2>4. room \in Int
    <3>1. Len(future) \in Nat
      BY <2>2
    <3> HIDE DEF future
    <3> QED
      BY <3>1, FirmwareAssumption, AdapterAssumption DEF AtMost
  <2> HIDE DEF room
  <2>5. n \in Int /\ n <= Len(pending)
    BY <2>3, <2>4 DEF AtMost
  <2> HIDE DEF n, future
  <2>6. ready \in Samples /\ Len(ready) = IF 1 <= n THEN n ELSE 0
    BY <2>3, <2>5, FirstSamples
  <2>7. Len(ready) \in Nat /\ Len(ready) <= Len(pending)
    BY <2>3, <2>5, <2>6
  <2>8. Drop(pending, Len(ready)) \in Samples
    BY <2>3, <2>7, FirstSamples
  <2>9. c \in Contents /\ c.samples # <<>> /\ "APPEND" \in Kinds
    BY <1>2, <2>2, <2>3, <2>6, ContentParts DEF Kinds, StatusKinds
  <2> HIDE DEF ready, c
  <2>10. future \o ready \in Samples /\ future \o ready # <<>>
    <3>1. ready \in Seq(SampleSet) /\ ready # <<>>
      BY <1>2, <2>6, SamplesAreTicked
    <3>2. future \o ready \in Seq(SampleSet) /\ future \o ready # <<>>
      BY <2>2, <3>1
    <3> QED
      BY <3>2, SamplesAreTicked
  <2>11. draft' \in Drafts /\ draft'.route # <<>>
    BY <2>1, <2>3, <2>8, <2>10, DraftParts
  <2>12. TypedAsk("APPEND", c)
    BY <2>1, <2>9, <2>11 DEF TypedAsk, Ask, plan, TypeInv, HostTyped
  <2> QED
    BY <2>12
<1> QED
  BY <1>1, <1>2

\* A step that leaves a part alone keeps its types.
LEMMA FirmwareStays ==
    ASSUME FirmwareTyped, FlagsTyped, UNCHANGED firmware
    PROVE  FirmwareTyped' /\ FlagsTyped'
<1>1. /\ UNCHANGED <<now, silence, exec, queue, limit, streamEpoch>>
      /\ UNCHANGED <<starting, tracking, armsOn, torque, faulted, enabled, latched, anchored>>
  BY DEF firmware, stream, arms
<1>2. FirmwareTyped'
  BY <1>1 DEF FirmwareTyped
<1>3. FlagsTyped'
  BY <1>1, Zenon DEF FlagsTyped
<1> QED
  BY <1>2, <1>3

LEMMA LinkStays ==
    ASSUME LinkTyped, FullBatches, UNCHANGED link
    PROVE  LinkTyped' /\ FullBatches' /\ UNCHANGED <<up, down, asked>>
  BY DEF LinkTyped, FullBatches, link

\* A batch that is sent has samples, too.
LEMMA AskKeepsTypes ==
    ASSUME TypeInv, NEW kind, NEW content, TypedAsk(kind, content)
    PROVE  /\ LinkTyped' /\ FullBatches' /\ HostTyped' /\ PlanTyped' /\ SeenTyped'
           /\ RouteKnown'
<1> USE DEF TypeInv
<1>1. /\ kind \in Kinds /\ content \in Contents /\ Send(kind, content)
      /\ kind \in {"APPEND", "SPLICE"} => content.samples # <<>>
  BY DEF TypedAsk
<1>2. LinkTyped' /\ asked' = kind
  BY <1>1, SendView
<1>3. FullBatches'
  <2>1. /\ Len(up) \in Nat /\ Len(up') = Len(up) + 1
        /\ \A i \in 1 .. Len(up) :
              up'[i].kind = up[i].kind /\ up'[i].content = up[i].content
        /\ up'[Len(up) + 1].kind = kind /\ up'[Len(up) + 1].content = content
    BY <1>1, SendView
  <2> SUFFICES ASSUME NEW i \in 1 .. Len(up'), up'[i].kind \in {"APPEND", "SPLICE"}
               PROVE  up'[i].content.samples # <<>>
    BY DEF FullBatches
  <2>2. CASE i = Len(up) + 1
    BY <1>1, <2>1, <2>2
  <2>3. CASE i \in 1 .. Len(up)
    BY <2>1, <2>3 DEF FullBatches
  <2> QED
    BY <2>1, <2>2, <2>3
<1>4. PlanTyped'
  BY DEF TypedAsk, PlanTyped
<1>5. HostTyped'
  <2>1. UNCHANGED <<host, owned, armed, streak, job>> /\ epoch' \in 0 .. MaxEpoch
    BY DEF TypedAsk
  <2> QED
    BY <2>1, Zenon DEF HostTyped
<1>6. SeenTyped'
  <2>1. seen' = [seen EXCEPT !.base = 0] /\ 0 \in Nat
    BY DEF TypedAsk
  <2> QED
    BY <2>1, SeenParts
<1>7. RouteKnown'
  <2>1. host' = host /\ job' = job /\ todo' = todo /\ route' = route /\ asked' = kind
    BY <1>2 DEF TypedAsk
  <2>6. draft'.route # <<>> \/ (draft' = draft /\ kind \in PlainKinds)
    BY DEF TypedAsk
  <2>2. "OPEN" \notin PlainKinds /\ "APPEND" \notin PlainKinds /\ "SPLICE" \notin PlainKinds
    BY DEF PlainKinds
  <2>3. Planned' => route' # <<>>
    BY <2>1 DEF RouteKnown, Planned
  <2>4. CASE draft'.route # <<>>
    BY <2>3, <2>4 DEF RouteKnown
  <2>5. CASE draft' = draft /\ kind \in PlainKinds
    <3>1. asked' \notin {"OPEN", "APPEND", "SPLICE"}
      BY <2>1, <2>2, <2>5
    <3> QED
      BY <2>1, <2>3, <2>5, <3>1 DEF RouteKnown
  <2> QED
    BY <2>4, <2>5, <2>6
<1> QED
  BY <1>2, <1>3, <1>4, <1>5, <1>6, <1>7

\* What is left when there is no plan, or no operation.
LEMMA DoneKeepsTypes ==
    ASSUME Done, TypeInv
    PROVE  draft' \in Drafts /\ SeenTyped' /\ job' \in Jobs
<1>1. draft' \in Drafts
  BY DraftParts DEF Done
<1>2. SeenTyped'
  BY SeenParts DEF Done, TypeInv
<1>3. job' \in Jobs
  BY DEF Done, Jobs
<1> QED
  BY <1>1, <1>2, <1>3

LEMMA NoPlanIsTyped ==
    ASSUME NoPlan
    PROVE  route' \in Samples /\ horizon' \in Nat /\ pending' \in Samples
  BY ContentParts DEF NoPlan

LEMMA FaultKeepsTypes ==
    ASSUME TypeInv, Fault, asked' = "NONE"
    PROVE  HostTyped' /\ PlanTyped' /\ SeenTyped' /\ RouteKnown'
<1>1. PlanTyped'
  BY NoPlanIsTyped, DraftParts DEF Fault, PlanTyped
<1>2. SeenTyped'
  BY SeenParts DEF Fault, TypeInv
<1>3. HostTyped'
  <2>1. /\ UNCHANGED <<owned, armed, epoch, streak>>
        /\ job' \in Jobs /\ host' \in {"DEAD", "FAULTED"}
    BY DEF Fault, Jobs
  <2> QED
    BY <2>1, Zenon DEF TypeInv, HostTyped
<1>4. RouteKnown'
  <2>1. job' \in {"none", "fault"} /\ host' # "ACTIVE"
    BY DEF Fault
  <2> QED
    BY <2>1 DEF RouteKnown, Planned
<1> QED
  BY <1>1, <1>2, <1>3, <1>4

\* The operations begin without a word to the firmware.
LEMMA OperationTyped ==
    ASSUME TypeInv, ScriptInv, Operation
    PROVE  TypeInv'
<1> USE DEF TypeInv
<1>1. UNCHANGED <<firmware, link, host, armed, plan, streak, draft, seen>>
  BY DEF Operation, Prepare, RefreshUnarmedAnchor, Start, AppendPoints, SplicePoints,
         StrayClaim, Poll, Keepalive, PublishFeedback, StopStream, Begin, operation
<1>2. LinkTyped' /\ FullBatches' /\ FirmwareTyped' /\ FlagsTyped'
  BY <1>1, FirmwareStays, LinkStays
<1>3. PlanTyped' /\ SeenTyped'
  BY <1>1 DEF PlanTyped, SeenTyped, plan
<1>4. HostTyped'
  <2>1. job' \in Jobs
    BY DEF Operation, Prepare, RefreshUnarmedAnchor, Start, AppendPoints, SplicePoints,
           StrayClaim, Poll, Keepalive, PublishFeedback, StopStream, Begin, operation,
           Idle, Jobs, HostTyped
  <2>2. owned' = owned \/ owned' = TRUE
    BY DEF Operation, Prepare, RefreshUnarmedAnchor, Start, AppendPoints, SplicePoints,
           StrayClaim, Poll, Keepalive, PublishFeedback, StopStream
  <2>3. epoch' = epoch \/ (epoch' = epoch + 1 /\ epoch < MaxEpoch)
    <3>1. CASE StrayClaim
      BY <3>1 DEF StrayClaim
    <3>2. CASE StopStream
      BY <3>2 DEF StopStream
    <3>3. CASE ~StrayClaim /\ ~StopStream
      BY <3>3 DEF Operation, Prepare, RefreshUnarmedAnchor, Start, AppendPoints,
                  SplicePoints, Poll, Keepalive, PublishFeedback
    <3> QED
      BY <3>1, <3>2, <3>3
  <2>4. epoch' \in 0 .. MaxEpoch
    <3>1. epoch \in 0 .. MaxEpoch /\ MaxEpoch \in Nat
      BY AdapterAssumption DEF HostTyped
    <3> QED
      BY <2>3, <3>1
  <2>5. owned' \in BOOLEAN
    BY <2>2, Zenon DEF HostTyped
  <2> QED
    BY <1>1, <2>1, <2>4, <2>5, Zenon DEF HostTyped
<1>5. RouteKnown'
  <2>1. asked = "NONE" /\ UNCHANGED <<asked, host, route, draft>>
    <3>1. job = "none"
      BY DEF Operation, Prepare, RefreshUnarmedAnchor, Start, AppendPoints, SplicePoints,
             StrayClaim, Poll, Keepalive, PublishFeedback, StopStream, Begin, Idle
    <3> QED
      BY <1>1, <3>1, IdleWaitsNot DEF link, plan
  <2>2. job' = "start" => todo' # <<>> /\ todo' # <<"APPEND">>
    <3>1. CASE Start
      <4>1. Opening # <<>> /\ Opening # <<"APPEND">> /\ Arming # <<>> /\ Arming # <<"APPEND">>
        BY DEF Opening, Arming
      <4> QED
        BY <3>1, <4>1 DEF Start, Begin
    <3>2. CASE ~Start
      BY <3>2 DEF Operation, Prepare, RefreshUnarmedAnchor, AppendPoints, SplicePoints,
                  StrayClaim, Poll, Keepalive, PublishFeedback, StopStream, Begin, Idle,
                  operation
    <3> QED
      BY <3>1, <3>2
  <2> QED
    BY <2>1, <2>2 DEF RouteKnown, Planned
<1> QED
  BY <1>2, <1>3, <1>4, <1>5

\* An answer: what the adapter learns from it, and adopts.
LEMMA AnswerTyped ==
    ASSUME TypeInv, ScriptInv, ShapeInv, GetAnswer
    PROVE  TypeInv'
<1> USE DEF TypeInv
<1>1. PICK i \in DOMAIN down :
         /\ Receive(i)
         /\ LET answer == down[i] IN
            IF job # "fault" /\ Unhealthy(answer.says) /\ ~JudgedLater
            THEN Fault
            ELSE /\ Learn(answer.says, answer.at)
                 /\ Adopt
                 /\ todo' = Rest(answer.says)
                 /\ UNCHANGED <<host, owned, epoch, armed, streak, job>>
         /\ UNCHANGED firmware
  BY DEF GetAnswer
<1>2. /\ LinkTyped' /\ asked' = "NONE" /\ up' = up
      /\ down[i] \in Replies
  BY <1>1, ReceiveView
<1>3. FullBatches' /\ FirmwareTyped' /\ FlagsTyped'
  BY <1>1, <1>2, FirmwareStays DEF FullBatches
<1>4. CASE Fault
  BY <1>2, <1>3, <1>4, FaultKeepsTypes
<1>5. CASE ~Fault
  <2> DEFINE says == down[i].says
             at == down[i].at
  <2>1. /\ Learn(says, at) /\ Adopt /\ todo' = Rest(says)
        /\ UNCHANGED <<host, owned, epoch, armed, streak, job>>
    BY <1>1, <1>5
  <2>2. says \in Words /\ at \in Nat
    BY <1>2, ReplyParts
  <2> HIDE DEF says, at
  <2>3. SeenTyped'
    <3> DEFINE b == IF asked = "HEARTBEAT" THEN at ELSE seen.base
               h == seen.healthy /\ ~Unhealthy(says)
               e == IF asked = "EXECUTOR" THEN says ELSE seen.exec
               d == IF asked = "TRACKING" THEN says = "IDLE" ELSE seen.idle
    <3>1. seen' = [[[[seen EXCEPT !.base = b] EXCEPT !.healthy = h]
                     EXCEPT !.exec = e] EXCEPT !.idle = d]
      BY <2>1 DEF Learn, SeenTyped
    <3>2. /\ seen.base \in Nat /\ seen.exec \in Words \cup {"NONE"}
          /\ b \in Nat /\ e \in Words \cup {"NONE"}
      BY <2>2 DEF SeenTyped
    <3>3. h \in BOOLEAN
      OBVIOUS
    <3>4. seen.idle \in BOOLEAN
      BY DEF SeenTyped
    <3>5. d \in BOOLEAN
      BY <3>4
    <3> HIDE DEF b, h, e, d
    <3> QED
      BY <3>1, <3>2, <3>3, <3>5 DEF SeenTyped
  <2>4. PlanTyped'
    <3>1. CASE asked \in {"APPEND", "SPLICE"}
      <4>1. /\ route' = draft.route /\ horizon' = draft.horizon
            /\ pending' = draft.pending /\ draft' = NoDraft
        BY <2>1, <3>1 DEF Adopt
      <4> QED
        BY <4>1, DraftParts DEF PlanTyped
    <3>2. CASE asked \notin {"APPEND", "SPLICE"}
      BY <2>1, <3>2 DEF Adopt, plan, PlanTyped
    <3> QED
      BY <3>1, <3>2
  <2>5. HostTyped'
    BY <2>1, Zenon DEF HostTyped
  <2>6. RouteKnown'
    <3>1. /\ todo # <<>> /\ job # "none" /\ asked # "NONE"
          /\ Head(todo) = asked \/ (Head(todo) = "PUMP" /\ asked = "APPEND")
      BY <1>1 DEF Receive, Waiting, ScriptInv, AskedIsNext
    <3>2. job = "start" => /\ asked # "EXECUTOR" /\ Head(todo) # "PUMP"
                           /\ Head(todo) = "OPEN" <=> Tail(todo) = <<"APPEND">>
                           /\ Head(todo) = "APPEND" <=> Tail(todo) = <<>>
      <4> SUFFICES ASSUME job = "start" PROVE
                          /\ asked # "EXECUTOR" /\ Head(todo) # "PUMP"
                          /\ Head(todo) = "OPEN" <=> Tail(todo) = <<"APPEND">>
                          /\ Head(todo) = "APPEND" <=> Tail(todo) = <<>>
        OBVIOUS
      <4>1. todo \in StartScripts
        BY DEF ShapeInv, Shapes
      <4>2. Head(todo) # "PUMP" /\ Head(todo) # "EXECUTOR"
        BY <3>1, WhoseStep
      <4>3. /\ Head(todo) = "OPEN" <=> Tail(todo) = <<"APPEND">>
            /\ Head(todo) = "APPEND" <=> Tail(todo) = <<>>
        BY <3>1, <4>1, StartGoesOn
      <4> QED
        BY <3>1, <4>2, <4>3
    <3>3. job = "start" => todo' = Tail(todo)
      <4>1. todo \in Seq(Steps)
        BY DEF ScriptInv, Scripts
      <4>2. Tail(todo) \in Seq(Steps)
        BY <3>1, <4>1, TailLacks
      <4> QED
        BY <2>1, <3>2, <4>2, ConcatEmptySeq DEF Rest
    <3>4. Planned' => route' # <<>>
      <4>1. CASE asked \in {"APPEND", "SPLICE"}
        BY <2>1, <4>1 DEF Adopt, RouteKnown
      <4>2. CASE asked \notin {"APPEND", "SPLICE"}
        <5>1. route' = route
          BY <2>1, <4>2 DEF Adopt, plan
        <5>2. Planned' => Planned
          BY <2>1, <3>1, <3>2, <3>3, <4>2 DEF Planned
        <5> QED
          BY <5>1, <5>2 DEF RouteKnown
      <4> QED
        BY <4>1, <4>2
    <3>5. job' = "start" /\ todo' = <<"APPEND">> => draft'.route # <<>>
      <4> SUFFICES ASSUME job' = "start", todo' = <<"APPEND">> PROVE draft'.route # <<>>
        OBVIOUS
      <4>1. job = "start" /\ asked = "OPEN"
        BY <2>1, <3>1, <3>2, <3>3
      <4>2. draft' = draft
        BY <2>1, <4>1 DEF Adopt
      <4> QED
        BY <4>1, <4>2 DEF RouteKnown
    <3> QED
      BY <1>2, <3>4, <3>5 DEF RouteKnown
  <2> QED
    BY <1>2, <1>3, <2>3, <2>4, <2>5, <2>6
<1> QED
  BY <1>4, <1>5

\* The adapter gives up, or its operation ends.
LEMMA EndTyped ==
    ASSUME TypeInv, ScriptInv,
           TimeOut \/ PrepareEnds \/ StartEnds \/ PollEnds \/ FeedbackEnds \/ StopEnds
           \/ FaultEnds \/ OtherEnds
    PROVE  TypeInv'
<1> USE DEF TypeInv
<1>1. firmware' = firmware /\ up' = up /\ down' = down /\ asked' = "NONE"
  BY DEF TimeOut, GiveUp, PrepareEnds, StartEnds, PollEnds, FeedbackEnds, StopEnds,
         FaultEnds, OtherEnds, Ends, Waiting, link
<1>2. LinkTyped' /\ FullBatches' /\ FirmwareTyped' /\ FlagsTyped'
  BY <1>1, FirmwareStays DEF LinkTyped, FullBatches
<1>3. CASE Fault
  BY <1>1, <1>2, <1>3, FaultKeepsTypes
<1>4. CASE ~Fault
  <2>1. Done /\ owned' = owned /\ epoch' = epoch
    BY <1>4 DEF TimeOut, PrepareEnds, StartEnds, PollEnds, FeedbackEnds, StopEnds,
                FaultEnds, OtherEnds
  <2>2. draft' \in Drafts /\ SeenTyped' /\ job' \in Jobs /\ job' = "none"
    BY <2>1, DoneKeepsTypes DEF Done
  <2>3. armed' = armed \/ armed' = FALSE
    BY <1>4 DEF TimeOut, PrepareEnds, StartEnds, PollEnds, FeedbackEnds, StopEnds,
                FaultEnds, OtherEnds
  <2>4. /\ host' \in {host, "READY", "ACTIVE", "STOPPED"}
        /\ host' = "ACTIVE" => Planned /\ plan' = plan
    BY <1>4 DEF TimeOut, PrepareEnds, StartEnds, PollEnds, FeedbackEnds, StopEnds,
                FaultEnds, OtherEnds, Ends, Planned
  <2>5. plan' = plan \/ NoPlan
    BY <1>4 DEF TimeOut, PrepareEnds, StartEnds, PollEnds, FeedbackEnds, StopEnds,
                FaultEnds, OtherEnds
  <2>6. streak' \in 0 .. FailureLimit - 1
    <3>1. \/ streak' = streak \/ streak' = 0
          \/ streak' = streak + 1 /\ streak + 1 < FailureLimit
      BY <1>4 DEF TimeOut, PrepareEnds, StartEnds, PollEnds, FeedbackEnds, StopEnds,
                  FaultEnds, OtherEnds, Borne
    <3>2. streak \in 0 .. FailureLimit - 1 /\ FailureLimit \in Nat \ {0}
      BY AdapterAssumption DEF HostTyped
    <3> QED
      BY <3>1, <3>2
  <2>7. PlanTyped'
    <3>1. CASE plan' = plan
      BY <2>2, <3>1 DEF plan, PlanTyped
    <3>2. CASE NoPlan
      BY <2>2, <3>2, NoPlanIsTyped DEF PlanTyped
    <3> QED
      BY <2>5, <3>1, <3>2
  <2>8. HostTyped'
    <3>1. owned' \in BOOLEAN /\ armed' \in BOOLEAN
      BY <2>1, <2>3, Zenon DEF HostTyped
    <3>2. /\ host' \in {"NEW", "READY", "ACTIVE", "STOPPED", "FAULTED", "DEAD"}
          /\ epoch' \in 0 .. MaxEpoch
      BY <2>1, <2>4 DEF HostTyped
    <3> QED
      BY <2>2, <2>6, <3>1, <3>2, Zenon DEF HostTyped
  <2>9. RouteKnown'
    BY <1>1, <2>2, <2>4 DEF RouteKnown, Planned, plan
  <2> QED
    BY <1>2, <2>2, <2>7, <2>8, <2>9
<1> QED
  BY <1>3, <1>4

LEMMA CrashTyped ==
    ASSUME TypeInv, Crash
    PROVE  TypeInv'
<1> USE DEF TypeInv
<1>1. Done /\ NoPlan /\ firmware' = firmware /\ up' = up /\ down' = <<>> /\ asked' = "NONE"
  BY DEF Crash
<1>2. LinkTyped' /\ FullBatches' /\ FirmwareTyped' /\ FlagsTyped'
  BY <1>1, FirmwareStays DEF LinkTyped, FullBatches
<1>3. draft' \in Drafts /\ SeenTyped' /\ job' \in Jobs /\ job' = "none"
  BY <1>1, DoneKeepsTypes DEF Done
<1>4. PlanTyped'
  BY <1>1, <1>3, NoPlanIsTyped DEF PlanTyped
<1>5. HostTyped'
  <2>1. owned' = FALSE /\ armed' = FALSE /\ host' = "DEAD" /\ epoch' = 0 /\ streak' = 0
    BY DEF Crash
  <2>2. epoch' \in 0 .. MaxEpoch /\ streak' \in 0 .. FailureLimit - 1
    BY <2>1, AdapterAssumption
  <2>3. owned' \in BOOLEAN /\ armed' \in BOOLEAN
    BY <2>1
  <2> QED
    BY <1>3, <2>1, <2>2, <2>3, Zenon DEF HostTyped
<1>6. RouteKnown'
  BY <1>1, <1>3 DEF Crash, RouteKnown, Planned
<1> QED
  BY <1>2, <1>3, <1>4, <1>5, <1>6

\* The points of the first batch are claimed for, or refused.
LEMMA ClaimTyped ==
    ASSUME TypeInv, ScriptInv, ShapeInv, Claim
    PROVE  TypeInv'
<1> USE DEF TypeInv
<1>1. /\ firmware' = firmware /\ link' = link /\ host' = host /\ plan' = plan
      /\ streak' = streak /\ job # "none" /\ todo # <<>> /\ Head(todo) = "CLAIM"
  BY DEF Claim, Next1
<1>2. LinkTyped' /\ FullBatches' /\ FirmwareTyped' /\ FlagsTyped' /\ asked' = asked
  BY <1>1, FirmwareStays, LinkStays
<1>3. todo \in Seq(Steps) /\ ~Lacks(todo, "CLAIM")
  BY <1>1, TailLacks DEF ScriptInv, Scripts
<1>4. job = "start" /\ epoch < MaxEpoch /\ todo \in StartScripts
  BY <1>3 DEF ScriptInv, Scripts, ShapeInv, Claims, Shapes
<1>5. asked = "NONE"
  BY DEF Claim, Next1, Waiting
<1>6. CASE Done /\ owned' = owned /\ armed' = armed /\ epoch' = epoch
  <2>1. draft' \in Drafts /\ SeenTyped' /\ job' \in Jobs /\ job' = "none"
    BY <1>6, DoneKeepsTypes DEF Done
  <2>2. PlanTyped'
    BY <1>1, <2>1 DEF plan, PlanTyped
  <2>3. HostTyped'
    BY <1>1, <1>6, <2>1, Zenon DEF HostTyped
  <2>4. RouteKnown'
    BY <1>1, <1>2, <1>5, <2>1 DEF RouteKnown, Planned, plan
  <2> QED
    BY <1>2, <2>1, <2>2, <2>3, <2>4
<1>7. CASE /\ owned' = TRUE /\ epoch' = epoch + 1 /\ armed' = TRUE
           /\ todo' = Tail(todo) /\ UNCHANGED <<job, draft, seen>>
  <2>1. PlanTyped' /\ SeenTyped'
    BY <1>1, <1>7 DEF plan, PlanTyped, SeenTyped
  <2>2. epoch' \in 0 .. MaxEpoch
    BY <1>4, <1>7, AdapterAssumption DEF HostTyped
  <2>3. HostTyped'
    <3>1. owned' \in BOOLEAN /\ armed' \in BOOLEAN /\ job' = job
      BY <1>7
    <3> QED
      BY <1>1, <2>2, <3>1, Zenon DEF HostTyped
  <2>4. todo' # <<>> /\ todo' # <<"APPEND">>
    BY <1>1, <1>4, <1>7, StartGoesOn
  <2>5. RouteKnown'
    BY <1>1, <1>2, <1>5, <1>7, <2>4 DEF RouteKnown, Planned, plan
  <2> QED
    BY <1>2, <2>1, <2>3, <2>5
<1> QED
  BY <1>6, <1>7 DEF Claim

\* Every step of the adapter keeps the types.
LEMMA AdapterTyped ==
    ASSUME TypeInv, ScriptInv, ShapeInv, AdapterStep, UNCHANGED firmware
    PROVE  TypeInv'
<1>1. FirmwareTyped' /\ FlagsTyped'
  BY FirmwareStays DEF TypeInv
<1>2. CASE Fault /\ UNCHANGED link /\ ~Waiting
  <2>1. asked' = "NONE" /\ LinkTyped' /\ FullBatches'
    BY <1>2, LinkStays DEF TypeInv, Waiting
  <2> QED
    BY <1>1, <1>2, <2>1, FaultKeepsTypes DEF TypeInv
<1>3. CASE \E kind, content : TypedAsk(kind, content)
  BY <1>1, <1>3, AskKeepsTypes DEF TypeInv
<1>4. CASE AskPlain \/ OpenPlan \/ AskFirstBatch
  BY <1>3, <1>4, AskPlainTyped, OpenPlanTyped, AskFirstBatchTyped DEF TypeInv
<1>5. CASE AskAppend
  <2>1. ~Waiting /\ job # "none" /\ todo # <<>> /\ Head(todo) = "APPEND"
    BY <1>5 DEF AskAppend, Next1
  <2>2. job = "append"
    BY <1>5 DEF AskAppend
  <2>3. CASE Fault
    <3>1. UNCHANGED link
      BY <1>5, <2>3 DEF AskAppend, Ask, Fault, Next1
    <3> QED
      BY <1>2, <2>1, <2>3, <3>1
  <2> QED
    BY <1>3, <1>5, <2>2, <2>3, AskAppendTyped
<1>6. CASE AskSplice
  <2>1. ~Waiting /\ job # "none" /\ todo # <<>> /\ Head(todo) = "SPLICE" /\ asked = "NONE"
    BY <1>6 DEF AskSplice, Next1, Waiting
  <2>2. job = "splice" /\ epoch < MaxEpoch
    <3>1. job = "splice"
      BY <2>1, WhoseStep
    <3> QED
      BY <2>1, <3>1 DEF ShapeInv, Claims
  <2>3. CASE Fault
    <3>1. UNCHANGED link
      BY <1>6, <2>2, <2>3 DEF AskSplice, Ask, Fault, ScriptInv, HostJob
    <3> QED
      BY <1>2, <2>1, <2>3, <3>1
  <2> QED
    BY <1>3, <1>6, <2>2, <2>3, AskSpliceTyped
<1>7. CASE Pump
  <2>1. ~Waiting /\ job # "none" /\ todo # <<>> /\ Head(todo) = "PUMP"
    BY <1>7 DEF Pump, Next1
  <2>2. job = "poll"
    BY <2>1, WhoseStep
  <2>3. CASE Fault
    <3>1. UNCHANGED link
      BY <1>7, <2>2, <2>3 DEF Pump, Ask, Fault, ScriptInv, HostJob
    <3> QED
      BY <1>2, <2>1, <2>3, <3>1
  <2>4. CASE /\ todo' = Tail(todo) /\ asked = "NONE"
             /\ UNCHANGED <<host, owned, epoch, armed, plan, streak, job, draft,
                            seen, firmware, link>>
    <3>1. LinkTyped' /\ FullBatches' /\ asked' = asked
      BY <2>4, LinkStays DEF TypeInv
    <3>2. PlanTyped' /\ SeenTyped'
      BY <2>4 DEF plan, PlanTyped, SeenTyped, TypeInv
    <3>3. HostTyped'
      <4>1. /\ host' = host /\ owned' = owned /\ epoch' = epoch /\ armed' = armed
            /\ streak' = streak /\ job' = job
        BY <2>4
      <4> QED
        BY <4>1, Zenon DEF HostTyped, TypeInv
    <3>4. RouteKnown'
      BY <2>2, <2>4, <3>1 DEF RouteKnown, Planned, plan, TypeInv
    <3> QED
      BY <1>1, <3>1, <3>2, <3>3, <3>4 DEF TypeInv
  <2> QED
    BY <1>3, <1>7, <2>2, <2>3, <2>4, PumpTyped
<1> QED
  BY <1>4, <1>5, <1>6, <1>7, OperationTyped, AnswerTyped, EndTyped, CrashTyped, ClaimTyped
     DEF AdapterStep, Exchange

\* A frame is lost.
LEMMA LossTyped ==
    ASSUME TypeInv, Loss
    PROVE  TypeInv'
<1> USE DEF TypeInv
<1>1. firmware' = firmware /\ adapter' = adapter /\ asked' = asked
  BY DEF Loss, LoseRequest, LoseAnswer
<1>2. FirmwareTyped' /\ FlagsTyped'
  BY <1>1, FirmwareStays
<1>3. HostTyped' /\ PlanTyped' /\ SeenTyped' /\ RouteKnown'
  <2>1. /\ host' = host /\ owned' = owned /\ epoch' = epoch /\ armed' = armed
        /\ streak' = streak /\ job' = job /\ todo' = todo
        /\ route' = route /\ horizon' = horizon /\ pending' = pending
        /\ draft' = draft /\ seen' = seen
    BY <1>1 DEF adapter, plan, operation
  <2> QED
    BY <1>1, <2>1, ZenonT(40) DEF HostTyped, PlanTyped, SeenTyped, RouteKnown, Planned
<1>4. CASE LoseRequest
  <2>1. /\ up \in Seq(Frames) /\ up # <<>> /\ up' = Tail(up) /\ down' = down
    BY <1>4 DEF LoseRequest, LinkTyped
  <2>2. /\ up' \in Seq(Frames) /\ Len(up') = Len(up) - 1 /\ Len(up) \in Nat
        /\ \A i \in 1 .. Len(up') : up'[i] = up[i + 1]
    BY <2>1, TailOfLink
  <2>3. \A i \in 1 .. Len(up') : i + 1 \in 1 .. Len(up)
    BY <2>2
  <2>4. LinkTyped' /\ FullBatches'
    BY <1>1, <2>1, <2>2, <2>3 DEF LinkTyped, FullBatches
  <2> QED
    BY <1>2, <1>3, <2>4
<1>5. CASE LoseAnswer
  <2>1. /\ down \in Seq(Replies) /\ down # <<>> /\ down' = Tail(down) /\ up' = up
    BY <1>5 DEF LoseAnswer, LinkTyped
  <2>2. down' \in Seq(Replies)
    BY <2>1, TailOfLink
  <2>3. LinkTyped' /\ FullBatches'
    BY <1>1, <2>1, <2>2 DEF LinkTyped, FullBatches
  <2> QED
    BY <1>2, <1>3, <2>3
<1> QED
  BY <1>4, <1>5 DEF Loss

\* The firmware moves on, while the adapter does not.
LEMMA FirmwareTypes ==
    ASSUME TypeInv, (Handle \/ (Environment /\ UNCHANGED link)) /\ UNCHANGED adapter
    PROVE  TypeInv'
<1> USE DEF TypeInv
<1>1. FlagsTyped'
  BY FlagsStayTyped
<1>2. FirmwareTyped'
  BY HandleTyped, EnvironmentTyped
<1>3. asked' = asked /\ LinkTyped' /\ FullBatches'
  <2>1. CASE Handle
    <3>1. up # <<>>
      BY <2>1, HandleAnswers
    <3>2. PICK says \in Words, at \in Nat : AnswerAt(says, at)
      BY <2>1, HandleAnswers
    <3>3. /\ LinkTyped' /\ asked' = asked
          /\ Len(up) \in Nat \ {0} /\ Len(up') = Len(up) - 1
          /\ \A i \in 1 .. Len(up') : up'[i] = up[i + 1]
      BY <3>1, <3>2, AnswerView
    <3>4. \A i \in 1 .. Len(up') : i + 1 \in 1 .. Len(up)
      BY <3>3
    <3> QED
      BY <3>3, <3>4 DEF FullBatches
  <2>2. CASE UNCHANGED link
    BY <2>2, LinkStays
  <2> QED
    BY <2>1, <2>2
<1>4. HostTyped' /\ PlanTyped' /\ SeenTyped' /\ RouteKnown'
  <2>1. /\ host' = host /\ owned' = owned /\ epoch' = epoch /\ armed' = armed
        /\ streak' = streak /\ job' = job /\ todo' = todo
        /\ route' = route /\ horizon' = horizon /\ pending' = pending
        /\ draft' = draft /\ seen' = seen
    BY DEF adapter, plan, operation
  <2> QED
    BY <1>3, <2>1, ZenonT(40) DEF HostTyped, PlanTyped, SeenTyped, RouteKnown, Planned
<1> QED
  BY <1>1, <1>2, <1>3, <1>4

LEMMA NextTyped ==
    ASSUME TypeInv, ScriptInv, ShapeInv, [Next]_vars
    PROVE  TypeInv'
<1>1. CASE AdapterStep /\ UNCHANGED firmware
  BY <1>1, AdapterTyped
<1>2. CASE Handle /\ UNCHANGED adapter
  BY <1>2, FirmwareTypes
<1>3. CASE Environment /\ UNCHANGED <<link, adapter>>
  BY <1>3, FirmwareTypes
<1>4. CASE Loss /\ UNCHANGED <<firmware, adapter>>
  BY <1>4, LossTyped
<1>5. CASE UNCHANGED vars
  <2>1. /\ host' = host /\ owned' = owned /\ epoch' = epoch /\ armed' = armed
        /\ streak' = streak /\ job' = job /\ todo' = todo
        /\ route' = route /\ horizon' = horizon /\ pending' = pending
        /\ draft' = draft /\ seen' = seen /\ firmware' = firmware /\ link' = link
        /\ asked' = asked
    BY <1>5 DEF vars, adapter, plan, operation, link
  <2>2. LinkTyped' /\ FullBatches' /\ FirmwareTyped' /\ FlagsTyped'
    BY <2>1, FirmwareStays, LinkStays DEF TypeInv
  <2>3. HostTyped' /\ PlanTyped' /\ SeenTyped' /\ RouteKnown'
    BY <2>1, ZenonT(40) DEF HostTyped, PlanTyped, SeenTyped, RouteKnown, Planned, TypeInv
  <2> QED
    BY <2>2, <2>3 DEF TypeInv
<1> QED
  BY <1>1, <1>2, <1>3, <1>4, <1>5, WhoMoves

LEMMA InitTyped == Init => TypeInv
<1> SUFFICES ASSUME Init PROVE TypeInv
  OBVIOUS
<1> USE DEF Init, FirmwareInit
<1>1. LinkTyped /\ FullBatches
  BY DEF LinkTyped, FullBatches
<1>2. FirmwareTyped
  <2>1. now \in Nat /\ silence \in 0 .. Stale /\ exec \in ExecStates
    BY FirmwareAssumption DEF Stale, ExecStates
  <2>2. queue \in Samples /\ Len(queue) <= QueueCapacity
    BY FirmwareAssumption DEF Samples
  <2>3. limit \in Nat /\ streamEpoch \in Nat
    OBVIOUS
  <2> QED
    BY <2>1, <2>2, <2>3 DEF FirmwareTyped
<1>3. FlagsTyped
  <2>1. /\ starting = FALSE /\ tracking = FALSE /\ armsOn = FALSE /\ enabled = FALSE
        /\ anchored = FALSE
    OBVIOUS
  <2>2. torque \in BOOLEAN /\ faulted \in BOOLEAN /\ latched \in BOOLEAN
    OBVIOUS
  <2> HIDE DEF Init, FirmwareInit
  <2> QED
    BY <2>1, <2>2, Zenon DEF FlagsTyped
<1>4. HostTyped
  <2>1. host = "NEW" /\ owned = FALSE /\ armed = FALSE /\ epoch = 0 /\ streak = 0
    OBVIOUS
  <2>2. job \in Jobs
    BY DEF Jobs
  <2> HIDE DEF Init, FirmwareInit
  <2>3. epoch \in 0 .. MaxEpoch /\ streak \in 0 .. FailureLimit - 1
    BY <2>1, AdapterAssumption
  <2>4. owned \in BOOLEAN /\ armed \in BOOLEAN
    BY <2>1, Zenon
  <2> QED
    BY <2>1, <2>2, <2>3, <2>4, Zenon DEF HostTyped
<1>5. PlanTyped
  BY ContentParts, DraftParts DEF PlanTyped
<1>6. SeenTyped
  BY DEF SeenTyped, NothingSeen
<1>7. RouteKnown
  BY DEF RouteKnown, Planned
<1> QED
  BY <1>1, <1>2, <1>3, <1>4, <1>5, <1>6, <1>7 DEF TypeInv

LEMMA SpecTyped == Spec => []TypeInv
<1>1. Init => TypeInv
  BY InitTyped
<1>2. TypeInv /\ ScriptInv /\ ShapeInv /\ [Next]_vars => TypeInv'
  BY NextTyped
<1> QED
  BY <1>1, <1>2, SpecScripts, SpecShapes, PTL DEF Spec

\* Every variable of a session has its type: whatever is lost, late or given
\* up, no answer is taken for a word it cannot be, no epoch is claimed beyond
\* the bound, no failure is borne beyond the limit, and the queue of the
\* executor never holds more than its capacity (stream_session_v2.c, the checks
\* of APPEND and SPLICE).
THEOREM SpecTypeOK == Spec => []TypeOK
<1>1. TypeInv /\ ScriptInv => TypeOK
  BY TypeInvIsEnough
<1> QED
  BY <1>1, SpecTyped, SpecScripts, PTL

===============================================================================
