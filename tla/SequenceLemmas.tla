----------------------------- MODULE SequenceLemmas -----------------------------
(***************************************************************************)
(* What FlattenSeq of the community modules makes of a list of lists.      *)
(***************************************************************************)
EXTENDS Integers, SequencesExt, NaturalsInduction, WellFoundedInduction, SequenceTheorems, TLAPS

\* Induction over the numbers, for what is stated as a set of them.
LEMMA LeastNumber ==
  ASSUME NEW T \in SUBSET Nat, T # {}
  PROVE  \E n \in T : \A m \in T : n <= m
<1>1. IsWellFoundedOn({ss \in Nat \X Nat : ss[1] < ss[2]}, Nat)
  BY NatLessThanWellFounded DEF OpToRel
<1>2. PICK n \in T : \A m \in T : <<m, n>> \notin {ss \in Nat \X Nat : ss[1] < ss[2]}
  BY <1>1, WFMin
<1>3. \A m \in T : ~(m < n)
  BY <1>2
<1> QED
  BY <1>3

LEMMA NumberInduction ==
  ASSUME NEW T \in SUBSET Nat, 0 \in T, \A n \in T : n + 1 \in T
  PROVE  T = Nat
<1> SUFFICES ASSUME Nat \ T # {} PROVE FALSE
  OBVIOUS
<1>1. PICK n \in Nat \ T : \A m \in Nat \ T : n <= m
  BY LeastNumber
<1>2. n # 0 /\ n - 1 \in Nat
  BY <1>1
<1>3. n - 1 \in T
  BY <1>1, <1>2
<1> QED
  BY <1>1, <1>2, <1>3

\* A concatenation, first entries first.
Step(f, ss, i) == IF i = 1 THEN ss[i] ELSE f[i - 1] \o ss[i]

LEMMA FlattenExists ==
  ASSUME NEW ss, NEW n \in Nat
  PROVE  \E f : f = [i \in 1..n |-> Step(f, ss, i)]
<1> DEFINE T == {m \in Nat : \E f : f = [i \in 1..m |-> Step(f, ss, i)]}
<1>1. 0 \in T
  <2>1. 1..0 = {}
    OBVIOUS
  <2>2. <<>> = [i \in 1..0 |-> Step(<<>>, ss, i)]
    BY <2>1
  <2> QED
    BY <2>2
<1>2. ASSUME NEW m \in T PROVE m + 1 \in T
  <2>1. PICK f : f = [i \in 1..m |-> Step(f, ss, i)]
    OBVIOUS
  <2> DEFINE g == [i \in 1..(m + 1) |-> IF i = m + 1 THEN Step(f, ss, i) ELSE f[i]]
  <2>2. ASSUME NEW i \in 1..(m + 1) PROVE g[i] = Step(g, ss, i)
    <3>1. i # 1 => i - 1 \in 1..m /\ g[i - 1] = f[i - 1]
      OBVIOUS
    <3>2. Step(g, ss, i) = Step(f, ss, i)
      BY <3>1 DEF Step
    <3>3. i # m + 1 => i \in 1..m /\ f[i] = Step(f, ss, i)
      BY <2>1
    <3> QED
      BY <3>2, <3>3
  <2>3. g = [i \in 1..(m + 1) |-> Step(g, ss, i)]
    BY <2>2
  <2> HIDE DEF g
  <2>4. \E h : h = [i \in 1..(m + 1) |-> Step(h, ss, i)]
    BY <2>3
  <2> QED
    BY <2>4
<1>3. T = Nat
  BY <1>1, <1>2, NumberInduction
<1> QED
  BY <1>3

LEMMA FlattenIs ==
  ASSUME NEW ss, Len(ss) \in Nat, Len(ss) # 0
  PROVE  \E f : /\ f = [i \in 1..Len(ss) |-> Step(f, ss, i)]
                /\ FlattenSeq(ss) = f[Len(ss)]
<1> DEFINE flatten == CHOOSE f : f = [i \in 1..Len(ss) |-> Step(f, ss, i)]
<1>1. flatten = [i \in 1..Len(ss) |-> Step(flatten, ss, i)]
  BY FlattenExists
<1>2. FlattenSeq(ss) = flatten[Len(ss)]
  BY DEF FlattenSeq, Step
<1> QED
  BY <1>1, <1>2

\* Each list that is flattened has its place in the result.
LEMMA FlattenParts ==
  ASSUME NEW S, NEW ss \in Seq(Seq(S)), ss # <<>>
  PROVE  \E f \in [1..Len(ss) -> Seq(S)] :
           /\ f[1] = ss[1]
           /\ \A i \in 2..Len(ss) : f[i] = f[i - 1] \o ss[i]
           /\ FlattenSeq(ss) = f[Len(ss)]
<1>0. Len(ss) \in Nat /\ Len(ss) # 0
  OBVIOUS
<1>1. PICK f : /\ f = [i \in 1..Len(ss) |-> Step(f, ss, i)]
               /\ FlattenSeq(ss) = f[Len(ss)]
  BY <1>0, FlattenIs
<1>2. f[1] = ss[1] /\ \A i \in 2..Len(ss) : f[i] = f[i - 1] \o ss[i]
  <2>1. \A i \in 1..Len(ss) : f[i] = Step(f, ss, i)
    BY <1>1
  <2>2. 1 \in 1..Len(ss) /\ \A i \in 2..Len(ss) : i \in 1..Len(ss) /\ i # 1
    BY <1>0
  <2> QED
    BY <2>1, <2>2 DEF Step
<1> DEFINE T == {n \in Nat : n + 1 \in 1..Len(ss) => f[n + 1] \in Seq(S)}
<1>3. 0 \in T
  BY <1>0, <1>2
<1>4. ASSUME NEW n \in T PROVE n + 1 \in T
  <2> SUFFICES ASSUME n + 2 \in 1..Len(ss) PROVE f[n + 2] \in Seq(S)
    BY <1>4
  <2>1. n \in Nat /\ n + 1 \in 1..Len(ss) /\ n + 2 \in 2..Len(ss) /\ (n + 2) - 1 = n + 1
    BY <1>0, <1>4
  <2>2. f[n + 1] \in Seq(S) /\ ss[n + 2] \in Seq(S)
    BY <1>4, <2>1
  <2>3. f[n + 2] = f[n + 1] \o ss[n + 2]
    BY <1>2, <2>1
  <2> QED
    BY <2>2, <2>3
<1>5. T = Nat
  BY <1>3, <1>4, NumberInduction
<1>6. ASSUME NEW i \in 1..Len(ss) PROVE f[i] \in Seq(S)
  <2>1. i - 1 \in Nat /\ (i - 1) + 1 = i
    BY <1>0
  <2>2. i - 1 \in T
    BY <1>5, <2>1
  <2> QED
    BY <2>1, <2>2
<1>7. f \in [1..Len(ss) -> Seq(S)]
  BY <1>1, <1>6
<1> QED
  BY <1>1, <1>2, <1>7

LEMMA FlattenType ==
  ASSUME NEW S, NEW ss \in Seq(Seq(S))
  PROVE  FlattenSeq(ss) \in Seq(S)
<1>1. CASE ss = <<>>
  BY <1>1 DEF FlattenSeq
<1>2. CASE ss # <<>>
  <2>1. Len(ss) \in 1..Len(ss)
    BY <1>2
  <2>2. PICK f \in [1..Len(ss) -> Seq(S)] : FlattenSeq(ss) = f[Len(ss)]
    BY <1>2, FlattenParts
  <2> QED
    BY <2>1, <2>2
<1> QED
  BY <1>1, <1>2

LEMMA EachIn ==
  ASSUME NEW S, NEW list \in Seq(S), NEW T, \A k \in DOMAIN list : list[k] \in T
  PROVE  list \in Seq(T)
<1>1. Len(list) \in Nat /\ list = [k \in 1..Len(list) |-> list[k]] /\ DOMAIN list = 1..Len(list)
  OBVIOUS
<1> QED
  BY <1>1

LEMMA AppendAt ==
  ASSUME NEW S, NEW list \in Seq(S), NEW e \in S
  PROVE  /\ Append(list, e) \in Seq(S) /\ Len(list) \in Nat /\ DOMAIN list = 1..Len(list)
         /\ Len(Append(list, e)) = Len(list) + 1 /\ DOMAIN Append(list, e) = 1..(Len(list) + 1)
         /\ \A k \in DOMAIN list : Append(list, e)[k] = list[k]
         /\ Append(list, e)[Len(list) + 1] = e
OBVIOUS

LEMMA ConcatAt ==
  ASSUME NEW S, NEW a \in Seq(S), NEW b \in Seq(S)
  PROVE  /\ a \o b \in Seq(S) /\ Len(a \o b) = Len(a) + Len(b)
         /\ Len(a) \in Nat /\ DOMAIN a = 1..Len(a) /\ DOMAIN (a \o b) = 1..Len(a \o b)
         /\ \A i \in DOMAIN a : (a \o b)[i] = a[i]
         /\ \A i \in DOMAIN b : (a \o b)[Len(a) + i] = b[i]
<1>1. /\ a \o b \in Seq(S) /\ Len(a \o b) = Len(a) + Len(b)
      /\ Len(a) \in Nat /\ DOMAIN a = 1..Len(a) /\ DOMAIN (a \o b) = 1..Len(a \o b)
  OBVIOUS
<1>2. \A i \in DOMAIN a : (a \o b)[i] = a[i]
  OBVIOUS
<1>3. ASSUME NEW i \in DOMAIN b PROVE (a \o b)[Len(a) + i] = b[i]
  <2>1. Len(a) \in Nat /\ Len(b) \in Nat /\ i \in 1..Len(b) /\ Len(a) + i \in 1..(Len(a) + Len(b))
    OBVIOUS
  <2>2. ~(Len(a) + i <= Len(a)) /\ (Len(a) + i) - Len(a) = i
    BY <2>1
  <2> QED
    BY <2>1, <2>2
<1> QED
  BY <1>1, <1>2, <1>3

LEMMA SubSeqAt ==
  ASSUME NEW S, NEW s \in Seq(S), NEW m \in 1..(Len(s) + 1), NEW n \in (m - 1)..Len(s)
  PROVE  /\ SubSeq(s, m, n) \in Seq(S) /\ Len(SubSeq(s, m, n)) = n - m + 1
         /\ \A k \in 1..(n - m + 1) : SubSeq(s, m, n)[k] = s[m + k - 1]
OBVIOUS

LEMMA ConcatRange ==
  ASSUME NEW S, NEW a \in Seq(S), NEW b \in Seq(S)
  PROVE  Range(a \o b) = Range(a) \cup Range(b)
<1>1. /\ Len(a) \in Nat /\ Len(b) \in Nat /\ DOMAIN a = 1..Len(a) /\ DOMAIN b = 1..Len(b)
      /\ DOMAIN (a \o b) = 1..(Len(a) + Len(b))
  OBVIOUS
<1>2. \A i \in DOMAIN (a \o b) : (a \o b)[i] = IF i <= Len(a) THEN a[i] ELSE b[i - Len(a)]
  OBVIOUS
<1>3. ASSUME NEW x \in Range(a \o b) PROVE x \in Range(a) \cup Range(b)
  <2>1. PICK i \in DOMAIN (a \o b) : x = (a \o b)[i]
    BY DEF Range
  <2>2. CASE i <= Len(a)
    BY <1>1, <1>2, <2>1, <2>2 DEF Range
  <2>3. CASE ~(i <= Len(a))
    <3>1. i - Len(a) \in DOMAIN b
      BY <1>1, <2>3
    <3> QED
      BY <1>2, <2>1, <2>3, <3>1 DEF Range
  <2> QED
    BY <2>2, <2>3
<1>4. ASSUME NEW i \in DOMAIN a PROVE a[i] \in Range(a \o b)
  <2>1. i \in DOMAIN (a \o b) /\ i <= Len(a)
    BY <1>1
  <2> QED
    BY <1>2, <2>1 DEF Range
<1>5. ASSUME NEW i \in DOMAIN b PROVE b[i] \in Range(a \o b)
  <2>1. i + Len(a) \in DOMAIN (a \o b) /\ ~(i + Len(a) <= Len(a)) /\ (i + Len(a)) - Len(a) = i
    BY <1>1
  <2>2. (a \o b)[i + Len(a)] = b[i]
    BY <1>2, <2>1
  <2> QED
    BY <2>1, <2>2 DEF Range
<1> QED
  BY <1>3, <1>4, <1>5 DEF Range

\* The entries of a list are in an order.
Pairwise(list, R) == \A i, j \in DOMAIN list : i < j => <<list[i], list[j]>> \in R

LEMMA ConcatPairwise ==
  ASSUME NEW S, NEW a \in Seq(S), NEW b \in Seq(S), NEW R,
         Pairwise(a, R), Pairwise(b, R),
         \A x \in Range(a), y \in Range(b) : <<x, y>> \in R
  PROVE  Pairwise(a \o b, R)
<1>1. /\ Len(a) \in Nat /\ Len(b) \in Nat /\ DOMAIN a = 1..Len(a) /\ DOMAIN b = 1..Len(b)
      /\ DOMAIN (a \o b) = 1..(Len(a) + Len(b))
  OBVIOUS
<1>2. \A i \in DOMAIN (a \o b) : (a \o b)[i] = IF i <= Len(a) THEN a[i] ELSE b[i - Len(a)]
  OBVIOUS
<1>3. \A i \in DOMAIN (a \o b) : i <= Len(a) => i \in DOMAIN a
  BY <1>1
<1>4. \A i \in DOMAIN (a \o b) : ~(i <= Len(a)) => i - Len(a) \in DOMAIN b
  BY <1>1
<1> SUFFICES ASSUME NEW i \in DOMAIN (a \o b), NEW j \in DOMAIN (a \o b), i < j
             PROVE  <<(a \o b)[i], (a \o b)[j]>> \in R
  BY DEF Pairwise
<1>5. CASE j <= Len(a)
  <2>1. i <= Len(a)
    BY <1>1, <1>5
  <2> QED
    BY <1>2, <1>3, <1>5, <2>1 DEF Pairwise
<1>6. CASE ~(i <= Len(a))
  <2>1. ~(j <= Len(a)) /\ i - Len(a) < j - Len(a)
    BY <1>1, <1>6
  <2> QED
    BY <1>2, <1>4, <1>6, <2>1 DEF Pairwise
<1>7. CASE i <= Len(a) /\ ~(j <= Len(a))
  <2>1. (a \o b)[i] \in Range(a) /\ (a \o b)[j] \in Range(b)
    BY <1>2, <1>3, <1>4, <1>7 DEF Range
  <2> QED
    BY <2>1
<1> QED
  BY <1>5, <1>6, <1>7

\* The entries of a flattened list are those of its parts.
LEMMA FlattenRange ==
  ASSUME NEW S, NEW ss \in Seq(Seq(S))
  PROVE  Range(FlattenSeq(ss)) = UNION {Range(ss[k]) : k \in DOMAIN ss}
<1>1. CASE ss = <<>>
  BY <1>1 DEF FlattenSeq, Range
<1>2. CASE ss # <<>>
  <2>1. Len(ss) \in Nat /\ Len(ss) # 0 /\ DOMAIN ss = 1..Len(ss)
    BY <1>2
  <2>2. PICK f \in [1..Len(ss) -> Seq(S)] :
           /\ f[1] = ss[1]
           /\ \A i \in 2..Len(ss) : f[i] = f[i - 1] \o ss[i]
           /\ FlattenSeq(ss) = f[Len(ss)]
    BY <1>2, FlattenParts
  <2> DEFINE Parts(n) == UNION {Range(ss[k]) : k \in 1..n}
             T == {n \in Nat : n + 1 \in 1..Len(ss) => Range(f[n + 1]) = Parts(n + 1)}
  <2>3. 0 \in T
    <3>1. 1..(0 + 1) = {1}
      OBVIOUS
    <3>2. Parts(0 + 1) = Range(ss[1])
      BY <3>1
    <3> QED
      BY <2>2, <3>2
  <2>4. ASSUME NEW n \in T PROVE n + 1 \in T
    <3>0. n \in Nat /\ n + 1 \in Nat /\ (n + 1) + 1 = n + 2
      BY <2>4
    <3> SUFFICES ASSUME n + 2 \in 1..Len(ss) PROVE Range(f[n + 2]) = Parts(n + 2)
      <4> HIDE DEF Parts
      <4> QED
        BY <3>0
    <3>1. /\ n \in Nat /\ n + 1 \in 1..Len(ss) /\ n + 2 \in 2..Len(ss) /\ (n + 2) - 1 = n + 1
          /\ 1..(n + 2) = 1..(n + 1) \cup {n + 2}
      BY <2>1, <2>4
    <3>2. f[n + 1] \in Seq(S) /\ ss[n + 2] \in Seq(S)
      BY <2>2, <3>1
    <3>3. f[n + 2] = f[n + 1] \o ss[n + 2]
      BY <2>2, <3>1
    <3>4. Range(f[n + 2]) = Range(f[n + 1]) \cup Range(ss[n + 2])
      BY <3>2, <3>3, ConcatRange
    <3>5. Range(f[n + 1]) = Parts(n + 1)
      BY <2>4, <3>1
    <3>6. Parts(n + 2) = Parts(n + 1) \cup Range(ss[n + 2])
      BY <3>1
    <3> QED
      BY <3>4, <3>5, <3>6
  <2>5. T = Nat
    BY <2>3, <2>4, NumberInduction
  <2>6. Len(ss) - 1 \in Nat /\ (Len(ss) - 1) + 1 = Len(ss) /\ Len(ss) \in 1..Len(ss)
    BY <2>1
  <2>7. Len(ss) - 1 \in T
    BY <2>5, <2>6
  <2>8. Range(f[Len(ss)]) = Parts(Len(ss))
    BY <2>6, <2>7
  <2> QED
    BY <2>1, <2>2, <2>8
<1> QED
  BY <1>1, <1>2

\* They are in an order if those of each part are, and those of any two parts.
LEMMA FlattenPairwise ==
  ASSUME NEW S, NEW ss \in Seq(Seq(S)), NEW R,
         \A k \in DOMAIN ss : Pairwise(ss[k], R),
         \A k, l \in DOMAIN ss : k < l =>
            \A x \in Range(ss[k]), y \in Range(ss[l]) : <<x, y>> \in R
  PROVE  Pairwise(FlattenSeq(ss), R)
<1>1. CASE ss = <<>>
  BY <1>1 DEF FlattenSeq, Pairwise
<1>2. CASE ss # <<>>
  <2>1. Len(ss) \in Nat /\ Len(ss) # 0 /\ DOMAIN ss = 1..Len(ss)
    BY <1>2
  <2>2. PICK f \in [1..Len(ss) -> Seq(S)] :
           /\ f[1] = ss[1]
           /\ \A i \in 2..Len(ss) : f[i] = f[i - 1] \o ss[i]
           /\ FlattenSeq(ss) = f[Len(ss)]
    BY <1>2, FlattenParts
  <2> DEFINE Good(n) == /\ Pairwise(f[n], R)
                        /\ \A x \in Range(f[n]) : \E k \in 1..n : x \in Range(ss[k])
             T == {n \in Nat : n + 1 \in 1..Len(ss) => Good(n + 1)}
  <2>3. 0 \in T
    <3>1. 1 \in 1..Len(ss) /\ 1 \in 1..1
      BY <2>1
    <3>2. Good(1)
      BY <2>1, <2>2, <3>1
    <3> QED
      BY <3>2
  <2>4. ASSUME NEW n \in T PROVE n + 1 \in T
    <3> SUFFICES ASSUME n + 2 \in 1..Len(ss) PROVE Good(n + 2)
      BY <2>4
    <3>1. /\ n \in Nat /\ n + 1 \in 1..Len(ss) /\ n + 2 \in 2..Len(ss) /\ (n + 2) - 1 = n + 1
          /\ 1..(n + 2) = 1..(n + 1) \cup {n + 2}
      BY <2>1, <2>4
    <3>2. f[n + 1] \in Seq(S) /\ ss[n + 2] \in Seq(S)
      <4> HIDE DEF T, Good
      <4> QED
        BY <3>1
    <3>3. f[n + 2] = f[n + 1] \o ss[n + 2]
      BY <2>2, <3>1
    <3>4. Good(n + 1)
      BY <2>4, <3>1
    <3>5. \A x \in Range(f[n + 1]), y \in Range(ss[n + 2]) : <<x, y>> \in R
      <4> SUFFICES ASSUME NEW x \in Range(f[n + 1]), NEW y \in Range(ss[n + 2]) PROVE <<x, y>> \in R
        OBVIOUS
      <4>1. PICK k \in 1..(n + 1) : x \in Range(ss[k])
        BY <3>4
      <4>2. k \in DOMAIN ss /\ n + 2 \in DOMAIN ss /\ k < n + 2
        BY <2>1, <3>1
      <4> QED
        BY <4>1, <4>2
    <3>6. Pairwise(ss[n + 2], R)
      BY <2>1
    <3>7. Pairwise(f[n + 2], R)
      BY <3>2, <3>3, <3>4, <3>5, <3>6, ConcatPairwise
    <3>8. Range(f[n + 2]) = Range(f[n + 1]) \cup Range(ss[n + 2])
      BY <3>2, <3>3, ConcatRange
    <3>9. \A x \in Range(f[n + 2]) : \E k \in 1..(n + 2) : x \in Range(ss[k])
      BY <3>1, <3>4, <3>8
    <3> QED
      BY <3>7, <3>9
  <2>5. T = Nat
    BY <2>3, <2>4, NumberInduction
  <2>6. Len(ss) - 1 \in Nat /\ (Len(ss) - 1) + 1 = Len(ss) /\ Len(ss) \in 1..Len(ss)
    BY <2>1
  <2>7. Len(ss) - 1 \in T
    BY <2>5, <2>6
  <2>8. Good(Len(ss))
    BY <2>6, <2>7
  <2> QED
    BY <2>2, <2>8
<1> QED
  BY <1>1, <1>2
\* Where each list lies in the result: q gives the length of what is before it.
LaysOut(q, ss) ==
  /\ q \in [0..Len(ss) -> Nat] /\ q[0] = 0 /\ q[Len(ss)] = Len(FlattenSeq(ss))
  /\ \A k \in 1..Len(ss) : /\ q[k] = q[k - 1] + Len(ss[k])
                           /\ \A j \in 1..Len(ss[k]) : FlattenSeq(ss)[q[k - 1] + j] = ss[k][j]
  /\ \A k, l \in 0..Len(ss) : k <= l => q[k] <= q[l]

Begins(a, b) == Len(a) <= Len(b) /\ \A j \in 1..Len(a) : b[j] = a[j]

LEMMA FlattenLies ==
  ASSUME NEW S, NEW ss \in Seq(Seq(S))
  PROVE  \E q : LaysOut(q, ss)
<1>1. CASE ss = <<>>
  <2> DEFINE q == [k \in 0..Len(ss) |-> 0]
  <2>1. FlattenSeq(ss) = <<>> /\ Len(ss) = 0
    BY <1>1 DEF FlattenSeq
  <2>2. LaysOut(q, ss)
    BY <2>1 DEF LaysOut
  <2> QED
    BY <2>2
<1>2. CASE ss # <<>>
  <2> DEFINE n == Len(ss)
  <2>1. n \in Nat /\ n # 0 /\ \A k \in 1..n : ss[k] \in Seq(S)
    BY <1>2
  <2>2. PICK f \in [1..n -> Seq(S)] :
           /\ f[1] = ss[1]
           /\ \A k \in 2..n : f[k] = f[k - 1] \o ss[k]
           /\ FlattenSeq(ss) = f[n]
    BY <1>2, FlattenParts
  <2> HIDE DEF n
  <2>3. ASSUME NEW k \in Nat, k # 0, k + 1 \in 1..n
        PROVE  /\ k \in 1..n /\ Len(f[k]) \in Nat /\ Len(ss[k + 1]) \in Nat
               /\ Len(f[k + 1]) = Len(f[k]) + Len(ss[k + 1])
               /\ \A j \in 1..Len(f[k]) : f[k + 1][j] = f[k][j]
               /\ \A j \in 1..Len(ss[k + 1]) : f[k + 1][Len(f[k]) + j] = ss[k + 1][j]
    <3>1. k \in 1..n /\ k + 1 \in 2..n /\ (k + 1) - 1 = k
      BY <2>1, <2>3
    <3>2. f[k] \in Seq(S) /\ ss[k + 1] \in Seq(S) /\ f[k + 1] = f[k] \o ss[k + 1]
      <4>1. f[k + 1] = f[(k + 1) - 1] \o ss[k + 1]
        BY <2>2, <3>1
      <4>2. f[k] \in Seq(S) /\ ss[k + 1] \in Seq(S)
        BY <2>1, <2>2, <2>3, <3>1
      <4> QED
        BY <3>1, <4>1, <4>2
    <3>3. /\ Len(f[k]) \in Nat /\ Len(ss[k + 1]) \in Nat
          /\ DOMAIN f[k] = 1..Len(f[k]) /\ DOMAIN ss[k + 1] = 1..Len(ss[k + 1])
      BY <3>2
    <3> QED
      BY <3>1, <3>2, <3>3, ConcatAt
  <2> DEFINE T == {d \in Nat : \A k \in 1..n : k + d \in 1..n => Begins(f[k], f[k + d])}
  <2>4. T = Nat
    <3>1. 0 \in T
      <4>1. \A k \in 1..n : k + 0 = k /\ Begins(f[k], f[k])
        BY <2>2 DEF Begins
      <4> QED
        BY <4>1
    <3>2. ASSUME NEW d \in T PROVE d + 1 \in T
      <4>1. ASSUME NEW k \in 1..n, k + (d + 1) \in 1..n PROVE Begins(f[k], f[k + (d + 1)])
        <5> DEFINE m == k + d
        <5>1. m \in Nat /\ m # 0 /\ k + (d + 1) = m + 1 /\ m + 1 \in 1..n
          BY <2>1, <4>1
        <5>2. m \in 1..n
          BY <2>3, <5>1
        <5>3. Begins(f[k], f[m])
          BY <3>2, <5>2
        <5> HIDE DEF m
        <5>4. /\ Len(f[k]) \in Nat /\ Len(f[m]) \in Nat /\ Len(f[m + 1]) \in Nat
              /\ Len(f[m]) <= Len(f[m + 1]) /\ \A j \in 1..Len(f[m]) : f[m + 1][j] = f[m][j]
          <6>1. /\ m \in 1..n /\ Len(f[m]) \in Nat /\ Len(ss[m + 1]) \in Nat
                /\ Len(f[m + 1]) = Len(f[m]) + Len(ss[m + 1])
                /\ \A j \in 1..Len(f[m]) : f[m + 1][j] = f[m][j]
            BY <2>3, <5>1
          <6>2. Len(f[k]) \in Nat
            BY <2>2
          <6> QED
            BY <6>1, <6>2
        <5>5. Begins(f[k], f[m + 1])
          BY <5>3, <5>4 DEF Begins
        <5> QED
          BY <5>1, <5>5
      <4> QED
        BY <4>1, <3>2
    <3>3. T \subseteq Nat
      OBVIOUS
    <3> HIDE DEF T
    <3> QED
      BY <3>1, <3>2, <3>3, NumberInduction
  <2>5. ASSUME NEW k \in 1..n, NEW l \in 1..n, k <= l PROVE Begins(f[k], f[l])
    <3>1. l - k \in Nat /\ k + (l - k) = l
      BY <2>1, <2>5
    <3>2. l - k \in T
      BY <2>4, <3>1
    <3> QED
      BY <3>1, <3>2
  <2> HIDE DEF T
  <2> DEFINE q == [k \in 0..n |-> IF k = 0 THEN 0 ELSE Len(f[k])]
  <2>6. /\ q[0] = 0 /\ \A k \in 1..n : q[k] = Len(f[k]) /\ Len(f[k]) \in Nat
        /\ DOMAIN q = 0..n /\ q = [k \in DOMAIN q |-> q[k]]
    <3>1. \A k \in 1..n : k \in 0..n /\ k # 0 /\ Len(f[k]) \in Nat
      BY <2>1, <2>2
    <3>2. 0 \in 0..n
      BY <2>1
    <3> QED
      BY <3>1, <3>2
  <2> HIDE DEF q
  <2>7. q \in [0..n -> Nat] /\ q[n] = Len(FlattenSeq(ss))
    <3>1. \A k \in 0..n : k = 0 \/ k \in 1..n
      BY <2>1
    <3>2. \A k \in 0..n : q[k] \in Nat
      BY <2>6, <3>1
    <3>3. n \in 1..n
      BY <2>1
    <3> QED
      BY <2>2, <2>6, <3>2, <3>3
  <2>8. ASSUME NEW k \in 1..n
        PROVE  /\ q[k] = q[k - 1] + Len(ss[k])
               /\ \A j \in 1..Len(ss[k]) : FlattenSeq(ss)[q[k - 1] + j] = ss[k][j]
    <3>0. Begins(f[k], f[n])
      BY <2>1, <2>5
    <3>1. CASE k = 1
      <4>1. f[k] = ss[k] /\ q[k - 1] = 0 /\ q[k] = Len(ss[k]) /\ Len(ss[k]) \in Nat
        BY <2>1, <2>2, <2>6, <3>1
      <4>2. \A j \in 1..Len(ss[k]) : 0 + j = j /\ f[n][j] = ss[k][j]
        BY <3>0, <4>1 DEF Begins
      <4> QED
        BY <2>2, <4>1, <4>2
    <3>2. CASE k # 1
      <4> DEFINE m == k - 1
      <4>0. m \in Nat /\ m # 0 /\ m + 1 = k /\ m + 1 \in 1..n
        BY <2>1, <3>2
      <4> HIDE DEF m
      <4>1. /\ m \in 1..n /\ Len(f[m]) \in Nat /\ Len(ss[k]) \in Nat
            /\ Len(f[k]) = Len(f[m]) + Len(ss[k])
            /\ \A j \in 1..Len(ss[k]) : f[k][Len(f[m]) + j] = ss[k][j]
        BY <2>3, <4>0
      <4>2. q[k] = q[m] + Len(ss[k]) /\ q[m] = Len(f[m])
        BY <2>6, <4>1
      <4>3. ASSUME NEW j \in 1..Len(ss[k]) PROVE f[n][Len(f[m]) + j] = ss[k][j]
        <5>1. Len(f[m]) + j \in 1..Len(f[k])
          BY <4>1
        <5>2. f[n][Len(f[m]) + j] = f[k][Len(f[m]) + j]
          BY <3>0, <5>1 DEF Begins
        <5> QED
          BY <4>1, <5>2
      <4>4. k - 1 = m
        BY DEF m
      <4> QED
        BY <2>2, <4>2, <4>3, <4>4
    <3> QED
      BY <3>1, <3>2
  <2>9. ASSUME NEW k \in 0..n, NEW l \in 0..n, k <= l PROVE q[k] <= q[l]
    <3>1. CASE k = 0
      BY <2>6, <2>7, <3>1
    <3>2. CASE k # 0
      <4>1. k \in 1..n /\ l \in 1..n
        BY <2>1, <2>9, <3>2
      <4>2. Begins(f[k], f[l])
        BY <2>5, <2>9, <4>1
      <4> QED
        BY <2>6, <4>1, <4>2 DEF Begins
    <3> QED
      BY <3>1, <3>2
  <2>10. LaysOut(q, ss)
    BY <2>6, <2>7, <2>8, <2>9 DEF LaysOut, n
  <2> QED
    BY <2>10
<1> QED
  BY <1>1, <1>2
\* A list that is longer by a list, at its end or before it.
LEMMA FlattenLast ==
  ASSUME NEW S, NEW ss \in Seq(Seq(S)), NEW s \in Seq(S)
  PROVE  FlattenSeq(Append(ss, s)) = FlattenSeq(ss) \o s
<1> DEFINE n == Len(ss)
           tt == Append(ss, s)
<1>0. n \in Nat /\ tt \in Seq(Seq(S)) /\ Len(tt) = n + 1 /\ tt # <<>> /\ (n = 0 <=> ss = <<>>)
      /\ tt[n + 1] = s /\ \A k \in 1..n : tt[k] = ss[k] /\ ss[k] \in Seq(S)
  <2>1. /\ tt \in Seq(Seq(S)) /\ n \in Nat /\ DOMAIN ss = 1..n /\ Len(tt) = n + 1
        /\ \A k \in DOMAIN ss : tt[k] = ss[k]
        /\ tt[n + 1] = s
    BY AppendAt
  <2>2. (n = 0 <=> ss = <<>>) /\ \A k \in DOMAIN ss : ss[k] \in Seq(S)
    OBVIOUS
  <2>3. tt # <<>>
    <3> HIDE DEF tt
    <3> QED
      BY <2>1
  <2> QED
    BY <2>1, <2>2, <2>3
<1> HIDE DEF tt, n
<1>g. PICK g \in [1..Len(tt) -> Seq(S)] :
        /\ g[1] = tt[1]
        /\ \A i \in 2..Len(tt) : g[i] = g[i - 1] \o tt[i]
        /\ FlattenSeq(tt) = g[Len(tt)]
  BY <1>0, FlattenParts
<1>1. /\ g[1] = tt[1]
      /\ \A i \in 2..(n + 1) : g[i] = g[i - 1] \o tt[i]
      /\ FlattenSeq(tt) = g[n + 1]
  BY <1>0, <1>g
<1>2. CASE n = 0
  <2>1. FlattenSeq(tt) = s /\ ss = <<>>
    BY <1>0, <1>1, <1>2
  <2>2. FlattenSeq(<<>>) = <<>>
    BY DEF FlattenSeq
  <2>3. <<>> \o s = s
    OBVIOUS
  <2> QED
    BY <2>1, <2>2, <2>3 DEF tt
<1>3. CASE n # 0
  <2>1. PICK f \in [1..n -> Seq(S)] :
          /\ f[1] = ss[1]
          /\ \A i \in 2..n : f[i] = f[i - 1] \o ss[i]
          /\ FlattenSeq(ss) = f[n]
    BY <1>0, <1>3, FlattenParts DEF n
  <2> DEFINE T == {k \in Nat : k + 1 \in 1..n => f[k + 1] = g[k + 1]}
  <2>2. 0 \in T
    <3>1. f[1] = g[1]
      BY <1>0, <1>1, <1>3, <2>1
    <3> QED
      BY <3>1
  <2>3. ASSUME NEW k \in T PROVE k + 1 \in T
    <3>0. k \in Nat
      OBVIOUS
    <3> SUFFICES ASSUME (k + 1) + 1 \in 1..n PROVE f[(k + 1) + 1] = g[(k + 1) + 1]
      BY <3>0
    <3> DEFINE i == (k + 1) + 1
    <3>1. i \in 2..n /\ i \in 2..(n + 1) /\ i - 1 = k + 1 /\ k + 1 \in 1..n /\ i \in 1..n
      BY <1>0, <3>0
    <3>2. f[k + 1] = g[k + 1]
      BY <2>3, <3>1
    <3> HIDE DEF i
    <3>3. f[i] = f[k + 1] \o ss[i] /\ g[i] = g[k + 1] \o tt[i] /\ tt[i] = ss[i]
      BY <1>0, <1>1, <2>1, <3>1
    <3> QED
      BY <3>2, <3>3 DEF i
  <2>4. T = Nat
    <3>1. T \subseteq Nat
      OBVIOUS
    <3> HIDE DEF T
    <3> QED
      BY <2>2, <2>3, <3>1, NumberInduction
  <2>5. f[n] = g[n]
    <3>1. n - 1 \in Nat /\ (n - 1) + 1 = n /\ n \in 1..n
      BY <1>0, <1>3
    <3>2. n - 1 \in T
      BY <2>4, <3>1
    <3> QED
      BY <3>1, <3>2
  <2>6. g[n + 1] = g[n] \o tt[n + 1]
    <3>1. n + 1 \in 2..(n + 1) /\ (n + 1) - 1 = n
      BY <1>0, <1>3
    <3> QED
      BY <1>1, <3>1
  <2> QED
    BY <1>0, <1>1, <2>1, <2>5, <2>6 DEF tt
<1> QED
  BY <1>2, <1>3

LEMMA FlattenFirst ==
  ASSUME NEW S, NEW s \in Seq(S), NEW ss \in Seq(Seq(S))
  PROVE  FlattenSeq(<<s>> \o ss) = s \o FlattenSeq(ss)
<1> DEFINE n == Len(ss)
           one == <<s>>
           tt == one \o ss
<1>0. n \in Nat /\ tt \in Seq(Seq(S)) /\ Len(tt) = n + 1 /\ tt # <<>> /\ (n = 0 <=> ss = <<>>)
      /\ tt[1] = s /\ \A k \in 1..n : tt[1 + k] = ss[k] /\ ss[k] \in Seq(S)
  <2>1. one \in Seq(Seq(S)) /\ Len(one) = 1 /\ one[1] = s /\ DOMAIN one = 1..1
    OBVIOUS
  <2> HIDE DEF one, n
  <2>2. /\ tt \in Seq(Seq(S)) /\ Len(tt) = 1 + n
        /\ \A k \in DOMAIN one : tt[k] = one[k]
        /\ \A k \in DOMAIN ss : tt[1 + k] = ss[k]
    <3>1. /\ one \o ss \in Seq(Seq(S)) /\ Len(one \o ss) = Len(one) + Len(ss)
          /\ \A k \in DOMAIN one : (one \o ss)[k] = one[k]
          /\ \A k \in DOMAIN ss : (one \o ss)[Len(one) + k] = ss[k]
      <4> DEFINE R == Seq(S)
      <4>1. one \in Seq(R) /\ ss \in Seq(R)
        BY <2>1
      <4> HIDE DEF R
      <4>2. one \o ss \in Seq(R)
        BY <4>1, ConcatAt
      <4>3. /\ Len(one \o ss) = Len(one) + Len(ss)
            /\ \A k \in DOMAIN one : (one \o ss)[k] = one[k]
            /\ \A k \in DOMAIN ss : (one \o ss)[Len(one) + k] = ss[k]
        BY <4>1, ConcatAt
      <4> QED
        BY <4>2, <4>3 DEF R
    <3> QED
      BY <2>1, <3>1 DEF n
  <2>3. n \in Nat /\ DOMAIN ss = 1..n /\ (n = 0 <=> ss = <<>>) /\ \A k \in DOMAIN ss : ss[k] \in Seq(S)
    BY DEF n
  <2>4. tt # <<>>
    <3> HIDE DEF tt
    <3> QED
      BY <2>2, <2>3
  <2>5. 1 \in DOMAIN one
    BY <2>1
  <2> HIDE DEF tt
  <2>6. tt[1] = s /\ Len(tt) = n + 1
    BY <2>1, <2>2, <2>3, <2>5
  <2> QED
    BY <2>2, <2>3, <2>4, <2>6
<1> HIDE DEF tt, n
<1>g. PICK g \in [1..Len(tt) -> Seq(S)] :
        /\ g[1] = tt[1]
        /\ \A i \in 2..Len(tt) : g[i] = g[i - 1] \o tt[i]
        /\ FlattenSeq(tt) = g[Len(tt)]
  BY <1>0, FlattenParts
<1>1. /\ g[1] = tt[1]
      /\ \A i \in 2..(n + 1) : g[i] = g[i - 1] \o tt[i]
      /\ FlattenSeq(tt) = g[n + 1]
  BY <1>0, <1>g
<1>2. CASE n = 0
  <2>1. FlattenSeq(tt) = s /\ ss = <<>>
    BY <1>0, <1>1, <1>2
  <2>2. FlattenSeq(<<>>) = <<>>
    BY DEF FlattenSeq
  <2>3. s \o <<>> = s
    OBVIOUS
  <2> QED
    BY <2>1, <2>2, <2>3 DEF tt
<1>3. CASE n # 0
  <2>1. PICK f \in [1..n -> Seq(S)] :
          /\ f[1] = ss[1]
          /\ \A i \in 2..n : f[i] = f[i - 1] \o ss[i]
          /\ FlattenSeq(ss) = f[n]
    BY <1>0, <1>3, FlattenParts DEF n
  <2> DEFINE T == {k \in Nat : k + 1 \in 1..n => g[k + 2] = s \o f[k + 1]}
  <2>2. 0 \in T
    <3>1. 2 \in 2..(n + 1) /\ 2 - 1 = 1 /\ 1 \in 1..n /\ 1 + 1 = 2
      BY <1>0, <1>3
    <3>2. g[2] = s \o ss[1]
      BY <1>0, <1>1, <3>1
    <3>3. g[0 + 2] = s \o f[0 + 1]
      <4>1. 0 + 1 = 1 /\ 0 + 2 = 2
        OBVIOUS
      <4>2. f[1] = ss[1]
        BY <2>1
      <4> QED
        BY <3>2, <4>1, <4>2, Zenon
    <3> QED
      BY <3>3
  <2>3. ASSUME NEW k \in T PROVE k + 1 \in T
    <3>0. k \in Nat
      OBVIOUS
    <3> SUFFICES ASSUME (k + 1) + 1 \in 1..n PROVE g[(k + 1) + 2] = s \o f[(k + 1) + 1]
      BY <3>0
    <3> DEFINE i == k + 2
    <3>1. /\ i \in 2..n /\ i - 1 = k + 1 /\ k + 1 \in 1..n /\ i \in 1..n /\ (k + 1) + 1 = i
          /\ (k + 1) + 2 = i + 1 /\ i + 1 \in 2..(n + 1) /\ (i + 1) - 1 = i /\ 1 + i = i + 1
      BY <1>0, <3>0
    <3>2. g[i] = s \o f[k + 1]
      BY <2>3, <3>1
    <3> HIDE DEF i
    <3>3. f[i] = f[k + 1] \o ss[i] /\ g[i + 1] = g[i] \o ss[i]
      BY <1>0, <1>1, <2>1, <3>1
    <3>4. f[k + 1] \in Seq(S) /\ ss[i] \in Seq(S)
      BY <1>0, <2>1, <3>1
    <3> DEFINE a == f[k + 1]
               b == ss[i]
    <3> HIDE DEF a, b
    <3>5. (s \o a) \o b = s \o (a \o b)
      <4>1. a \in Seq(S) /\ b \in Seq(S)
        BY <3>4 DEF a, b
      <4> QED
        BY <4>1, ConcatAssociative, SMTT(30)
    <3> QED
      BY <3>1, <3>2, <3>3, <3>5 DEF a, b
  <2>4. T = Nat
    <3>1. T \subseteq Nat
      OBVIOUS
    <3> HIDE DEF T
    <3> QED
      BY <2>2, <2>3, <3>1, NumberInduction
  <2>5. g[n + 1] = s \o f[n]
    <3>1. n - 1 \in Nat /\ (n - 1) + 1 = n /\ n \in 1..n /\ (n - 1) + 2 = n + 1
      BY <1>0, <1>3
    <3>2. n - 1 \in T
      BY <2>4, <3>1
    <3> QED
      BY <3>1, <3>2
  <2> QED
    BY <1>1, <2>1, <2>5 DEF tt
<1> QED
  BY <1>2, <1>3

LEMMA FlattenOneMore ==
  ASSUME NEW S, NEW n \in Nat, NEW ss \in Seq(Seq(S)), Len(ss) = n,
         NEW tt \in Seq(Seq(S)), Len(tt) = n + 1, \A j \in 1..n : tt[j] = ss[j]
  PROVE  FlattenSeq(tt) = FlattenSeq(ss) \o tt[n + 1] /\ tt[n + 1] \in Seq(S) /\ FlattenSeq(ss) \in Seq(S)
<1> DEFINE R == Seq(S)
           s == tt[n + 1]
<1>1. n + 1 \in 1..Len(tt) /\ s \in R
  OBVIOUS
<1>2. FlattenSeq(ss) \in R
  BY FlattenType
<1> HIDE DEF R, s
<1>3. ss \in Seq(R) /\ tt \in Seq(R)
  BY DEF R
<1>4. /\ Append(ss, s) \in Seq(R) /\ Len(Append(ss, s)) = n + 1 /\ DOMAIN ss = 1..n
      /\ \A k \in DOMAIN ss : Append(ss, s)[k] = ss[k]
      /\ Append(ss, s)[n + 1] = s
  BY <1>1, <1>3, AppendAt
<1>5. \A j \in 1..(n + 1) : j \in 1..n \/ j = n + 1
  OBVIOUS
<1>6. \A j \in 1..Len(tt) : tt[j] = Append(ss, s)[j]
  BY <1>4, <1>5 DEF s
<1>7. tt = Append(ss, s)
  BY <1>3, <1>4, <1>6, SeqEqual
<1>8. FlattenSeq(Append(ss, s)) = FlattenSeq(ss) \o s
  BY <1>1, <1>3, FlattenLast DEF R
<1> QED
  BY <1>1, <1>2, <1>7, <1>8 DEF s, R
================================================================================
