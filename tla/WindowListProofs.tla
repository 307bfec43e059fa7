-------------------------- MODULE WindowListProofs --------------------------
(***************************************************************************)
(* For any set of windows: no window is twice in the list, nor both in it  *)
(* and in the container that is away.  Every behaviour of the tiling tree  *)
(* is one of the list, so no command shows a window twice.                 *)
(***************************************************************************)
EXTENDS WindowList, FiniteSetTheorems, SequenceTheorems, TLAPS

TypeOK == order \in Seq(Windows) /\ away \in Seq(Windows)

Distinct(s) == \A j, k \in 1..Len(s) : s[j] = s[k] => j = k
Apart(s, t) == \A j \in 1..Len(s), k \in 1..Len(t) : s[j] # t[k]

\* Every window is in one place at most: the tree keeps a window in one leaf,
\* and a detached container does not leave its windows behind.
EachOnce == Distinct(order) /\ Distinct(away) /\ Apart(order, away)

-----------------------------------------------------------------------------
\* What is left of a list without its i-th element.
LEMMA RemoveAtFacts ==
  ASSUME NEW S, NEW s \in Seq(S), NEW i \in 1..Len(s)
  PROVE  /\ Len(RemoveAt(s, i)) = Len(s) - 1
         /\ \A k \in 1..(Len(s) - 1) : RemoveAt(s, i)[k] = IF k < i THEN s[k] ELSE s[k + 1]
<1> DEFINE l == SubSeq(s, 1, i - 1)
           r == SubSeq(s, i + 1, Len(s))
<1>1. /\ Len(s) \in Nat
      /\ \A k \in 1..Len(s) : s[k] \in S
  BY LenProperties, ElementOfSeq
<1>2. /\ l \in Seq(S)
      /\ Len(l) = i - 1
      /\ \A k \in 1..(i - 1) : l[k] = s[k]
  <2>1. \A k \in 1..(i - 1) : s[k] \in S
    BY <1>1
  <2>2. /\ l \in Seq(S)
        /\ Len(l) = IF 1 <= i - 1 THEN i - 1 - 1 + 1 ELSE 0
        /\ \A k \in 1..(i - 1 - 1 + 1) : l[k] = s[1 + k - 1]
    BY <1>1, <2>1, SubSeqProperties
  <2> QED BY <1>1, <2>2
<1>3. /\ r \in Seq(S)
      /\ Len(r) = Len(s) - i
      /\ \A k \in 1..(Len(s) - i) : r[k] = s[i + k]
  <2>1. \A k \in (i + 1)..Len(s) : s[k] \in S
    BY <1>1
  <2>2. /\ r \in Seq(S)
        /\ Len(r) = IF i + 1 <= Len(s) THEN Len(s) - (i + 1) + 1 ELSE 0
        /\ \A k \in 1..(Len(s) - (i + 1) + 1) : r[k] = s[i + 1 + k - 1]
    BY <1>1, <2>1, SubSeqProperties
  <2> QED BY <1>1, <2>2
<1>4. /\ Len(l \o r) = Len(l) + Len(r)
      /\ \A k \in 1..(Len(l) + Len(r)) :
           (l \o r)[k] = IF k <= Len(l) THEN l[k] ELSE r[k - Len(l)]
  BY <1>2, <1>3, ConcatProperties
<1>5. RemoveAt(s, i) = l \o r
  BY DEF RemoveAt
<1> HIDE DEF l, r
<1>6. ASSUME NEW k \in 1..(Len(s) - 1)
      PROVE  (l \o r)[k] = IF k < i THEN s[k] ELSE s[k + 1]
  <2>1. CASE k < i
    BY <1>1, <1>2, <1>3, <1>4, <2>1
  <2>2. CASE ~(k < i)
    <3>1. PICK n : n = k - (i - 1)
      OBVIOUS
    <3>2. n \in 1..(Len(s) - i) /\ i + n = k + 1 /\ k - Len(l) = n
      BY <1>1, <1>2, <2>2, <3>1
    <3>3. (l \o r)[k] = r[k - Len(l)]
      BY <1>1, <1>2, <1>3, <1>4, <2>2
    <3>4. r[n] = s[i + n]
      BY <1>3, <3>2
    <3> QED BY <2>2, <3>2, <3>3, <3>4
  <2> QED BY <2>1, <2>2
<1> QED BY <1>1, <1>2, <1>3, <1>4, <1>5, <1>6

\* Where the elements of two lists are when the second is put in after the i-th
\* element of the first.
Placed(b, t, a, i) ==
  /\ Len(b) = Len(t) + Len(a)
  /\ \A k \in 1..i : b[k] = t[k]
  /\ \A k \in 1..Len(a) : b[i + k] = a[k]
  /\ \A k \in (i + 1)..Len(t) : b[Len(a) + k] = t[k]

LEMMA HoldsFacts ==
  ASSUME NEW S, NEW t \in Seq(S), NEW a \in Seq(S), NEW b \in Seq(S), Holds(b, t, a)
  PROVE  \E i \in 0..Len(t) : Placed(b, t, a, i)
<1>1. /\ Len(t) \in Nat /\ Len(a) \in Nat
      /\ \A k \in 1..Len(t) : t[k] \in S
  BY LenProperties, ElementOfSeq
<1>2. PICK i \in 0..Len(t) : b = SubSeq(t, 1, i) \o a \o SubSeq(t, i + 1, Len(t))
  BY DEF Holds
<1> DEFINE l == SubSeq(t, 1, i)
           r == SubSeq(t, i + 1, Len(t))
<1>3. /\ l \in Seq(S)
      /\ Len(l) = i
      /\ \A k \in 1..i : l[k] = t[k]
  <2>1. \A k \in 1..i : t[k] \in S
    BY <1>1
  <2>2. /\ l \in Seq(S)
        /\ Len(l) = IF 1 <= i THEN i - 1 + 1 ELSE 0
        /\ \A k \in 1..(i - 1 + 1) : l[k] = t[1 + k - 1]
    BY <1>1, <2>1, SubSeqProperties
  <2> QED BY <1>1, <2>2
<1>4. /\ r \in Seq(S)
      /\ Len(r) = Len(t) - i
      /\ \A k \in 1..(Len(t) - i) : r[k] = t[i + k]
  <2>1. \A k \in (i + 1)..Len(t) : t[k] \in S
    BY <1>1
  <2>2. /\ r \in Seq(S)
        /\ Len(r) = IF i + 1 <= Len(t) THEN Len(t) - (i + 1) + 1 ELSE 0
        /\ \A k \in 1..(Len(t) - (i + 1) + 1) : r[k] = t[i + 1 + k - 1]
    BY <1>1, <2>1, SubSeqProperties
  <2> QED BY <1>1, <2>2
<1> DEFINE c == l \o a
<1>5. b = c \o r
  BY <1>2
<1> HIDE DEF l, r
<1>6. /\ c \in Seq(S)
      /\ Len(c) = i + Len(a)
      /\ \A k \in 1..(i + Len(a)) : c[k] = IF k <= i THEN l[k] ELSE a[k - i]
  BY <1>3, ConcatProperties
<1> HIDE DEF c
<1>7. /\ Len(b) = Len(c) + Len(r)
      /\ \A k \in 1..(Len(c) + Len(r)) : b[k] = IF k <= Len(c) THEN c[k] ELSE r[k - Len(c)]
  BY <1>4, <1>5, <1>6, ConcatProperties
<1>8. Len(b) = Len(t) + Len(a)
  BY DEF Holds
<1>9. ASSUME NEW k \in 1..i PROVE b[k] = t[k]
  <2>1. k \in 1..(Len(c) + Len(r)) /\ k <= Len(c) /\ k \in 1..(i + Len(a))
    BY <1>1, <1>4, <1>6
  <2> QED BY <1>3, <1>6, <1>7, <2>1
<1>10. ASSUME NEW k \in 1..Len(a) PROVE b[i + k] = a[k]
  <2>1. PICK n : n = i + k
    OBVIOUS
  <2>2. /\ n \in 1..(Len(c) + Len(r)) /\ n <= Len(c)
        /\ n \in 1..(i + Len(a)) /\ ~(n <= i) /\ n - i = k
    BY <1>1, <1>4, <1>6, <2>1
  <2>3. b[n] = c[n]
    BY <1>7, <2>2
  <2>4. c[n] = a[n - i]
    BY <1>6, <2>2
  <2> QED BY <2>1, <2>2, <2>3, <2>4
<1>11. ASSUME NEW k \in (i + 1)..Len(t) PROVE b[Len(a) + k] = t[k]
  <2>1. PICK n, m : n = Len(a) + k /\ m = k - i
    OBVIOUS
  <2>2. n \in 1..(Len(c) + Len(r)) /\ ~(n <= Len(c)) /\ n - Len(c) = m
    BY <1>1, <1>4, <1>6, <2>1
  <2>3. m \in 1..(Len(t) - i) /\ i + m = k
    BY <1>1, <2>1
  <2>4. b[n] = r[n - Len(c)]
    BY <1>7, <2>2
  <2>5. r[m] = t[i + m]
    BY <1>4, <2>3
  <2> QED BY <2>1, <2>2, <2>3, <2>4, <2>5
<1>12. Placed(b, t, a, i)
  BY <1>8, <1>9, <1>10, <1>11 DEF Placed
<1> QED BY <1>12

\* As many windows, and the same ones, are distinct if they were before.
LEMMA PermutesDistinct ==
  ASSUME NEW S, NEW s \in Seq(S), NEW t \in Seq(S), Permutes(s, t), Distinct(s)
  PROVE  Distinct(t)
<1> DEFINE n == Len(s)
           R == ToSet(s)
<1>1. /\ n \in Nat /\ Len(t) = n
      /\ DOMAIN s = 1..n /\ DOMAIN t = 1..n
      /\ s \in [1..n -> S] /\ t \in [1..n -> S]
  BY LenProperties DEF Permutes
<1>2. /\ R = {s[k] : k \in 1..n}
      /\ R = {t[k] : k \in 1..n}
  BY <1>1 DEF Permutes, ToSet
<1> HIDE DEF n, R
<1>3. s \in [1..n -> R] /\ t \in [1..n -> R]
  BY <1>1, <1>2
<1>4. s \in Bijection(1..n, R)
  <2>1. \A j, k \in 1..n : s[j] = s[k] => j = k
    BY DEF Distinct, n
  <2>2. \A w \in R : \E k \in 1..n : s[k] = w
    BY <1>2
  <2> QED BY <1>1, <1>3, <2>1, <2>2 DEF Bijection, Injection, Surjection, IsInjective
<1>5. t \in Surjection(1..n, R)
  <2>1. \A w \in R : \E k \in 1..n : t[k] = w
    BY <1>2
  <2> QED BY <1>3, <2>1 DEF Surjection
<1>6. IsFiniteSet(1..n)
  BY <1>1, FS_Interval
<1>7. Cardinality(R) = Cardinality(1..n)
  BY <1>4, <1>6, FS_Bijection DEF ExistsBijection
<1>8. t \in Injection(1..n, R)
  BY <1>5, <1>6, <1>7, FS_SurjSameCardinalityImpliesInj
<1> QED BY <1>1, <1>8 DEF Distinct, Injection, IsInjective

\* The list b is t and a shuffled: p and q say where their elements went.
Shuffle(b, t, a, p, q) ==
  /\ \A k \in 1..Len(t) : p[k] \in 1..Len(b) /\ b[p[k]] = t[k]
  /\ \A k \in 1..Len(a) : q[k] \in 1..Len(b) /\ b[q[k]] = a[k]
  /\ \A j, k \in 1..Len(t) : p[j] = p[k] => j = k
  /\ \A j, k \in 1..Len(a) : q[j] = q[k] => j = k
  /\ \A j \in 1..Len(t), k \in 1..Len(a) : p[j] # q[k]
  /\ \A n \in 1..Len(b) : (\E k \in 1..Len(t) : p[k] = n) \/ (\E k \in 1..Len(a) : q[k] = n)

LEMMA RemoveAtShuffle ==
  ASSUME NEW S, NEW s \in Seq(S), NEW i \in 1..Len(s)
  PROVE  \E p, q : Shuffle(s, RemoveAt(s, i), <<s[i]>>, p, q)
<1> DEFINE t == RemoveAt(s, i)
           a == <<s[i]>>
           p == [k \in 1..(Len(s) - 1) |-> IF k < i THEN k ELSE k + 1]
           q == [k \in 1..1 |-> i]
<1>1. Len(s) \in Nat
  BY LenProperties
<1>2. /\ Len(t) = Len(s) - 1
      /\ \A k \in 1..(Len(s) - 1) : t[k] = IF k < i THEN s[k] ELSE s[k + 1]
  BY RemoveAtFacts
<1>3. Len(a) = 1 /\ a[1] = s[i]
  OBVIOUS
<1>4. /\ \A k \in 1..(Len(s) - 1) : p[k] = IF k < i THEN k ELSE k + 1
      /\ q[1] = i
  BY <1>1
<1> HIDE DEF t, a, p, q
<1>5. \A k \in 1..(Len(s) - 1) : p[k] \in 1..Len(s) /\ s[p[k]] = t[k]
  BY <1>1, <1>2, <1>4
<1>6. \A j, k \in 1..(Len(s) - 1) : p[j] = p[k] => j = k
  BY <1>1, <1>4
<1>7. \A j \in 1..(Len(s) - 1) : p[j] # i
  BY <1>1, <1>4
<1>8. ASSUME NEW n \in 1..Len(s), n # i
      PROVE  \E k \in 1..(Len(s) - 1) : p[k] = n
  <2>1. CASE n < i
    <3>1. n \in 1..(Len(s) - 1) /\ p[n] = n
      BY <1>1, <1>4, <2>1
    <3> QED BY <3>1
  <2>2. CASE n > i
    <3>1. n - 1 \in 1..(Len(s) - 1) /\ p[n - 1] = n
      BY <1>1, <1>4, <2>2
    <3> QED BY <3>1
  <2> QED BY <1>1, <1>8, <2>1, <2>2
<1>9. \A k \in 1..Len(a) : k = 1
  BY <1>3
<1>10. Shuffle(s, t, a, p, q)
  BY <1>2, <1>3, <1>4, <1>5, <1>6, <1>7, <1>8, <1>9 DEF Shuffle
<1> QED BY <1>10 DEF t, a

LEMMA HoldsShuffle ==
  ASSUME NEW S, NEW t \in Seq(S), NEW a \in Seq(S), NEW b \in Seq(S), Holds(b, t, a)
  PROVE  \E p, q : Shuffle(b, t, a, p, q)
<1>1. Len(t) \in Nat /\ Len(a) \in Nat
  BY LenProperties
<1> PICK i \in 0..Len(t) : Placed(b, t, a, i)
  BY HoldsFacts
<1>2. /\ Len(b) = Len(t) + Len(a)
      /\ \A k \in 1..i : b[k] = t[k]
      /\ \A k \in 1..Len(a) : b[i + k] = a[k]
      /\ \A k \in (i + 1)..Len(t) : b[Len(a) + k] = t[k]
  BY DEF Placed
<1> DEFINE p == [k \in 1..Len(t) |-> IF k <= i THEN k ELSE Len(a) + k]
           q == [k \in 1..Len(a) |-> i + k]
<1>3. /\ \A k \in 1..Len(t) : p[k] = IF k <= i THEN k ELSE Len(a) + k
      /\ \A k \in 1..Len(a) : q[k] = i + k
  OBVIOUS
<1> HIDE DEF p, q
<1>4. ASSUME NEW k \in 1..Len(t)
      PROVE  p[k] \in 1..Len(b) /\ b[p[k]] = t[k]
  <2>1. CASE k <= i
    BY <1>1, <1>2, <1>3, <2>1
  <2>2. CASE ~(k <= i)
    <3>1. p[k] = Len(a) + k /\ k \in (i + 1)..Len(t)
      BY <1>1, <1>3, <2>2
    <3>2. b[Len(a) + k] = t[k]
      BY <1>2, <3>1
    <3> QED BY <1>1, <1>2, <3>1, <3>2
  <2> QED BY <2>1, <2>2
<1>5. ASSUME NEW k \in 1..Len(a)
      PROVE  q[k] \in 1..Len(b) /\ b[q[k]] = a[k]
  <2>1. b[i + k] = a[k] /\ q[k] = i + k
    BY <1>2, <1>3
  <2> QED BY <1>1, <1>2, <2>1
<1>6. \A j, k \in 1..Len(t) : p[j] = p[k] => j = k
  BY <1>1, <1>3
<1>7. \A j, k \in 1..Len(a) : q[j] = q[k] => j = k
  BY <1>1, <1>3
<1>8. \A j \in 1..Len(t), k \in 1..Len(a) : p[j] # q[k]
  BY <1>1, <1>3
<1>9. ASSUME NEW n \in 1..Len(b)
      PROVE  (\E k \in 1..Len(t) : p[k] = n) \/ (\E k \in 1..Len(a) : q[k] = n)
  <2>1. CASE n <= i
    <3>1. n \in 1..Len(t) /\ p[n] = n
      BY <1>1, <1>3, <2>1
    <3> QED BY <3>1
  <2>2. CASE n > i /\ n <= i + Len(a)
    <3>1. PICK m \in 1..Len(a) : i + m = n
      <4>1. n - i \in 1..Len(a) /\ i + (n - i) = n
        BY <1>1, <2>2
      <4> QED BY <4>1
    <3> QED BY <1>3, <3>1
  <2>3. CASE n > i + Len(a)
    <3>1. n - Len(a) \in 1..Len(t) /\ p[n - Len(a)] = n
      BY <1>1, <1>2, <1>3, <2>3
    <3> QED BY <3>1
  <2> QED BY <1>1, <1>2, <2>1, <2>2, <2>3
<1>10. Shuffle(b, t, a, p, q)
  BY <1>4, <1>5, <1>6, <1>7, <1>8, <1>9 DEF Shuffle
<1> QED BY <1>10

\* A list is distinct just when the parts it is shuffled from are, and are apart.
LEMMA ShuffleDistinct ==
  ASSUME NEW b, NEW t, NEW a, NEW p, NEW q, Shuffle(b, t, a, p, q)
  PROVE  Distinct(b) <=> Distinct(t) /\ Distinct(a) /\ Apart(t, a)
<1>1. ASSUME Distinct(b) PROVE Distinct(t) /\ Distinct(a) /\ Apart(t, a)
  <2>1. ASSUME NEW j \in 1..Len(t), NEW k \in 1..Len(t), t[j] = t[k] PROVE j = k
    <3>1. p[j] \in 1..Len(b) /\ p[k] \in 1..Len(b) /\ b[p[j]] = t[j] /\ b[p[k]] = t[k]
      BY DEF Shuffle
    <3>2. p[j] = p[k]
      BY <1>1, <2>1, <3>1 DEF Distinct
    <3> QED BY <3>2 DEF Shuffle
  <2>2. ASSUME NEW j \in 1..Len(a), NEW k \in 1..Len(a), a[j] = a[k] PROVE j = k
    <3>1. q[j] \in 1..Len(b) /\ q[k] \in 1..Len(b) /\ b[q[j]] = a[j] /\ b[q[k]] = a[k]
      BY DEF Shuffle
    <3>2. q[j] = q[k]
      BY <1>1, <2>2, <3>1 DEF Distinct
    <3> QED BY <3>2 DEF Shuffle
  <2>3. ASSUME NEW j \in 1..Len(t), NEW k \in 1..Len(a), t[j] = a[k] PROVE FALSE
    <3>1. p[j] \in 1..Len(b) /\ q[k] \in 1..Len(b) /\ b[p[j]] = t[j] /\ b[q[k]] = a[k]
      BY DEF Shuffle
    <3>2. p[j] = q[k]
      BY <1>1, <2>3, <3>1 DEF Distinct
    <3> QED BY <3>2 DEF Shuffle
  <2> QED BY <2>1, <2>2, <2>3 DEF Distinct, Apart
<1>2. ASSUME Distinct(t), Distinct(a), Apart(t, a),
             NEW m \in 1..Len(b), NEW n \in 1..Len(b), b[m] = b[n]
      PROVE  m = n
  <2>1. CASE \E j \in 1..Len(t) : p[j] = m
    <3>1. PICK j \in 1..Len(t) : p[j] = m
      BY <2>1
    <3>2. CASE \E k \in 1..Len(t) : p[k] = n
      BY <1>2, <3>1, <3>2 DEF Shuffle, Distinct
    <3>3. CASE \E k \in 1..Len(a) : q[k] = n
      BY <1>2, <3>1, <3>3 DEF Shuffle, Apart
    <3> QED BY <3>2, <3>3 DEF Shuffle
  <2>2. CASE \E j \in 1..Len(a) : q[j] = m
    <3>1. PICK j \in 1..Len(a) : q[j] = m
      BY <2>2
    <3>2. CASE \E k \in 1..Len(t) : p[k] = n
      BY <1>2, <3>1, <3>2 DEF Shuffle, Apart
    <3>3. CASE \E k \in 1..Len(a) : q[k] = n
      BY <1>2, <3>1, <3>3 DEF Shuffle, Distinct
    <3> QED BY <3>2, <3>3 DEF Shuffle
  <2> QED BY <2>1, <2>2 DEF Shuffle
<1>3. ASSUME Distinct(t), Distinct(a), Apart(t, a) PROVE Distinct(b)
  BY <1>2, <1>3 DEF Distinct
<1> QED BY <1>1, <1>3

\* The elements of the whole are those of the parts.
LEMMA ShuffleApart ==
  ASSUME NEW b, NEW t, NEW a, NEW p, NEW q, NEW c, Shuffle(b, t, a, p, q)
  PROVE  Apart(b, c) <=> Apart(t, c) /\ Apart(a, c)
<1>1. ASSUME Apart(b, c) PROVE Apart(t, c) /\ Apart(a, c)
  <2>1. ASSUME NEW j \in 1..Len(t), NEW k \in 1..Len(c) PROVE t[j] # c[k]
    <3>1. p[j] \in 1..Len(b) /\ b[p[j]] = t[j]
      BY Zenon DEF Shuffle
    <3> QED BY <1>1, <3>1, Zenon DEF Apart
  <2>2. ASSUME NEW j \in 1..Len(a), NEW k \in 1..Len(c) PROVE a[j] # c[k]
    <3>1. q[j] \in 1..Len(b) /\ b[q[j]] = a[j]
      BY Zenon DEF Shuffle
    <3> QED BY <1>1, <3>1, Zenon DEF Apart
  <2> QED BY <2>1, <2>2, Zenon DEF Apart
<1>2. ASSUME Apart(t, c), Apart(a, c), NEW n \in 1..Len(b), NEW k \in 1..Len(c)
      PROVE  b[n] # c[k]
  <2>1. CASE \E j \in 1..Len(t) : p[j] = n
    BY <1>2, <2>1 DEF Shuffle, Apart
  <2>2. CASE \E j \in 1..Len(a) : q[j] = n
    BY <1>2, <2>2 DEF Shuffle, Apart
  <2> QED BY <2>1, <2>2 DEF Shuffle
<1>3. ASSUME Apart(t, c), Apart(a, c) PROVE Apart(b, c)
  BY <1>2, <1>3 DEF Apart
<1> QED BY <1>1, <1>3

-----------------------------------------------------------------------------
IInv == TypeOK /\ EachOnce

LEMMA NextKeepsIInv == IInv /\ [Next]_vars => IInv'
<1> SUFFICES ASSUME IInv, [Next]_vars PROVE IInv'
  OBVIOUS
<1>1. /\ order \in Seq(Windows) /\ away \in Seq(Windows)
      /\ Distinct(order) /\ Distinct(away) /\ Apart(order, away)
  BY DEF IInv, TypeOK, EachOnce
<1>2. CASE UNCHANGED vars
  BY <1>1, <1>2 DEF vars, IInv, TypeOK, EachOnce, Distinct, Apart
<1>3. CASE Next
  <2>1. order' \in Seq(Windows) /\ away' \in Seq(Windows)
    BY <1>3 DEF Next
  <2>2. SUFFICES Distinct(order') /\ Distinct(away') /\ Apart(order', away')
    BY <2>1 DEF IInv, TypeOK, EachOnce, Distinct, Apart
  <2>3. /\ DOMAIN order = 1..Len(order) /\ DOMAIN order' = 1..Len(order')
        /\ DOMAIN away = 1..Len(away)
    BY <1>1, <2>1, LenProperties
  <2>4. ASSUME Rearrange
        PROVE  Distinct(order') /\ Distinct(away') /\ Apart(order', away')
    <3>1. Permutes(order, order') /\ away' = away
      BY <2>4 DEF Rearrange
    <3>2. Distinct(order')
      BY <1>1, <2>1, <3>1, PermutesDistinct
    <3>3. \A k \in 1..Len(order') : \E j \in 1..Len(order) : order[j] = order'[k]
      BY <2>3, <3>1 DEF Permutes, ToSet
    <3>4. Apart(order', away)
      BY <1>1, <3>3 DEF Apart
    <3> QED BY <1>1, <3>1, <3>2, <3>4
  <2>5. ASSUME Open
        PROVE  Distinct(order') /\ Distinct(away') /\ Apart(order', away')
    <3>1. PICK i \in 1..Len(order') :
            /\ order'[i] \in Windows \ (ToSet(order) \cup ToSet(away))
            /\ order = RemoveAt(order', i)
      BY <2>3, <2>5 DEF Open, Inserts
    <3>2. away' = away
      BY <2>5 DEF Open
    <3> DEFINE a == <<order'[i]>>
    <3>3. PICK p, q : Shuffle(order', order, a, p, q)
      BY <2>1, <3>1, RemoveAtShuffle
    <3>4. Len(a) = 1 /\ a[1] = order'[i]
      OBVIOUS
    <3>5. order'[i] \notin ToSet(order) /\ order'[i] \notin ToSet(away)
      BY <3>1
    <3> HIDE DEF a
    <3>6. Distinct(a) /\ Apart(order, a) /\ Apart(a, away)
      BY <2>3, <3>4, <3>5 DEF Distinct, Apart, ToSet
    <3>7. Distinct(order') /\ Apart(order', away)
      BY <1>1, <3>3, <3>6, ShuffleDistinct, ShuffleApart
    <3> QED BY <1>1, <3>2, <3>7
  <2>6. ASSUME Close
        PROVE  Distinct(order') /\ Distinct(away') /\ Apart(order', away')
    <3>1. PICK i \in 1..Len(order) : order' = RemoveAt(order, i)
      BY <2>3, <2>6 DEF Close, Removes
    <3>2. away' = away
      BY <2>6 DEF Close
    <3>3. PICK p, q : Shuffle(order, order', <<order[i]>>, p, q)
      BY <1>1, <3>1, RemoveAtShuffle
    <3>4. Distinct(order') /\ Apart(order', away)
      BY <1>1, <3>3, ShuffleDistinct, ShuffleApart
    <3> QED BY <1>1, <3>2, <3>4
  <2>7. ASSUME TakeOut
        PROVE  Distinct(order') /\ Distinct(away') /\ Apart(order', away')
    <3>1. PICK p, q : Shuffle(order, order', away', p, q)
      BY <1>1, <2>1, <2>7, HoldsShuffle DEF TakeOut
    <3> QED BY <1>1, <3>1, ShuffleDistinct
  <2>8. ASSUME PutBack
        PROVE  Distinct(order') /\ Distinct(away') /\ Apart(order', away')
    <3>1. PICK p, q : Shuffle(order', order, away, p, q)
      BY <1>1, <2>1, <2>8, HoldsShuffle DEF PutBack
    <3>2. Distinct(order')
      BY <1>1, <3>1, ShuffleDistinct
    <3>3. away' = <<>> /\ Len(away') = 0
      BY <2>8 DEF PutBack
    <3>4. Distinct(away') /\ Apart(order', away')
      BY <3>3 DEF Distinct, Apart
    <3> QED BY <3>2, <3>4
  <2> QED BY <1>3, <2>4, <2>5, <2>6, <2>7, <2>8 DEF Next
<1> QED BY <1>2, <1>3

\* Whatever is opened, closed, rearranged, detached and put back, and for any
\* windows, a window is at one place of the tree (tiles(), tiling_tree/mod.rs)
\* or of the container that is away, and at no second one.
THEOREM EachWindowOnce == Spec => []EachOnce
<1>1. Init => IInv
  <2> SUFFICES ASSUME Init PROVE IInv
    OBVIOUS
  <2>1. order = <<>> /\ away = <<>> /\ Len(order) = 0 /\ Len(away) = 0
    BY DEF Init
  <2>2. TypeOK
    BY <2>1 DEF TypeOK
  <2>3. EachOnce
    BY <2>1 DEF EachOnce, Distinct, Apart
  <2> QED BY <2>2, <2>3 DEF IInv
<1>2. IInv => EachOnce
  BY DEF IInv
<1> QED BY <1>1, <1>2, NextKeepsIInv, PTL DEF Spec
=============================================================================
