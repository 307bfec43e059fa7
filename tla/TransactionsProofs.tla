------------------------- MODULE TransactionsProofs -------------------------
(***************************************************************************)
(* For any windows, fences and bounds: a commit whose blockers are gone is *)
(* in the channel of those to wake, and nothing waits for a transaction    *)
(* that has no deadline.                                                   *)
(***************************************************************************)
EXTENDS Transactions, WellFoundedInduction, TLAPS

\* What makes the two properties inductive.  A commit that is blocked by a
\* transaction will be told when it completes, and no clone is of a transaction
\* that was not created yet.
Told ==
    \A w \in windows : \A i \in DOMAIN queue[w] :
        queue[w][i].blocker \notin completed \cup {None} =>
            w \in notify[queue[w][i].blocker]

Past ==
    /\ \A w \in Windows :
        /\ next[w] <= created
        /\ \A p \in pending[w] : p[2] <= created
        /\ \A i \in DOMAIN queue[w] : queue[w][i].holds <= created
    /\ \A t \in fences : t <= created

TxnInv == TypeOK /\ Past /\ Told /\ ReadyCommitIsWoken /\ WaitHasDeadline

-----------------------------------------------------------------------------
(* blocker_cleared().                                                      *)

\* A set of naturals has a least element.
LEMMA LeastNat ==
  ASSUME NEW T, T \subseteq Nat, T /= {}
  PROVE  \E n \in T : \A m \in T : n <= m
  <1> DEFINE R == {ss \in Nat \X Nat : ss[1] < ss[2]}
  <1>1. IsWellFoundedOn(R, Nat)
    BY NatLessThanWellFounded, Zenon DEF OpToRel
  <1>2. \E n \in T : \A m \in T : ~(<<m, n>> \in R)
    <2> HIDE DEF R
    <2> QED BY <1>1, WFMin, Zenon
  <1>3. PICK n \in T : \A m \in T : ~(<<m, n>> \in R)
    BY <1>2, Zenon
  <1>4. ASSUME NEW m \in T PROVE n <= m
    <2>1. m \in Nat /\ n \in Nat
      BY Zenon
    <2>2. <<m, n>> \in R <=> m < n
      BY <2>1, Zenon
    <2> HIDE DEF R
    <2> QED BY <1>3, <2>1, <2>2
  <1> QED BY <1>4, Zenon

\* There is a first commit that is blocked, or none is.
LEMMA ReadyCountExists ==
  ASSUME NEW S, NEW q \in Seq(S), NEW done
  PROVE  /\ ReadyCount(q, done) \in 0..Len(q)
         /\ \A i \in 1..ReadyCount(q, done) : Released(q[i], done)
         /\ \/ ReadyCount(q, done) = Len(q)
            \/ ~Released(q[ReadyCount(q, done) + 1], done)
  <1> DEFINE T == {n \in 0..Len(q) : n = Len(q) \/ ~Released(q[n + 1], done)}
  <1>1. T \subseteq Nat /\ Len(q) \in T
    OBVIOUS
  <1>2. PICK n \in T : \A m \in T : n <= m
    BY <1>1, LeastNat, Zenon
  <1>3. ASSUME NEW i \in 1..n PROVE Released(q[i], done)
    <2>1. i - 1 \in 0..Len(q) /\ i - 1 < n /\ i - 1 /= Len(q)
      BY <1>2
    <2>2. ASSUME i - 1 \in T PROVE FALSE
      <3>1. n <= i - 1
        BY <1>2, <2>2, Zenon
      <3> QED BY <2>1, <3>1
    <2> QED BY <2>1, <2>2
  <1>4. /\ n \in 0..Len(q)
        /\ \A i \in 1..n : Released(q[i], done)
        /\ n = Len(q) \/ ~Released(q[n + 1], done)
    BY <1>2, <1>3, Zenon
  <1> HIDE DEF T
  <1> QED BY <1>4, Zenon DEF ReadyCount

\* What remains of a queue is a part of it, and starts with a commit that is
\* blocked.
LEMMA RestIsBlocked ==
  ASSUME NEW S, NEW q \in Seq(S), NEW done
  PROVE  /\ RestOf(q, done) \in Seq(S)
         /\ RestOf(q, done) /= <<>> => ~Released(RestOf(q, done)[1], done)
         /\ \A i \in DOMAIN RestOf(q, done) :
              \E j \in DOMAIN q : RestOf(q, done)[i] = q[j]
  <1> DEFINE n == ReadyCount(q, done)
  <1>1. n \in 0..Len(q) /\ (n = Len(q) \/ ~Released(q[n + 1], done))
    BY ReadyCountExists, Zenon
  <1> HIDE DEF n
  <1> DEFINE r == SubSeq(q, n + 1, Len(q))
  <1>2. /\ r \in Seq(S) /\ Len(r) = Len(q) - n
        /\ \A i \in 1..Len(r) : r[i] = q[i + n]
    <2>1. n \in Nat /\ n <= Len(q) /\ Len(q) \in Nat
      BY <1>1
    <2>2. r \in Seq(S)
      BY <2>1
    <2>3. Len(r) = Len(q) - n
      BY <2>1
    <2>4. \A i \in 1..Len(r) : r[i] = q[i + n]
      BY <2>1, <2>3
    <2> QED BY <2>2, <2>3, <2>4, Zenon
  <1>3. \A i \in DOMAIN r : \E j \in DOMAIN q : r[i] = q[j]
    <2> SUFFICES ASSUME NEW i \in DOMAIN r PROVE \E j \in DOMAIN q : r[i] = q[j]
      BY Zenon
    <2>1. i \in 1..Len(r) /\ i + n \in DOMAIN q
      BY <1>1, <1>2
    <2> HIDE DEF r
    <2> QED BY <1>2, <2>1, Zenon
  <1>4. r /= <<>> => ~Released(r[1], done)
    <2> SUFFICES ASSUME r /= <<>> PROVE ~Released(r[1], done)
      BY Zenon
    <2>1. Len(r) >= 1
      BY <1>2
    <2> HIDE DEF r
    <2>2. r[1] = q[n + 1] /\ n /= Len(q)
      BY <1>1, <1>2, <2>1
    <2> QED BY <1>1, <2>2, Zenon
  <1>5. RestOf(q, done) = r
    BY Zenon DEF RestOf, n
  <1> HIDE DEF r
  <1> QED BY <1>2, <1>3, <1>4, <1>5, Zenon

\* The fields of a commit in a queue.
LEMMA CommitFields ==
  ASSUME NEW q \in Seq(Commits), NEW i \in DOMAIN q
  PROVE  /\ q[i] \in Commits
         /\ q[i].serial \in Nat \ {0}
         /\ q[i].blocker \in Txns \cup {None}
         /\ q[i].holds \in Txns \cup {None}
  <1>1. q[i] \in Commits
    OBVIOUS
  <1> QED BY <1>1, Zenon DEF Commits

\* The commit that becomes current has a serial.
LEMMA AppliedIsSerial ==
  ASSUME NEW q \in Seq(Commits), NEW done, NEW a \in Nat \ {0}
  PROVE  AppliedOf(q, done, a) \in Nat \ {0}
  <1> DEFINE n == ReadyCount(q, done)
  <1>1. n \in 0..Len(q)
    BY ReadyCountExists, Zenon
  <1> HIDE DEF n
  <1>2. n /= 0 => n \in DOMAIN q
    BY <1>1
  <1>3. n /= 0 => q[n].serial \in Nat \ {0}
    BY <1>2, CommitFields, Zenon
  <1> QED BY <1>3, Zenon DEF AppliedOf, n

-----------------------------------------------------------------------------
(* Queues in order, and running them.                                      *)

\* The commits q of a window that wait, the serial a of its current commit and
\* the serial k that it acked last.  Serials grow; only the first commit that
\* answers a configure is blocked by a transaction; fences are signalled oldest
\* first, and a commit holds a transaction for the time of its fence.
InOrder(a, q, k) ==
    /\ a <= k
    /\ a = k \/ (q /= <<>> /\ q[Len(q)].serial = k)
    /\ \A i \in DOMAIN q :
        /\ a <= q[i].serial /\ q[i].serial <= k
        /\ q[i].blocker /= None => a < q[i].serial
        /\ q[i].holds /= None => q[i].fence
    /\ \A i, j \in DOMAIN q : i < j =>
        /\ q[i].serial <= q[j].serial
        /\ q[j].blocker /= None => q[i].serial < q[j].serial
        /\ q[i].fence => q[j].fence

\* Commit i of q is the first to answer configure s.
Answers(q, i, s) ==
    /\ q[i].serial = s
    /\ \A j \in DOMAIN q : j < i => q[j].serial < s

\* r is what is left of q, and b the current commit, once the first n commits of
\* q were applied on top of a.
Run(q, a, n, r, b) ==
    /\ n \in 0..Len(q)
    /\ r \in Seq(Commits) /\ Len(r) = Len(q) - n
    /\ \A i \in DOMAIN r : \E m \in DOMAIN q : m = i + n /\ r[i] = q[m]
    /\ b = IF n = 0 THEN a ELSE q[n].serial

LEMMA BlockerClearedRuns ==
  ASSUME NEW q \in Seq(Commits), NEW done, NEW a
  PROVE  \E n \in 0..Len(q) :
           /\ Run(q, a, n, RestOf(q, done), AppliedOf(q, done, a))
           /\ \A i \in 1..n : Released(q[i], done)
           /\ n = Len(q) \/ ~Released(q[n + 1], done)
  <1> DEFINE n == ReadyCount(q, done)
  <1>1. /\ n \in 0..Len(q)
        /\ \A i \in 1..n : Released(q[i], done)
        /\ n = Len(q) \/ ~Released(q[n + 1], done)
    BY ReadyCountExists, Zenon
  <1>2. /\ RestOf(q, done) = SubSeq(q, n + 1, Len(q))
        /\ AppliedOf(q, done, a) = IF n = 0 THEN a ELSE q[n].serial
    BY Zenon DEF RestOf, AppliedOf
  <1> HIDE DEF n
  <1> DEFINE r == SubSeq(q, n + 1, Len(q))
  <1>3. /\ r \in Seq(Commits) /\ Len(r) = Len(q) - n
        /\ \A i \in DOMAIN r : i + n \in DOMAIN q /\ r[i] = q[i + n]
    BY <1>1
  <1> HIDE DEF r
  <1>4. Run(q, a, n, r, AppliedOf(q, done, a))
    BY <1>1, <1>2, <1>3, Zenon DEF Run
  <1> QED BY <1>1, <1>2, <1>4, Zenon DEF r

\* Serials of commits are numbers.
LEMMA SerialsAreNat ==
  ASSUME NEW q \in Seq(Commits)
  PROVE  \A i \in DOMAIN q : q[i].serial \in Nat
  BY CommitFields, Zenon

\* A queue that was run in part is in order.
LEMMA RunInOrder ==
  ASSUME NEW q \in Seq(Commits), NEW a \in Nat, NEW k \in Nat, InOrder(a, q, k),
         NEW n, NEW r, NEW b, Run(q, a, n, r, b)
  PROVE  InOrder(b, r, k) /\ b \in Nat /\ a <= b
  <1>1. /\ n \in 0..Len(q) /\ Len(q) \in Nat /\ DOMAIN q = 1..Len(q)
        /\ r \in Seq(Commits) /\ Len(r) = Len(q) - n /\ DOMAIN r = 1..Len(r)
        /\ b = IF n = 0 THEN a ELSE q[n].serial
    BY DEF Run
  <1>2. \A i \in DOMAIN q : q[i].serial \in Nat
    BY SerialsAreNat, Zenon
  <1>3. n /= 0 => n \in DOMAIN q
    BY <1>1
  <1>4. b \in Nat /\ a <= b /\ b <= k
    BY <1>1, <1>2, <1>3 DEF InOrder
  <1>5. ASSUME NEW i \in DOMAIN r
        PROVE  /\ b <= r[i].serial /\ r[i].serial <= k
               /\ r[i].blocker /= None => b < r[i].serial
               /\ r[i].holds /= None => r[i].fence
    <2>1. PICK m \in DOMAIN q : m = i + n /\ r[i] = q[m]
      BY Zenon DEF Run
    <2>2. CASE n = 0
      BY <1>1, <2>1, <2>2, Zenon DEF InOrder
    <2>3. CASE n /= 0
      <3>1. n \in DOMAIN q /\ n < m /\ b = q[n].serial
        BY <1>1, <1>3, <2>1, <2>3
      <3> QED BY <2>1, <3>1, Zenon DEF InOrder
    <2> QED BY <2>2, <2>3, Zenon
  <1>6. ASSUME NEW i \in DOMAIN r, NEW j \in DOMAIN r, i < j
        PROVE  /\ r[i].serial <= r[j].serial
               /\ r[j].blocker /= None => r[i].serial < r[j].serial
               /\ r[i].fence => r[j].fence
    <2>1. PICK m \in DOMAIN q : m = i + n /\ r[i] = q[m]
      BY Zenon DEF Run
    <2>2. PICK l \in DOMAIN q : l = j + n /\ r[j] = q[l]
      BY Zenon DEF Run
    <2>3. m < l
      BY <1>1, <1>6, <2>1, <2>2
    <2> QED BY <2>1, <2>2, <2>3 DEF InOrder
  <1>7. b = k \/ (r /= <<>> /\ r[Len(r)].serial = k)
    <2>1. CASE n = Len(q)
      <3>1. CASE n = 0
        <4>1. q = <<>>
          BY <1>1, <2>1, <3>1
        <4> QED BY <1>1, <3>1, <4>1, Zenon DEF InOrder
      <3>2. CASE n /= 0
        <4>1. b = q[Len(q)].serial /\ a <= b /\ b <= k
          BY <1>1, <1>4, <2>1, <3>2, Zenon
        <4> QED BY <1>4, <4>1 DEF InOrder
      <3> QED BY <3>1, <3>2, Zenon
    <2>2. CASE n /= Len(q)
      <3> DEFINE L == Len(r)
      <3>0. L \in Nat /\ L >= 1
        <4>1. PICK m \in Nat : m = Len(q)
          BY <1>1, Zenon
        <4>2. n \in 0..m /\ n /= m /\ L = m - n
          BY <1>1, <2>2, <4>1, Zenon
        <4> HIDE DEF L
        <4> QED BY <4>2
      <3>1. Len(r) \in DOMAIN r /\ r /= <<>>
        <4>1. L \in DOMAIN r
          BY <1>1, <3>0
        <4>2. r /= <<>>
          BY <3>0
        <4> QED BY <4>1, <4>2, Zenon
      <3> HIDE DEF L
      <3>2. PICK m \in DOMAIN q : m = Len(r) + n /\ r[Len(r)] = q[m]
        BY <3>1, Zenon DEF Run
      <3>3. r[Len(r)] = q[Len(q)]
        BY <1>1, <3>2
      <3>4. CASE a = k
        BY <1>4, <3>4
      <3>5. CASE a /= k
        BY <3>1, <3>3, <3>5, Zenon DEF InOrder
      <3> QED BY <3>4, <3>5, Zenon
    <2> QED BY <2>1, <2>2, Zenon
  <1> QED BY <1>4, <1>5, <1>6, <1>7, Zenon DEF InOrder

\* The answers that a run leaves are the ones that were there, unless they were
\* applied.
LEMMA RunAnswers ==
  ASSUME NEW q \in Seq(Commits), NEW a \in Nat, NEW k \in Nat, InOrder(a, q, k),
         NEW n, NEW r, NEW b, Run(q, a, n, r, b), NEW s \in Nat, NEW i \in DOMAIN r
  PROVE  \E m \in DOMAIN q :
           /\ m = i + n /\ r[i] = q[m]
           /\ b < s /\ Answers(r, i, s) => Answers(q, m, s)
           /\ Answers(q, m, s) => Answers(r, i, s)
  <1>1. /\ n \in 0..Len(q) /\ Len(q) \in Nat /\ DOMAIN q = 1..Len(q)
        /\ r \in Seq(Commits) /\ Len(r) = Len(q) - n /\ DOMAIN r = 1..Len(r)
        /\ b = IF n = 0 THEN a ELSE q[n].serial
    BY DEF Run
  <1>2. \A j \in DOMAIN q : q[j].serial \in Nat
    BY SerialsAreNat, Zenon
  <1>3. PICK m \in DOMAIN q : m = i + n /\ r[i] = q[m]
    BY Zenon DEF Run
  <1>4. ASSUME b < s, Answers(r, i, s) PROVE Answers(q, m, s)
    <2> SUFFICES ASSUME NEW j \in DOMAIN q, j < m PROVE q[j].serial < s
      BY <1>3, <1>4, Zenon DEF Answers
    <2>1. CASE j <= n
      <3>1. n /= 0 /\ n \in DOMAIN q /\ b = q[n].serial
        BY <1>1, <2>1
      <3>2. q[j].serial <= q[n].serial
        <4>1. CASE j = n
          BY <1>2, <4>1
        <4>2. CASE j < n
          BY <3>1, <4>2, Zenon DEF InOrder
        <4> QED BY <1>1, <2>1, <4>1, <4>2
      <3>3. q[j].serial \in Nat /\ q[n].serial \in Nat
        BY <1>2, <3>1, Zenon
      <3> QED BY <1>4, <3>1, <3>2, <3>3
    <2>2. CASE j > n
      <3>1. PICK l \in DOMAIN r : l = j - n /\ l < i
        BY <1>1, <1>3, <2>2
      <3>2. r[l] = q[j]
        <4>1. PICK o \in DOMAIN q : o = l + n /\ r[l] = q[o]
          BY Zenon DEF Run
        <4> QED BY <1>1, <3>1, <4>1
      <3> QED BY <1>4, <3>1, <3>2, Zenon DEF Answers
    <2> QED BY <1>1, <2>1, <2>2
  <1>5. ASSUME Answers(q, m, s) PROVE Answers(r, i, s)
    <2> SUFFICES ASSUME NEW j \in DOMAIN r, j < i PROVE r[j].serial < s
      BY <1>3, <1>5, Zenon DEF Answers
    <2>1. PICK l \in DOMAIN q : l = j + n /\ r[j] = q[l]
      BY Zenon DEF Run
    <2>2. l < m
      BY <1>1, <1>3, <2>1
    <2> QED BY <1>5, <2>1, <2>2, Zenon DEF Answers
  <1> QED BY <1>3, <1>4, <1>5, Zenon

\* The serials of a window in step are that of its current commit and the next.
LEMMA FirstAnswer ==
  ASSUME NEW q \in Seq(Commits), NEW a \in Nat, NEW k \in Nat, InOrder(a, q, k),
         NEW s \in Nat, a < s, k <= a + 1, NEW n \in DOMAIN q, s <= q[n].serial
  PROVE  s = k /\ \E i \in DOMAIN q : i <= n /\ Answers(q, i, s)
  <1>1. DOMAIN q = 1..Len(q) /\ Len(q) \in Nat
    OBVIOUS
  <1>2. \A i \in DOMAIN q : q[i].serial \in Nat /\ q[i].serial <= k
    BY SerialsAreNat, Zenon DEF InOrder
  <1>3. s = k
    BY <1>2
  <1> DEFINE T == {i \in DOMAIN q : q[i].serial = s}
  <1>4. n \in T /\ T \subseteq Nat
    BY <1>1, <1>2, <1>3
  <1>5. PICK i \in T : \A j \in T : i <= j
    BY <1>4, LeastNat, Zenon
  <1>6. ASSUME NEW j \in DOMAIN q, j < i PROVE q[j].serial < s
    <2>1. i \in Nat /\ j \in Nat /\ j \notin T
      BY <1>1, <1>4, <1>5, <1>6
    <2> QED BY <1>2, <1>3, <2>1
  <1> QED BY <1>3, <1>4, <1>5, <1>6, Zenon DEF Answers

-----------------------------------------------------------------------------
(* The invariant.                                                          *)

LEMMA InitTxnInv == Init => TxnInv
  <1> SUFFICES ASSUME Init PROVE TxnInv
    BY Zenon
  <1>1. None \notin Txns /\ None \in Nat
    BY TransactionConstants DEF None, Txns
  <1>2. PICK s \in Sizes : wanted = [w \in Windows |-> s]
    BY Zenon DEF Init
  <1>3. configures \in [Windows -> Seq(Sizes)]
    BY <1>2 DEF Init
  <1>4. TypeOK
    BY <1>2, <1>3, TransactionConstants DEF Init, TypeOK, Txns
  <1>5. Past /\ Told /\ ReadyCommitIsWoken /\ WaitHasDeadline
    BY DEF Init, Past, Told, ReadyCommitIsWoken, WaitHasDeadline, None
  <1> QED BY <1>4, <1>5, Zenon DEF TxnInv

\* Transactions complete while the queue of w stays: w is told of it.
LEMMA WindowStays ==
  ASSUME TxnInv, NEW S, NEW w \in windows,
         completed' = completed \cup S,
         queue'[w] = queue[w],
         \A t \in S : notify[t] \subseteq cleared',
         \A t \in Txns \ S : notify[t] \subseteq notify'[t],
         w \in cleared => w \in cleared'
  PROVE  /\ queue'[w] /= <<>> /\ Released(queue'[w][1], completed') => w \in cleared'
         /\ \A i \in DOMAIN queue'[w] :
              queue'[w][i].blocker \notin completed' \cup {None} =>
                w \in notify'[queue'[w][i].blocker]
  <1>1. w \in Windows /\ queue[w] \in Seq(Commits)
    BY Zenon DEF TxnInv, TypeOK
  <1>2. \A i \in DOMAIN queue[w] : queue[w][i].blocker \in Txns \cup {None}
    BY <1>1, CommitFields, Zenon
  <1>3. \A i \in DOMAIN queue[w] :
          queue[w][i].blocker \notin completed \cup {None} =>
            w \in notify[queue[w][i].blocker]
    BY Zenon DEF TxnInv, Told
  <1>4. ASSUME queue[w] /= <<>>, Released(queue[w][1], completed')
        PROVE  w \in cleared'
    <2>1. 1 \in DOMAIN queue[w]
      BY <1>1, <1>4
    <2>2. CASE Released(queue[w][1], completed)
      BY <1>4, <2>2, Zenon DEF TxnInv, ReadyCommitIsWoken
    <2>3. CASE ~Released(queue[w][1], completed)
      <3>1. queue[w][1].blocker \in S \ (completed \cup {None})
        BY <1>4, <2>3, Zenon DEF Released
      <3> QED BY <1>3, <2>1, <3>1, Zenon
    <2> QED BY <2>2, <2>3, Zenon
  <1> QED BY <1>2, <1>3, <1>4, Zenon

\* Complete() satisfies what WindowStays asks for.
LEMMA CompleteTells ==
  ASSUME TxnInv, NEW S, S \subseteq Txns, Complete(S)
  PROVE  /\ completed' = completed \cup S
         /\ \A t \in S : notify[t] \subseteq cleared'
         /\ \A t \in Txns \ S : notify[t] \subseteq notify'[t]
         /\ cleared \subseteq cleared'
         /\ completed' \subseteq Txns
         /\ notify' \in [Txns -> SUBSET Windows]
         /\ cleared' \subseteq Windows
  BY DEF Complete, TxnInv, TypeOK

\* No clone is of a transaction later than n.
PastUpTo(n) ==
    /\ \A w \in Windows :
        /\ next[w] <= n
        /\ \A p \in pending[w] : p[2] <= n
        /\ \A i \in DOMAIN queue[w] : queue[w][i].holds <= n
    /\ \A t \in fences : t <= n

LEMMA PastGrows ==
  ASSUME TxnInv, NEW n \in Nat, created <= n
  PROVE  PastUpTo(n)
  <1>1. created \in Nat /\ Txns \subseteq Nat /\ None \in Nat
    BY TransactionConstants DEF TxnInv, TypeOK, Txns, None
  <1>2. ASSUME NEW w \in Windows
        PROVE  /\ next[w] <= n
               /\ \A p \in pending[w] : p[2] <= n
               /\ \A i \in DOMAIN queue[w] : queue[w][i].holds <= n
    <2>1. next[w] \in Nat /\ pending[w] \subseteq Nat \X Txns
      BY <1>1, Zenon DEF TxnInv, TypeOK
    <2>2. next[w] <= n
      BY <1>1, <2>1 DEF TxnInv, Past
    <2>3. ASSUME NEW p \in pending[w] PROVE p[2] <= n
      <3>1. p[2] \in Nat /\ p[2] <= created
        BY <1>1, <2>1, Zenon DEF TxnInv, Past
      <3> QED BY <1>1, <3>1
    <2>4. ASSUME NEW i \in DOMAIN queue[w] PROVE queue[w][i].holds <= n
      <3>1. queue[w] \in Seq(Commits)
        BY Zenon DEF TxnInv, TypeOK
      <3>2. queue[w][i].holds \in Txns \cup {None}
        BY <3>1, CommitFields, Zenon
      <3>3. queue[w][i].holds <= created
        BY Zenon DEF TxnInv, Past
      <3> DEFINE h == queue[w][i].holds
      <3>4. h \in Nat /\ h <= created
        BY <1>1, <3>2, <3>3, Zenon
      <3> HIDE DEF h
      <3>5. h <= n
        BY <1>1, <3>4
      <3> QED BY <3>5, Zenon DEF h
    <2> QED BY <2>2, <2>3, <2>4, Zenon
  <1>3. ASSUME NEW t \in fences PROVE t <= n
    <2>1. t \in Txns /\ t <= created
      BY DEF TxnInv, TypeOK, Past
    <2> QED BY <1>1, <2>1
  <1> QED BY <1>2, <1>3, Zenon DEF PastUpTo

LEMMA DroppedAreTxns ==
  ASSUME TxnInv, NEW n \in 0..MaxTxns, NEW nx, NEW pd, NEW qu, NEW fe
  PROVE  Dropped(n, nx, pd, qu, fe) \subseteq Txns
  BY TransactionConstants DEF Dropped, Txns
\* Handlers that complete transactions and leave the queues alone.
LEMMA QueuesStay ==
  ASSUME TxnInv, NEW S, S \subseteq Txns, Complete(S),
         UNCHANGED <<queue, windows>>
  PROVE  Told' /\ ReadyCommitIsWoken'
  <1>1. /\ completed' = completed \cup S
        /\ \A t \in S : notify[t] \subseteq cleared'
        /\ \A t \in Txns \ S : notify[t] \subseteq notify'[t]
        /\ cleared \subseteq cleared'
    BY CompleteTells, Zenon
  <1>2. ASSUME NEW w \in windows
        PROVE  /\ queue'[w] /= <<>> /\ Released(queue'[w][1], completed')
                    => w \in cleared'
               /\ \A i \in DOMAIN queue'[w] :
                    queue'[w][i].blocker \notin completed' \cup {None} =>
                      w \in notify'[queue'[w][i].blocker]
    BY <1>1, WindowStays, Zenon
  <1> QED BY <1>2, Zenon DEF Told, ReadyCommitIsWoken

LEMMA TimersInv ==
  ASSUME TxnInv, NEW t \in Txns, Deadline(t) \/ OrphanFenceSignalled(t)
  PROVE  TxnInv'
  <1>1. CASE Deadline(t)
    <2>1. {t} \subseteq Txns /\ Complete({t}) /\ UNCHANGED <<queue, windows>>
      BY <1>1, Zenon DEF Deadline, holderVars, surfaceVars
    <2>2. Told' /\ ReadyCommitIsWoken'
      BY <2>1, QueuesStay, Zenon
    <2>3. TypeOK'
      <3>1. /\ completed' \subseteq Txns /\ cleared' \subseteq Windows
            /\ notify' \in [Txns -> SUBSET Windows]
        BY <2>1, CompleteTells, Zenon
      <3> QED BY <1>1, <3>1, Zenon DEF Deadline, TxnInv, TypeOK, Handler, holderVars,
                 surfaceVars
    <2>4. Past' /\ WaitHasDeadline'
      BY <1>1, <2>1, Zenon DEF Deadline, TxnInv, Past, WaitHasDeadline, Complete,
         holderVars, surfaceVars
    <2> QED BY <2>2, <2>3, <2>4, Zenon DEF TxnInv
  <1>2. CASE OrphanFenceSignalled(t)
    <2> DEFINE S == Dropped(created, next, pending, queue, fences')
    <2>1. S \subseteq Txns
      BY DroppedAreTxns, Zenon DEF TxnInv, TypeOK
    <2>2. Complete(S) /\ UNCHANGED <<queue, windows>>
      BY <1>2, Zenon DEF OrphanFenceSignalled, surfaceVars
    <2> HIDE DEF S
    <2>3. Told' /\ ReadyCommitIsWoken'
      BY <2>1, <2>2, QueuesStay, Zenon
    <2>4. TypeOK'
      <3>1. /\ completed' \subseteq Txns /\ cleared' \subseteq Windows
            /\ notify' \in [Txns -> SUBSET Windows]
        BY <2>1, <2>2, CompleteTells, Zenon
      <3> QED BY <1>2, <3>1, Zenon DEF OrphanFenceSignalled, TxnInv, TypeOK, Handler,
                 surfaceVars
    <2>5. Past' /\ WaitHasDeadline'
      BY <1>2, <2>2, Zenon DEF OrphanFenceSignalled, TxnInv, Past, WaitHasDeadline,
         Complete, surfaceVars
    <2> QED BY <2>3, <2>4, <2>5, Zenon DEF TxnInv
  <1> QED BY <1>1, <1>2, Zenon

LEMMA LayoutInv ==
  ASSUME TxnInv,
         \/ \E w \in Windows : ChangeOther(w)
         \/ \E sizes \in Layouts : Rearrange(sizes) \/ RearrangeTogether(sizes)
  PROVE  TxnInv'
  <1>1. CASE \E w \in Windows : ChangeOther(w)
    <2>1. TypeOK'
      BY <1>1, Zenon DEF ChangeOther, Handler, holderVars, txnVars, TxnInv, TypeOK
    <2>2. Past' /\ Told' /\ ReadyCommitIsWoken' /\ WaitHasDeadline'
      BY <1>1, Zenon DEF ChangeOther, holderVars, txnVars, TxnInv, Past, Told,
         ReadyCommitIsWoken, WaitHasDeadline
    <2> QED BY <2>1, <2>2, Zenon DEF TxnInv
  <1>2. ASSUME NEW sizes \in Layouts, Rearrange(sizes)
        PROVE  TxnInv'
    <2>1. wanted' \in [Windows -> Sizes]
      BY <1>2, Zenon DEF Rearrange, Layouts, TxnInv, TypeOK
    <2>2. TypeOK'
      BY <1>2, <2>1, Zenon DEF Rearrange, Handler, holderVars, txnVars, TxnInv, TypeOK
    <2>3. Past' /\ Told' /\ ReadyCommitIsWoken' /\ WaitHasDeadline'
      BY <1>2, Zenon DEF Rearrange, holderVars, txnVars, TxnInv, Past, Told,
         ReadyCommitIsWoken, WaitHasDeadline
    <2> QED BY <2>2, <2>3, Zenon DEF TxnInv
  <1>3. ASSUME NEW sizes \in Layouts, RearrangeTogether(sizes)
        PROVE  TxnInv'
    <2> DEFINE t  == created + 1
               nx == [w \in Windows |-> IF w \in windows THEN t ELSE next[w]]
               S  == Dropped(t, nx, pending, queue, fences)
    <2>1. t \in 0..MaxTxns /\ t \in Txns /\ created < t
      BY <1>3, TransactionConstants DEF RearrangeTogether, TxnInv, TypeOK, Txns
    <2>2. S \subseteq Txns
      BY <2>1, DroppedAreTxns, Zenon
    <2>3. Complete(S) /\ UNCHANGED <<queue, windows>>
      BY <1>3, Zenon DEF RearrangeTogether
    <2> HIDE DEF S
    <2>4. Told' /\ ReadyCommitIsWoken'
      BY <2>2, <2>3, QueuesStay, Zenon
    <2>5. TypeOK'
      <3>1. /\ completed' \subseteq Txns /\ cleared' \subseteq Windows
            /\ notify' \in [Txns -> SUBSET Windows]
        BY <2>2, <2>3, CompleteTells, Zenon
      <3>2. wanted' \in [Windows -> Sizes] /\ next' \in [Windows -> Txns \cup {None}]
            /\ created' \in 0..MaxTxns
        BY <1>3, <2>1, Zenon DEF RearrangeTogether, Layouts, TxnInv, TypeOK
      <3> QED BY <1>3, <3>1, <3>2, Zenon
                 DEF RearrangeTogether, TxnInv, TypeOK, Handler
    <2>6. Past'
      <3>1. created' = t /\ next' = nx /\ UNCHANGED <<pending, fences>>
        BY <1>3, Zenon DEF RearrangeTogether
      <3>2. PastUpTo(t)
        <4>1. t \in Nat /\ created <= t
          BY DEF TxnInv, TypeOK
        <4> HIDE DEF t
        <4> QED BY <4>1, PastGrows, Zenon
      <3> QED BY <2>1, <2>3, <3>1, <3>2 DEF PastUpTo, Past
    <2>7. WaitHasDeadline'
      BY <1>3, <2>3, Zenon DEF RearrangeTogether, TxnInv, WaitHasDeadline, Complete
    <2> QED BY <2>4, <2>5, <2>6, <2>7, Zenon DEF TxnInv
  <1> QED BY <1>1, <1>2, <1>3, Zenon

-----------------------------------------------------------------------------
(* Handlers that run the queue of a window.                                *)

\* The commits of q, a queue of w, wait for what will complete and tell w.
Waits(w, q) ==
    \A j \in DOMAIN q :
        /\ q[j].blocker \notin completed' \cup {None} =>
             w \in notify'[q[j].blocker]
        /\ q[j].blocker \in completed' \cup timers' \cup {None}
        /\ q[j].holds <= created

\* What remains of a queue that was run is blocked, and as good as the queue.
LEMMA QueueRuns ==
  ASSUME NEW w, NEW q \in Seq(Commits), Waits(w, q),
         queue'[w] = RestOf(q, completed')
  PROVE  /\ queue'[w] \in Seq(Commits)
         /\ queue'[w] /= <<>> => ~Released(queue'[w][1], completed')
         /\ Waits(w, queue'[w])
  <1>1. /\ RestOf(q, completed') \in Seq(Commits)
        /\ RestOf(q, completed') /= <<>>
             => ~Released(RestOf(q, completed')[1], completed')
        /\ \A i \in DOMAIN RestOf(q, completed') :
              \E j \in DOMAIN q : RestOf(q, completed')[i] = q[j]
    BY RestIsBlocked
  <1>2. \A i \in DOMAIN queue'[w] : \E j \in DOMAIN q : queue'[w][i] = q[j]
    BY <1>1, Zenon
  <1>3. Waits(w, queue'[w])
    BY <1>2, Zenon DEF Waits
  <1> QED BY <1>1, <1>3, Zenon

\* A handler runs the queue q of w, and tells the others what is completed.
LEMMA OneQueueRuns ==
  ASSUME TxnInv, NEW w \in windows, NEW S, NEW q \in Seq(Commits),
         created' = created, windows' = windows,
         completed' = completed \cup S,
         timers \subseteq timers', closing' = closing,
         \A t \in S : notify[t] \subseteq cleared',
         \A t \in Txns \ S : notify[t] \subseteq notify'[t],
         cleared \subseteq cleared',
         queue' = [queue EXCEPT ![w] = RestOf(q, completed')],
         applied' = [applied EXCEPT ![w] = AppliedOf(q, completed', applied[w])],
         Waits(w, q)
  PROVE  /\ queue' \in [Windows -> Seq(Commits)]
         /\ applied' \in [Windows -> Nat \ {0}]
         /\ \A v \in Windows : \A i \in DOMAIN queue'[v] :
              queue'[v][i].holds <= created
         /\ Told' /\ ReadyCommitIsWoken' /\ WaitHasDeadline'
  <1>1. /\ w \in Windows /\ queue \in [Windows -> Seq(Commits)]
        /\ applied \in [Windows -> Nat \ {0}] /\ created \in Nat
        /\ windows \subseteq Windows
    BY DEF TxnInv, TypeOK
  <1>2. /\ queue'[w] = RestOf(q, completed')
        /\ \A v \in Windows \ {w} : queue'[v] = queue[v]
    BY <1>1, Zenon
  <1>3. /\ queue'[w] \in Seq(Commits)
        /\ queue'[w] /= <<>> => ~Released(queue'[w][1], completed')
        /\ Waits(w, queue'[w])
    BY <1>2, QueueRuns, Zenon
  <1>4. queue' \in [Windows -> Seq(Commits)]
    <2>1. RestOf(q, completed') \in Seq(Commits)
      BY <1>2, <1>3, Zenon
    <2> QED BY <1>1, <2>1, Zenon
  <1>5. applied' \in [Windows -> Nat \ {0}]
    <2>1. applied[w] \in Nat \ {0}
      BY <1>1, Zenon
    <2>2. AppliedOf(q, completed', applied[w]) \in Nat \ {0}
      BY <2>1, AppliedIsSerial, Zenon
    <2> QED BY <1>1, <2>2, Zenon
  <1>6. \A v \in Windows : \A i \in DOMAIN queue'[v] : queue'[v][i].holds <= created
    <2>1. \A i \in DOMAIN queue'[w] : queue'[w][i].holds <= created
      BY <1>3, Zenon DEF Waits
    <2>2. \A v \in Windows \ {w} : \A i \in DOMAIN queue[v] :
            queue[v][i].holds <= created
      BY Zenon DEF TxnInv, Past
    <2> QED BY <1>2, <2>1, <2>2, Zenon
  <1>7. ASSUME NEW v \in windows
        PROVE  /\ queue'[v] /= <<>> /\ Released(queue'[v][1], completed')
                    => v \in cleared'
               /\ \A i \in DOMAIN queue'[v] :
                    queue'[v][i].blocker \notin completed' \cup {None} =>
                      v \in notify'[queue'[v][i].blocker]
    <2>1. CASE v = w
      BY <1>3, <2>1, Zenon DEF Waits
    <2>2. CASE v /= w
      <3>1. queue'[v] = queue[v]
        BY <1>1, <1>2, <2>2, Zenon
      <3> QED BY <3>1, WindowStays, Zenon
    <2> QED BY <2>1, <2>2, Zenon
  <1>8. Told' /\ ReadyCommitIsWoken'
    BY <1>7, Zenon DEF Told, ReadyCommitIsWoken
  <1>9. WaitHasDeadline'
    <2>1. closing' \subseteq completed' \cup timers'
      BY Zenon DEF TxnInv, WaitHasDeadline
    <2>2. ASSUME NEW v \in windows, NEW i \in DOMAIN queue'[v]
          PROVE  queue'[v][i].blocker \in completed' \cup timers' \cup {None}
      <3>1. CASE v = w
        <4>1. i \in DOMAIN queue'[w] /\ Waits(w, queue'[w])
          BY <1>3, <2>2, <3>1, Zenon
        <4> QED BY <3>1, <4>1, Zenon DEF Waits
      <3>2. CASE v /= w
        <4>1. queue'[v] = queue[v]
          BY <1>1, <1>2, <3>2, Zenon
        <4>2. queue[v][i].blocker \in completed \cup timers \cup {None}
          BY <4>1, Zenon DEF TxnInv, WaitHasDeadline
        <4> QED BY <4>1, <4>2
      <3> QED BY <3>1, <3>2, Zenon
    <2> QED BY <2>1, <2>2, Zenon DEF WaitHasDeadline
  <1> QED BY <1>4, <1>5, <1>6, <1>8, <1>9, Zenon

\* take_pending_transaction() returns one of those it takes.
LEMMA NewestIsOne ==
  ASSUME NEW ps, ps \subseteq Nat \X Txns, NEW s \in Nat,
         \A p \in ps : p[1] <= s
  PROVE  NewestOf(ps) = None \/ \E p \in ps : NewestOf(ps) = p[2]
  <1>1. CASE ps = {}
    BY <1>1, Zenon DEF NewestOf
  <1>2. CASE ps /= {}
    <2> DEFINE T == {s - p[1] : p \in ps}
    <2>1. T \subseteq Nat /\ T /= {}
      BY <1>2
    <2>2. PICK n \in T : \A m \in T : n <= m
      BY <2>1, LeastNat, Zenon
    <2>3. PICK p \in ps : n = s - p[1]
      BY <2>2, Zenon
    <2>4. \A r \in ps : r[1] <= p[1]
      <3> SUFFICES ASSUME NEW r \in ps PROVE r[1] <= p[1]
        BY Zenon
      <3>1. s - p[1] <= s - r[1]
        BY <2>2, <2>3, Zenon
      <3>2. r[1] \in Nat /\ p[1] \in Nat
        BY Zenon
      <3> QED BY <3>1, <3>2
    <2>5. \E x \in ps : \A r \in ps : r[1] <= x[1]
      BY <2>4, Zenon
    <2> QED BY <1>2, <2>5, Zenon DEF NewestOf
  <1> QED BY <1>1, <1>2, Zenon

LEMMA FenceInv ==
  ASSUME TxnInv, NEW w \in Windows, FenceSignalled(w)
  PROVE  TxnInv'
  <1> DEFINE Q(i) == [queue EXCEPT ![w][i].fence = FALSE, ![w][i].holds = None]
  <1>1. PICK i \in DOMAIN queue[w] :
          LET gone == Dropped(created, next, pending, Q(i), fences)
          IN  /\ Handler
              /\ w \in windows
              /\ Complete(gone)
              /\ queue' = [Q(i) EXCEPT ![w] = RestOf(Q(i)[w], completed \cup gone)]
              /\ applied' = [applied EXCEPT
                               ![w] = AppliedOf(Q(i)[w], completed \cup gone, @)]
              /\ UNCHANGED <<wanted, other, configures, acked, windows, next,
                             pending, fences, created, timers, expired, closing,
                             asked>>
    BY Zenon DEF FenceSignalled
  <1> DEFINE S == Dropped(created, next, pending, Q(i), fences)
             c == [queue[w][i] EXCEPT !.fence = FALSE, !.holds = None]
             q == [queue[w] EXCEPT ![i] = c]
  <1>2. S \subseteq Txns
    BY DroppedAreTxns, Zenon DEF TxnInv, TypeOK
  <1>3. Complete(S)
    BY <1>1, Zenon
  <1>4. queue \in [Windows -> Seq(Commits)] /\ queue[w] \in Seq(Commits)
    BY Zenon DEF TxnInv, TypeOK
  <1>5. Q(i) = [queue EXCEPT ![w] = q]
    BY <1>4, Zenon
  <1>6. q \in Seq(Commits) /\ DOMAIN q = DOMAIN queue[w]
    <2>1. queue[w][i] \in Commits
      BY <1>4, CommitFields, Zenon
    <2>2. c \in Commits
      BY <2>1, Zenon DEF Commits, None
    <2> HIDE DEF c
    <2> QED BY <1>4, <2>2
  <1>7. \A j \in DOMAIN q : /\ q[j].blocker = queue[w][j].blocker
                            /\ q[j].holds \in {queue[w][j].holds, None}
    <2> SUFFICES ASSUME NEW j \in DOMAIN q
                 PROVE  /\ q[j].blocker = queue[w][j].blocker
                        /\ q[j].holds \in {queue[w][j].holds, None}
      BY Zenon
    <2>1. queue[w][j] \in Commits
      BY <1>4, <1>6, CommitFields, Zenon
    <2>2. CASE j = i
      BY <1>4, <2>1, <2>2, Zenon DEF Commits
    <2>3. CASE j /= i
      BY <1>4, <1>6, <2>3, Zenon
    <2> QED BY <2>2, <2>3, Zenon
  <1>8. /\ queue' = [queue EXCEPT ![w] = RestOf(q, completed \cup S)]
        /\ applied' = [applied EXCEPT ![w] = AppliedOf(q, completed \cup S, applied[w])]
    BY <1>1, <1>4, <1>5, <1>6, Zenon DEF TxnInv, TypeOK
  <1>9. /\ Handler /\ w \in windows
        /\ UNCHANGED <<wanted, other, configures, acked, windows, next, pending,
                       fences, created, timers, expired, closing, asked>>
    BY <1>1, Zenon
  <1> HIDE DEF S, q, Q, c
  <1>10. /\ completed' = completed \cup S
         /\ \A t \in S : notify[t] \subseteq cleared'
         /\ \A t \in Txns \ S : notify[t] \subseteq notify'[t]
         /\ cleared \subseteq cleared'
         /\ completed' \subseteq Txns
         /\ notify' \in [Txns -> SUBSET Windows]
         /\ cleared' \subseteq Windows
    BY <1>2, <1>3, CompleteTells, Zenon
  <1>11. Waits(w, q)
    <2> SUFFICES ASSUME NEW j \in DOMAIN q
                 PROVE  /\ q[j].blocker \notin completed' \cup {None} =>
                             w \in notify'[q[j].blocker]
                        /\ q[j].blocker \in completed' \cup timers' \cup {None}
                        /\ q[j].holds <= created
      BY Zenon DEF Waits
    <2>1. j \in DOMAIN queue[w] /\ queue[w][j].blocker \in Txns \cup {None}
      BY <1>4, <1>6, CommitFields, Zenon
    <2>2. /\ queue[w][j].blocker \notin completed \cup {None} =>
               w \in notify[queue[w][j].blocker]
          /\ queue[w][j].blocker \in completed \cup timers \cup {None}
      BY <1>9, <2>1, Zenon DEF TxnInv, Told, WaitHasDeadline
    <2>3. queue[w][j].holds <= created
      BY <2>1, Zenon DEF TxnInv, Past
    <2>4. None <= created
      BY DEF TxnInv, TypeOK, None
    <2> QED BY <1>7, <1>9, <1>10, <2>1, <2>2, <2>3, <2>4, Zenon
  <1>12. /\ queue' \in [Windows -> Seq(Commits)]
         /\ applied' \in [Windows -> Nat \ {0}]
         /\ \A v \in Windows : \A j \in DOMAIN queue'[v] :
              queue'[v][j].holds <= created
         /\ Told' /\ ReadyCommitIsWoken' /\ WaitHasDeadline'
    BY <1>6, <1>8, <1>9, <1>10, <1>11, OneQueueRuns, Zenon
  <1>13. TypeOK'
    BY <1>9, <1>10, <1>12, Zenon DEF TxnInv, TypeOK, Handler
  <1>14. Past'
    BY <1>9, <1>12, Zenon DEF TxnInv, Past
  <1> QED BY <1>12, <1>13, <1>14, Zenon DEF TxnInv

LEMMA CommitInv ==
  ASSUME TxnInv, NEW w \in Windows, NEW serial \in 1..MaxConfigures,
         Commit(w, serial)
  PROVE  TxnInv'
  <1> DEFINE taken == TakenUpTo(w, serial)
             t     == NewestOf(taken)
             live  == t /= None /\ t \notin completed
             rest  == [pending EXCEPT ![w] = @ \ taken]
             last  == ~Held(t, next, rest, queue, fences)
             c     == [serial  |-> serial,
                       blocker |-> IF live /\ ~last THEN t ELSE None,
                       fence   |-> w \in Fenced,
                       holds   |-> IF live /\ w \in Fenced THEN t ELSE None]
             qs    == [queue EXCEPT ![w] = Append(@, c)]
             S     == Dropped(created, next, rest, qs, fences)
             told  == IF live /\ ~last THEN [notify EXCEPT ![t] = @ \cup {w}]
                                       ELSE notify
             q     == Append(queue[w], c)
  <1>1. /\ Handler /\ w \in windows
        /\ acked' = [acked EXCEPT ![w] = serial]
        /\ pending' = rest
        /\ timers' = timers \cup (IF live THEN {t} ELSE {})
        /\ completed' = completed \cup S
        /\ cleared' = cleared \cup UNION {told[u] : u \in S}
        /\ notify' = [u \in Txns |-> IF u \in S THEN {} ELSE told[u]]
        /\ queue' = [qs EXCEPT ![w] = RestOf(qs[w], completed')]
        /\ applied' = [applied EXCEPT ![w] = AppliedOf(qs[w], completed', @)]
        /\ UNCHANGED <<wanted, other, configures, windows, next, fences, created,
                       expired, closing, asked>>
    BY Zenon DEF Commit, RegisterDeadline
  <1>2. S \subseteq Txns
    BY DroppedAreTxns, Zenon DEF TxnInv, TypeOK
  <1>3. /\ queue \in [Windows -> Seq(Commits)] /\ queue[w] \in Seq(Commits)
        /\ pending[w] \subseteq Nat \X Txns
        /\ created \in Nat /\ serial \in Nat \ {0} /\ None \in Nat
    BY TransactionConstants DEF TxnInv, TypeOK, None
  <1>4. t \in Txns \cup {None} /\ t <= created
    <2>1. taken \subseteq pending[w] /\ \A p \in taken : p[1] <= serial
      BY Zenon DEF TakenUpTo
    <2> HIDE DEF taken
    <2>2. t = None \/ \E p \in taken : t = p[2]
      BY <1>3, <2>1, NewestIsOne, Zenon
    <2>3. \A p \in taken : p[2] \in Txns /\ p[2] <= created
      BY <1>3, <2>1, Zenon DEF TxnInv, Past
    <2>4. None <= created
      BY <1>3 DEF None
    <2> QED BY <2>2, <2>3, <2>4, Zenon
  <1>5. pending' \in [Windows -> SUBSET (Nat \X Txns)]
        /\ \A v \in Windows : pending'[v] \subseteq pending[v]
    BY <1>1, Zenon DEF TxnInv, TypeOK
  <1>6. qs[w] = q /\ qs = [queue EXCEPT ![w] = q]
    BY <1>3, Zenon
  <1>7. /\ queue' = [queue EXCEPT ![w] = RestOf(q, completed')]
        /\ applied' = [applied EXCEPT ![w] = AppliedOf(q, completed', applied[w])]
    <2> HIDE DEF q, S, qs
    <2> QED BY <1>1, <1>3, <1>6, Zenon DEF TxnInv, TypeOK
  <1> HIDE DEF taken, t, rest, S, last
  <1>8. c \in Commits /\ c.blocker \in {t, None} /\ c.holds \in {t, None}
        /\ (c.blocker /= None => live /\ ~last /\ c.blocker = t)
    <2>1. c.blocker \in {t, None} /\ c.holds \in {t, None}
          /\ (c.blocker /= None => live /\ ~last /\ c.blocker = t)
      BY Zenon
    <2>2. serial \in Nat \ {0} /\ t \in Txns \cup {None}
      BY <1>3, <1>4, Zenon
    <2>3. c \in [serial : Nat \ {0}, blocker : {t, None}, fence : BOOLEAN,
                 holds : {t, None}]
      BY <2>2
    <2> HIDE DEF c
    <2> QED BY <2>1, <2>2, <2>3, Zenon DEF Commits
  <1>9. /\ told \in [Txns -> SUBSET Windows]
        /\ \A u \in Txns : notify[u] \subseteq told[u]
        /\ (live /\ ~last => w \in told[t])
    BY <1>4, Zenon DEF TxnInv, TypeOK
  <1>10. /\ timers \subseteq timers' /\ timers' \subseteq Txns
         /\ (live => t \in timers')
    BY <1>1, <1>4, Zenon DEF TxnInv, TypeOK
  <1> HIDE DEF told, live, c, qs
  <1>11. q \in Seq(Commits)
    <2>1. queue[w] \in Seq(Commits) /\ c \in Commits
      BY <1>3, <1>8, Zenon
    <2> QED BY <2>1
  <1>12. /\ completed' \subseteq Txns
         /\ cleared' \subseteq Windows
         /\ notify' \in [Txns -> SUBSET Windows]
         /\ \A u \in S : notify[u] \subseteq cleared'
         /\ \A u \in Txns \ S : notify'[u] = told[u] /\ notify[u] \subseteq notify'[u]
         /\ cleared \subseteq cleared'
    BY <1>1, <1>2, <1>9 DEF TxnInv, TypeOK
  <1>13. Waits(w, q)
    <2> SUFFICES ASSUME NEW j \in DOMAIN q
                 PROVE  /\ q[j].blocker \notin completed' \cup {None} =>
                             w \in notify'[q[j].blocker]
                        /\ q[j].blocker \in completed' \cup timers' \cup {None}
                        /\ q[j].holds <= created
      BY Zenon DEF Waits
    <2>1. CASE j \in DOMAIN queue[w]
      <3>1. q[j] = queue[w][j]
        BY <1>3, <2>1
      <3>2. queue[w][j].blocker \in Txns \cup {None}
        BY <1>3, <2>1, CommitFields, Zenon
      <3>3. /\ queue[w][j].blocker \notin completed \cup {None} =>
                 w \in notify[queue[w][j].blocker]
            /\ queue[w][j].blocker \in completed \cup timers \cup {None}
            /\ queue[w][j].holds <= created
        BY <1>1, <2>1, Zenon DEF TxnInv, Told, WaitHasDeadline, Past
      <3> HIDE DEF q
      <3> QED BY <1>1, <1>10, <1>12, <3>1, <3>2, <3>3, Zenon
    <2>2. CASE j \notin DOMAIN queue[w]
      <3>1. q[j] = c
        BY <1>3, <2>2
      <3>2. c.holds <= created
        <4>1. c.holds = t \/ c.holds = None
          BY <1>8, Zenon
        <4>2. t <= created /\ None <= created
          BY <1>3, <1>4 DEF None
        <4> QED BY <4>1, <4>2, Zenon
      <3>3. c.blocker \in completed' \cup timers' \cup {None}
        BY <1>8, <1>10, Zenon
      <3>4. c.blocker \notin completed' \cup {None} => w \in notify'[c.blocker]
        BY <1>1, <1>4, <1>8, <1>9, <1>12
      <3> QED BY <3>1, <3>2, <3>3, <3>4, Zenon
    <2> QED BY <2>1, <2>2, Zenon
  <1> HIDE DEF q
  <1>14. /\ queue' \in [Windows -> Seq(Commits)]
         /\ applied' \in [Windows -> Nat \ {0}]
         /\ \A v \in Windows : \A j \in DOMAIN queue'[v] :
              queue'[v][j].holds <= created
         /\ Told' /\ ReadyCommitIsWoken' /\ WaitHasDeadline'
    BY <1>1, <1>7, <1>10, <1>11, <1>12, <1>13, OneQueueRuns, Zenon
  <1>15. TypeOK'
    BY <1>1, <1>3, <1>5, <1>10, <1>12, <1>14, Zenon DEF TxnInv, TypeOK, Handler
  <1>16. Past'
    BY <1>1, <1>5, <1>14, Zenon DEF TxnInv, Past
  <1> QED BY <1>14, <1>15, <1>16, Zenon DEF TxnInv

LEMMA DestroyedInv ==
  ASSUME TxnInv, NEW d \in Windows, NEW sizes \in Layouts,
         ToplevelDestroyed(d, sizes)
  PROVE  TxnInv'
  <1> DEFINE t    == created + 1
             left == windows \ {d}
             nx   == [w \in Windows |-> IF w \in left THEN t
                                        ELSE IF w = d THEN None ELSE next[w]]
             pd   == [pending EXCEPT ![d] = {}]
             held == {queue[d][i].holds : i \in DOMAIN queue[d]} \ {None}
             qu   == [queue EXCEPT ![d] = <<>>]
             S    == Dropped(t, nx, pd, qu, fences \cup held)
  <1>1. /\ Handler /\ d \in windows
        /\ created' = t /\ windows' = left /\ other' = other \ {d}
        /\ wanted' = [w \in Windows |-> IF w \in left THEN sizes[w] ELSE wanted[w]]
        /\ closing' = closing \cup {t}
        /\ next' = nx /\ pending' = pd /\ queue' = qu
        /\ fences' = fences \cup held
        /\ timers' = timers \cup (IF left /= {} THEN {t} ELSE {})
        /\ Complete(S)
        /\ UNCHANGED <<configures, acked, applied, expired, asked>>
    BY Zenon DEF ToplevelDestroyed, RegisterDeadline
  <1>2. t \in Txns /\ created < t /\ t \in 0..MaxTxns /\ t \in Nat
        /\ None \in Nat /\ None < t /\ None \notin Txns
    <2>1. created < MaxTxns
      BY Zenon DEF ToplevelDestroyed
    <2>2. created \in Nat /\ MaxTxns \in Nat
      BY TransactionConstants DEF TxnInv, TypeOK
    <2> QED BY <2>1, <2>2 DEF Txns, None
  <1>3. S \subseteq Txns
    BY <1>2, DroppedAreTxns, Zenon
  <1>4. PastUpTo(t)
    BY <1>2, PastGrows DEF TxnInv, TypeOK
  <1>5. held \subseteq Txns /\ \A u \in held : u <= created
    <2>1. queue[d] \in Seq(Commits)
      BY Zenon DEF TxnInv, TypeOK
    <2>2. \A i \in DOMAIN queue[d] : queue[d][i].holds \in Txns \cup {None}
      BY <2>1, CommitFields, Zenon
    <2>3. \A i \in DOMAIN queue[d] : queue[d][i].holds <= created
      BY Zenon DEF TxnInv, Past
    <2> QED BY <2>2, <2>3, Zenon
  <1> HIDE DEF held
  <1>6. left = {} => t \in completed \cup S
    <2> SUFFICES ASSUME left = {}, t \notin completed PROVE t \in S
      BY Zenon
    <2>1. \A x : x <= created => x /= t
      BY <1>2 DEF TxnInv, TypeOK
    <2>2. None /= t /\ t \in 1..t
      BY <1>2 DEF TxnInv, TypeOK
    <2> HIDE DEF t
    <2>3. t \notin fences \cup held
      BY <1>5, <2>1, Zenon DEF TxnInv, Past
    <2>4. ASSUME NEW w \in Windows
          PROVE  /\ nx[w] /= t
                 /\ \A p \in pd[w] : p[2] /= t
                 /\ \A i \in DOMAIN qu[w] : qu[w][i].holds /= t
      <3>1. nx[w] /= t
        BY <2>1, <2>2, Zenon DEF TxnInv, Past
      <3>2. \A p \in pd[w] : p[2] /= t
        BY <2>1, Zenon DEF TxnInv, TypeOK, Past
      <3>3. \A i \in DOMAIN qu[w] : qu[w][i].holds /= t
        <4>1. CASE w = d
          BY <4>1 DEF TxnInv, TypeOK
        <4>2. CASE w /= d
          <5>1. qu[w] = queue[w]
            BY <4>2, Zenon DEF TxnInv, TypeOK
          <5>2. \A i \in DOMAIN queue[w] : queue[w][i].holds <= created
            BY Zenon DEF TxnInv, Past
          <5> HIDE DEF qu
          <5> QED BY <2>1, <5>1, <5>2, Zenon
        <4> QED BY <4>1, <4>2, Zenon
      <3> QED BY <3>1, <3>2, <3>3, Zenon
    <2> HIDE DEF nx, pd, qu
    <2>5. ~Held(t, nx, pd, qu, fences \cup held)
      BY <2>3, <2>4, Zenon DEF Held
    <2> QED BY <2>2, <2>5, Zenon DEF Dropped
  <1> HIDE DEF S, t
  <1>7. /\ completed' = completed \cup S
        /\ \A u \in S : notify[u] \subseteq cleared'
        /\ \A u \in Txns \ S : notify[u] \subseteq notify'[u]
        /\ cleared \subseteq cleared'
        /\ completed' \subseteq Txns
        /\ notify' \in [Txns -> SUBSET Windows]
        /\ cleared' \subseteq Windows
    BY <1>1, <1>3, CompleteTells, Zenon
  <1>8. /\ queue' \in [Windows -> Seq(Commits)]
        /\ \A w \in windows' : w \in windows /\ w \in Windows /\ queue'[w] = queue[w]
        /\ queue'[d] = <<>>
        /\ \A w \in Windows \ {d} : queue'[w] = queue[w]
    <2>1. queue' = qu /\ windows' = left
      BY <1>1, Zenon
    <2>2. queue \in [Windows -> Seq(Commits)] /\ windows \subseteq Windows
      BY Zenon DEF TxnInv, TypeOK
    <2>3. <<>> \in Seq(Commits)
      OBVIOUS
    <2> QED BY <2>1, <2>2, <2>3, Zenon
  <1>9. Told' /\ ReadyCommitIsWoken'
    <2>1. ASSUME NEW w \in windows'
          PROVE  /\ queue'[w] /= <<>> /\ Released(queue'[w][1], completed')
                      => w \in cleared'
                 /\ \A i \in DOMAIN queue'[w] :
                      queue'[w][i].blocker \notin completed' \cup {None} =>
                        w \in notify'[queue'[w][i].blocker]
      BY <1>7, <1>8, WindowStays, Zenon
    <2> QED BY <2>1, Zenon DEF Told, ReadyCommitIsWoken
  <1>10. WaitHasDeadline'
    <2>1. closing' \subseteq completed' \cup timers'
      BY <1>1, <1>6, <1>7, Zenon DEF TxnInv, WaitHasDeadline
    <2>2. timers \subseteq timers'
      BY <1>1, Zenon
    <2> QED BY <1>7, <1>8, <2>1, <2>2, Zenon DEF TxnInv, WaitHasDeadline
  <1>11. TypeOK'
    <2>1. /\ wanted' \in [Windows -> Sizes] /\ next' \in [Windows -> Txns \cup {None}]
          /\ pending' \in [Windows -> SUBSET (Nat \X Txns)]
      BY <1>1, <1>2, Zenon DEF TxnInv, TypeOK, Layouts
    <2>2. /\ windows' \subseteq Windows /\ other' \subseteq Windows
          /\ fences' \subseteq Txns /\ timers' \subseteq Txns
          /\ closing' \subseteq Txns
      BY <1>1, <1>2, <1>5, Zenon DEF TxnInv, TypeOK
    <2> QED BY <1>1, <1>2, <1>7, <1>8, <2>1, <2>2, Zenon DEF TxnInv, TypeOK, Handler
  <1>12. Past'
    <2>1. ASSUME NEW w \in Windows
          PROVE  /\ next'[w] <= t
                 /\ \A p \in pending'[w] : p[2] <= t
                 /\ \A i \in DOMAIN queue'[w] : queue'[w][i].holds <= t
      <3>1. next'[w] <= t
        <4>1. next'[w] \in {t, None, next[w]}
          BY <1>1, Zenon
        <4>2. next[w] <= t
          BY <1>4, Zenon DEF PastUpTo
        <4>3. None <= t /\ t <= t
          BY <1>2
        <4> QED BY <4>1, <4>2, <4>3, Zenon
      <3>2. pending'[w] \subseteq pending[w]
        BY <1>1, Zenon DEF TxnInv, TypeOK
      <3>3. \A i \in DOMAIN queue'[w] : queue'[w][i].holds <= t
        <4>1. CASE w = d
          BY <1>8, <4>1
        <4>2. CASE w /= d
          BY <1>4, <1>8, <4>2, Zenon DEF PastUpTo
        <4> QED BY <4>1, <4>2, Zenon
      <3> QED BY <1>4, <3>1, <3>2, <3>3, Zenon DEF PastUpTo
    <2>2. \A u \in fences' : u <= t
      <3>1. \A u \in held : u <= t
        <4>1. \A u \in held : u \in Nat
          BY <1>5 DEF Txns
        <4>2. created \in Nat
          BY DEF TxnInv, TypeOK
        <4> QED BY <1>2, <1>5, <4>1, <4>2
      <3> QED BY <1>1, <1>4, <3>1, Zenon DEF PastUpTo
    <2> QED BY <1>1, <2>1, <2>2, Zenon DEF Past
  <1> QED BY <1>9, <1>10, <1>11, <1>12, Zenon DEF TxnInv

LEMMA RefreshInv ==
  ASSUME TxnInv, Refresh
  PROVE  TxnInv'
  <1> DEFINE S == Dropped(created, next', pending', queue', fences)
  <1>0. /\ queue' = [w \in Windows |->
                       IF w \in cleared THEN RestOf(queue[w], completed)
                       ELSE queue[w]]
        /\ applied' = [w \in Windows |->
                       IF w \in cleared
                       THEN AppliedOf(queue[w], completed, applied[w])
                       ELSE applied[w]]
    BY Zenon DEF Refresh
  <1>1. /\ phase' = "drawn"
        /\ completed' = completed \cup S
        /\ cleared' = UNION {notify[t] : t \in S}
        /\ notify' = [t \in Txns |-> IF t \in S THEN {} ELSE notify[t]]
        /\ UNCHANGED <<wanted, acked, windows, fences, created, timers, expired,
                       closing>>
    BY Zenon DEF Refresh
  <1>2. S \subseteq Txns
    BY DroppedAreTxns, Zenon DEF TxnInv, TypeOK
  <1> HIDE DEF S
  <1>3. /\ completed' \subseteq Txns /\ cleared' \subseteq Windows
        /\ notify' \in [Txns -> SUBSET Windows]
    BY <1>1, <1>2 DEF TxnInv, TypeOK
  <1>4. ASSUME NEW w \in Windows
        PROVE  /\ queue'[w] \in Seq(Commits)
               /\ applied'[w] \in Nat \ {0}
               /\ \A i \in DOMAIN queue'[w] :
                    \E j \in DOMAIN queue[w] : queue'[w][i] = queue[w][j]
    <2>1. queue[w] \in Seq(Commits) /\ applied[w] \in Nat \ {0}
      BY Zenon DEF TxnInv, TypeOK
    <2>2. CASE w \in cleared
      <3>1. /\ queue'[w] = RestOf(queue[w], completed)
            /\ applied'[w] = AppliedOf(queue[w], completed, applied[w])
        BY <1>0, <2>2, Zenon
      <3>2. AppliedOf(queue[w], completed, applied[w]) \in Nat \ {0}
        BY <2>1, AppliedIsSerial, Zenon
      <3>3. /\ RestOf(queue[w], completed) \in Seq(Commits)
            /\ \A i \in DOMAIN RestOf(queue[w], completed) :
                 \E j \in DOMAIN queue[w] :
                    RestOf(queue[w], completed)[i] = queue[w][j]
        BY <2>1, RestIsBlocked
      <3> QED BY <3>1, <3>2, <3>3, Zenon
    <2>3. CASE w \notin cleared
      <3>1. queue'[w] = queue[w] /\ applied'[w] = applied[w]
        BY <1>0, <2>3, Zenon
      <3> QED BY <2>1, <3>1, Zenon
    <2> QED BY <2>2, <2>3, Zenon
  <1>5. ASSUME NEW w \in windows
        PROVE  queue'[w] /= <<>> => ~Released(queue'[w][1], completed)
    <2>1. w \in Windows /\ queue[w] \in Seq(Commits)
      BY Zenon DEF TxnInv, TypeOK
    <2>2. CASE w \in cleared
      <3>1. queue'[w] = RestOf(queue[w], completed)
        BY <1>0, <2>1, <2>2, Zenon
      <3> QED BY <2>1, <3>1, RestIsBlocked, Zenon
    <2>3. CASE w \notin cleared
      <3>1. queue'[w] = queue[w]
        BY <1>0, <2>1, <2>3, Zenon
      <3> QED BY <2>3, <3>1, Zenon DEF TxnInv, ReadyCommitIsWoken
    <2> QED BY <2>2, <2>3, Zenon
  <1>6. ASSUME NEW w \in windows, NEW i \in DOMAIN queue'[w]
        PROVE  /\ queue'[w][i].blocker \in Txns \cup {None}
               /\ queue'[w][i].blocker \notin completed \cup {None} =>
                    w \in notify[queue'[w][i].blocker]
               /\ queue'[w][i].blocker \in completed \cup timers \cup {None}
    <2>1. w \in Windows /\ queue[w] \in Seq(Commits)
      BY Zenon DEF TxnInv, TypeOK
    <2>2. PICK j \in DOMAIN queue[w] : queue'[w][i] = queue[w][j]
      BY <1>4, <2>1, Zenon
    <2>3. queue[w][j].blocker \in Txns \cup {None}
      BY <2>1, CommitFields, Zenon
    <2> QED BY <2>2, <2>3, Zenon DEF TxnInv, Told, WaitHasDeadline
  <1>7. Told'
    <2> SUFFICES ASSUME NEW w \in windows, NEW i \in DOMAIN queue'[w],
                        queue'[w][i].blocker \notin completed' \cup {None}
                 PROVE  w \in notify'[queue'[w][i].blocker]
      BY <1>1, Zenon DEF Told
    <2> DEFINE b == queue'[w][i].blocker
    <2>1. b \in Txns /\ b \notin S /\ w \in notify[b]
      BY <1>1, <1>6, Zenon
    <2> HIDE DEF b
    <2>2. w \in notify'[b]
      BY <1>1, <2>1, Zenon
    <2> QED BY <2>2, Zenon DEF b
  <1>8. ReadyCommitIsWoken'
    <2> SUFFICES ASSUME NEW w \in windows, queue'[w] /= <<>>,
                        Released(queue'[w][1], completed')
                 PROVE  w \in cleared'
      BY <1>1, Zenon DEF ReadyCommitIsWoken
    <2>1. queue'[w] \in Seq(Commits)
      BY <1>4, Zenon DEF TxnInv, TypeOK
    <2>2. 1 \in DOMAIN queue'[w]
      BY <2>1
    <2>3. ~Released(queue'[w][1], completed)
      BY <1>5, Zenon
    <2> DEFINE b == queue'[w][1].blocker
    <2>4. b \in completed' \cup {None} /\ b \notin completed \cup {None}
      BY <2>3, Zenon DEF Released
    <2>5. w \in notify[b]
      BY <1>6, <2>2, <2>4, Zenon
    <2> HIDE DEF b
    <2> QED BY <1>1, <2>4, <2>5, Zenon
  <1>9. WaitHasDeadline'
    <2>1. closing' \subseteq completed' \cup timers'
      BY <1>1, Zenon DEF TxnInv, WaitHasDeadline
    <2>2. ASSUME NEW w \in windows, NEW i \in DOMAIN queue'[w]
          PROVE  queue'[w][i].blocker \in completed' \cup timers' \cup {None}
      <3>1. queue'[w][i].blocker \in completed \cup timers \cup {None}
        BY <1>6, Zenon
      <3> QED BY <1>1, <3>1, Zenon
    <2>3. windows' = windows
      BY <1>1, Zenon
    <2> QED BY <2>1, <2>2, <2>3, Zenon DEF WaitHasDeadline
  <1>10. /\ configures' \in [Windows -> Seq(Sizes)]
         /\ next' \in [Windows -> Txns \cup {None}]
         /\ pending' \in [Windows -> SUBSET (Nat \X Txns)]
         /\ other' \subseteq Windows
         /\ \A w \in Windows : next'[w] <= created
                               /\ \A p \in pending'[w] : p[2] <= created
    <2>1. CASE UNCHANGED <<configures, pending, next, other, asked>>
      BY <2>1, Zenon DEF TxnInv, TypeOK, Past
    <2>2. CASE SendConfigures
      <3>1. configures' \in [Windows -> Seq(Sizes)]
        <4>1. configures' = [w \in Windows |->
                                IF w \in {v \in windows : HasPendingChanges(v)}
                                THEN Append(configures[w], wanted[w])
                                ELSE configures[w]]
          BY <2>2, Zenon DEF SendConfigures
        <4>2. ASSUME NEW w \in Windows
              PROVE  /\ configures[w] \in Seq(Sizes)
                     /\ Append(configures[w], wanted[w]) \in Seq(Sizes)
          <5>1. configures[w] \in Seq(Sizes) /\ wanted[w] \in Sizes
            BY Zenon DEF TxnInv, TypeOK
          <5> QED BY <5>1
        <4> QED BY <4>1, <4>2, Zenon
      <3>2. other' \subseteq Windows
        BY <2>2, Zenon DEF TxnInv, TypeOK, SendConfigures
      <3>5. next' \in [Windows -> Txns \cup {None}]
            /\ \A w \in Windows : next'[w] <= created
        <4>1. next' = [w \in Windows |-> IF w \in windows THEN None ELSE next[w]]
          BY <2>2, Zenon DEF SendConfigures
        <4>2. next \in [Windows -> Txns \cup {None}] /\ None <= created
          BY DEF TxnInv, TypeOK, None
        <4> QED BY <4>1, <4>2, Zenon DEF TxnInv, Past
      <3>3. ASSUME NEW w \in Windows
            PROVE  /\ pending'[w] \in SUBSET (Nat \X Txns)
                   /\ \A p \in pending'[w] : p[2] <= created
        <4>1. /\ configures[w] \in Seq(Sizes) /\ next[w] \in Txns \cup {None}
              /\ pending[w] \subseteq Nat \X Txns
              /\ next[w] <= created
              /\ \A p \in pending[w] : p[2] <= created
          BY Zenon DEF TxnInv, TypeOK, Past
        <4>2. Len(configures[w]) + 1 \in Nat
          <5>1. configures[w] \in Seq(Sizes)
            BY <4>1, Zenon
          <5>2. Len(configures[w]) \in Nat
            BY <5>1
          <5> QED BY <5>2
        <4> DEFINE new == <<Len(configures[w]) + 1, next[w]>>
        <4>3. \/ pending'[w] = pending[w]
              \/ next[w] /= None /\ pending'[w] = pending[w] \cup {new}
          BY <2>2, Zenon DEF SendConfigures
        <4>4. new[2] <= created /\ (next[w] /= None => new \in Nat \X Txns)
          BY <4>1, <4>2, Zenon
        <4> HIDE DEF new
        <4> QED BY <4>1, <4>3, <4>4, Zenon
      <3>4. pending' \in [Windows -> SUBSET (Nat \X Txns)]
        <4>1. pending' = [w \in Windows |-> pending'[w]]
          BY <2>2, Zenon DEF SendConfigures
        <4> QED BY <3>3, <4>1, Zenon
      <3> QED BY <3>1, <3>2, <3>3, <3>4, <3>5, Zenon
    <2> QED BY <2>1, <2>2, Zenon DEF Refresh
  <1>11. /\ queue' \in [Windows -> Seq(Commits)]
         /\ applied' \in [Windows -> Nat \ {0}]
    <2>1. queue' = [w \in Windows |-> queue'[w]]
          /\ applied' = [w \in Windows |-> applied'[w]]
      BY <1>0, Zenon
    <2> QED BY <1>4, <2>1, Zenon
  <1>12. TypeOK'
    BY <1>1, <1>3, <1>10, <1>11, Zenon DEF TxnInv, TypeOK
  <1>13. Past'
    <2>1. ASSUME NEW w \in Windows, NEW i \in DOMAIN queue'[w]
          PROVE  queue'[w][i].holds <= created
      <3>1. \A j \in DOMAIN queue[w] : queue[w][j].holds <= created
        BY Zenon DEF TxnInv, Past
      <3>2. PICK j \in DOMAIN queue[w] : queue'[w][i] = queue[w][j]
        BY <1>4, Zenon
      <3> QED BY <3>1, <3>2, Zenon
    <2> QED BY <1>1, <1>10, <2>1, Zenon DEF TxnInv, Past
  <1> QED BY <1>7, <1>8, <1>9, <1>12, <1>13, Zenon DEF TxnInv

-----------------------------------------------------------------------------
LEMMA NextTxnInv == TxnInv /\ [Next]_vars => TxnInv'
  <1> SUFFICES ASSUME TxnInv, [Next]_vars PROVE TxnInv'
    BY Zenon
  <1>1. CASE UNCHANGED vars
    BY <1>1, Zenon
       DEF vars, surfaceVars, holderVars, txnVars, TxnInv, TypeOK, Past, Told,
       ReadyCommitIsWoken, WaitHasDeadline
  <1>2. CASE Next
    BY <1>2, RefreshInv, CommitInv, FenceInv, DestroyedInv, LayoutInv, TimersInv, Zenon
       DEF Next
  <1> QED BY <1>1, <1>2, Zenon

\* The invariant holds of every behaviour.
LEMMA TxnInvAlways == Spec => []TxnInv
  BY InitTxnInv, NextTxnInv, PTL DEF Spec

\* For any set of windows, any of them with fences, and any number of
\* transactions, configures and queued commits: a commit that nothing blocks any
\* more is in the channel that the next refresh drains.
THEOREM NoReadyCommitSleeps == Spec => []ReadyCommitIsWoken
  <1>1. TxnInv => ReadyCommitIsWoken
    BY Zenon DEF TxnInv
  <1> QED BY <1>1, TxnInvAlways, PTL

\* And what waits for a transaction waits for one that is completed or has a
\* deadline (Transaction::register_deadline_timer()).
THEOREM NoWaitWithoutDeadline == Spec => []WaitHasDeadline
  <1>1. TxnInv => WaitHasDeadline
    BY Zenon DEF TxnInv
  <1> QED BY <1>1, TxnInvAlways, PTL

\* Type correctness.
THEOREM TxnTypesCorrect == Spec => []TypeOK
  <1>1. TxnInv => TypeOK
    BY Zenon DEF TxnInv
  <1> QED BY <1>1, TxnInvAlways, PTL
=============================================================================
