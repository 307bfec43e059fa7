------------------------- MODULE FrameCommitProofs --------------------------
(***************************************************************************)
(* The commit of a window keeps the invariant behind consistent frames: it *)
(* is blocked by the transaction it answers, or is the last to hold it.    *)
(***************************************************************************)
EXTENDS FrameProofs

\* Window w appends commit c, which answers what its configures up to c.serial
\* asked for: transaction u, when there is one that is not completed.
Appended(w, c, rest, qs) ==
    /\ c \in Commits
    /\ acked[w] <= c.serial /\ c.serial <= Len(configures[w])
    /\ rest = [pending EXCEPT ![w] = {p \in @ : c.serial < p[1]}]
    /\ qs = [queue EXCEPT ![w] = Append(@, c)]
    /\ c.fence <=> w \in Fenced
    /\ c.holds /= None => c.fence
    /\ \A u \in {c.blocker, c.holds} \ {None} :
         \E p \in pending[w] : p[1] <= c.serial /\ p[2] = u
    /\ \A p \in pending[w] :
         p[1] <= c.serial /\ p[2] \notin completed =>
            /\ c.fence => c.holds = p[2]
            /\ \/ c.blocker = p[2]
               \/ c.blocker = None /\ ~Held(p[2], next, rest, queue, fences)

LEMMA AppendedFacts ==
  ASSUME FrameInv, NEW w \in windows, NEW c, NEW rest, NEW qs, Appended(w, c, rest, qs)
  PROVE  /\ queue[w] \in Seq(Commits) /\ acked[w] \in Nat /\ applied[w] \in Nat
         /\ c.serial \in Nat \ {0}
         /\ Len(queue[w]) \in Nat /\ DOMAIN queue[w] = 1..Len(queue[w])
         /\ qs \in [Windows -> Seq(Commits)]
         /\ DOMAIN qs[w] = 1..(Len(queue[w]) + 1) /\ Len(qs[w]) = Len(queue[w]) + 1
         /\ qs[w][Len(queue[w]) + 1] = c
         /\ \A i \in DOMAIN queue[w] : i \in DOMAIN qs[w] /\ qs[w][i] = queue[w][i]
         /\ \A v \in Windows \ {w} : qs[v] = queue[v] /\ rest[v] = pending[v]
         /\ rest[w] = {p \in pending[w] : c.serial < p[1]}
         /\ acked[w] <= applied[w] + 1 /\ c.serial <= applied[w] + 1
         /\ InOrder(applied[w], queue[w], acked[w])
         /\ \A p \in pending[w] : /\ p[1] \in Nat /\ acked[w] < p[1]
                                   /\ p = <<p[1], p[2]>> /\ p[2] \in Txns
                                   /\ <<w, p[1], p[2]>> \in asked
  <1>1. /\ w \in Windows /\ queue \in [Windows -> Seq(Commits)]
        /\ pending \in [Windows -> SUBSET (Nat \X Txns)]
        /\ queue[w] \in Seq(Commits) /\ acked[w] \in Nat /\ applied[w] \in Nat
        /\ Len(configures[w]) \in Nat
    BY DEF FrameInv, TxnInv, TypeOK
  <1>2. InStep(w, acked, applied, pending, queue)
    BY Zenon DEF FrameInv, Steady
  <1>3. c \in Commits /\ c.serial \in Nat \ {0}
    BY Zenon DEF Appended, Commits
  <1>4. acked[w] <= applied[w] + 1 /\ c.serial <= applied[w] + 1
    <2>1. PICK m \in Nat : m = Len(configures[w])
      BY <1>1, Zenon
    <2>2. acked[w] <= m /\ c.serial <= m /\ m <= applied[w] + 1
      BY <1>2, <2>1, Zenon DEF InStep, Appended
    <2> QED BY <1>1, <1>3, <2>2
  <1> DEFINE q == Append(queue[w], c)
  <1>5. /\ q \in Seq(Commits) /\ Len(q) = Len(queue[w]) + 1
        /\ DOMAIN q = 1..(Len(queue[w]) + 1) /\ q[Len(queue[w]) + 1] = c
        /\ \A i \in DOMAIN queue[w] : i \in DOMAIN q /\ q[i] = queue[w][i]
        /\ Len(queue[w]) \in Nat /\ DOMAIN queue[w] = 1..Len(queue[w])
    BY <1>1, <1>3
  <1> HIDE DEF q
  <1>6. qs = [queue EXCEPT ![w] = q]
    BY <1>1, Zenon DEF Appended, q
  <1>7. qs \in [Windows -> Seq(Commits)] /\ qs[w] = q
        /\ \A v \in Windows \ {w} : qs[v] = queue[v]
    BY <1>1, <1>5, <1>6, Zenon
  <1>8. /\ \A v \in Windows \ {w} : rest[v] = pending[v]
        /\ rest[w] = {p \in pending[w] : c.serial < p[1]}
    BY <1>1, Zenon DEF Appended
  <1>9. \A p \in pending[w] : /\ p[1] \in Nat /\ acked[w] < p[1]
                               /\ p = <<p[1], p[2]>> /\ p[2] \in Txns
                               /\ <<w, p[1], p[2]>> \in asked
    BY <1>1, <1>2 DEF InStep
  <1> QED BY <1>1, <1>2, <1>3, <1>4, <1>5, <1>7, <1>8, <1>9 DEF InStep

LEMMA AppendedInOrder ==
  ASSUME FrameInv, NEW w \in windows, NEW c, NEW rest, NEW qs, Appended(w, c, rest, qs)
  PROVE  InOrder(applied[w], qs[w], c.serial)
  <1> DEFINE q == queue[w]
             r == qs[w]
             n == Len(queue[w]) + 1
             a == applied[w]
             k == acked[w]
  <1>1. /\ q \in Seq(Commits) /\ a \in Nat /\ k \in Nat /\ c.serial \in Nat
        /\ k <= c.serial
        /\ Len(q) \in Nat /\ DOMAIN q = 1..Len(q) /\ n = Len(q) + 1
        /\ r \in Seq(Commits) /\ DOMAIN r = 1..n /\ Len(r) = n /\ r[n] = c
        /\ \A i \in DOMAIN q : r[i] = q[i]
        /\ InOrder(a, q, k)
    <2>1. w \in Windows /\ k <= c.serial
      BY Zenon DEF Appended, FrameInv, TxnInv, TypeOK
    <2>2. qs \in [Windows -> Seq(Commits)]
      BY AppendedFacts, Zenon
    <2>3. r \in Seq(Commits)
      BY <2>1, <2>2, Zenon
    <2> QED BY <2>1, <2>3, AppendedFacts
  <1>2. c.blocker /= None => k < c.serial
    <2> SUFFICES ASSUME c.blocker /= None PROVE k < c.serial
      BY Zenon
    <2>1. PICK p \in pending[w] : p[1] <= c.serial
      BY Zenon DEF Appended
    <2>2. p[1] \in Nat /\ k < p[1]
      BY AppendedFacts, Zenon
    <2> HIDE DEF k
    <2> QED BY <1>1, <2>1, <2>2
  <1>3. c.holds /= None => c.fence
    BY Zenon DEF Appended
  <1>4. \A i \in DOMAIN q : q[i].fence => c.fence
    BY Zenon DEF Appended, FrameInv, Steady, InStep
  <1>5. \A i \in DOMAIN q : q[i].serial \in Nat
    BY <1>1, SerialsAreNat, Zenon
  <1> HIDE DEF q, r, n, a, k
  <1>6. a <= c.serial
    BY <1>1 DEF InOrder
  <1>7. r /= <<>> /\ r[Len(r)].serial = c.serial
    BY <1>1
  <1>8. ASSUME NEW i \in DOMAIN r
        PROVE  /\ a <= r[i].serial /\ r[i].serial <= c.serial
               /\ r[i].blocker /= None => a < r[i].serial
               /\ r[i].holds /= None => r[i].fence
    <2>1. CASE i = n
      BY <1>1, <1>2, <1>3, <1>6, <2>1 DEF InOrder
    <2>2. CASE i /= n
      <3>1. i \in DOMAIN q /\ r[i] = q[i] /\ q[i].serial \in Nat
        BY <1>1, <1>5, <2>2
      <3>2. q[i].serial <= k
        BY <1>1, <3>1, Zenon DEF InOrder
      <3>3. q[i].serial <= c.serial
        BY <1>1, <3>1, <3>2
      <3> QED BY <1>1, <3>1, <3>3, Zenon DEF InOrder
    <2> QED BY <2>1, <2>2, Zenon
  <1>9. ASSUME NEW i \in DOMAIN r, NEW j \in DOMAIN r, i < j
        PROVE  /\ r[i].serial <= r[j].serial
               /\ r[j].blocker /= None => r[i].serial < r[j].serial
               /\ r[i].fence => r[j].fence
    <2>1. i \in DOMAIN q /\ r[i] = q[i] /\ q[i].serial \in Nat
      BY <1>1, <1>5, <1>9
    <2>2. q[i].serial <= k
      BY <1>1, <2>1, Zenon DEF InOrder
    <2>3. CASE j = n
      <3>1. q[i].serial <= c.serial /\ (c.blocker /= None => q[i].serial < c.serial)
        BY <1>1, <1>2, <2>1, <2>2
      <3> QED BY <1>1, <1>4, <2>1, <2>3, <3>1, Zenon
    <2>4. CASE j /= n
      <3>1. j \in DOMAIN q /\ r[j] = q[j]
        BY <1>1, <2>4
      <3> QED BY <1>1, <1>9, <2>1, <3>1, Zenon DEF InOrder
    <2> QED BY <2>3, <2>4, Zenon
  <1>10. InOrder(a, r, c.serial)
    BY <1>6, <1>7, <1>8, <1>9, Zenon DEF InOrder
  <1> QED BY <1>10, Zenon DEF a, r

LEMMA AppendedAnswers ==
  ASSUME FrameInv, NEW w \in windows, NEW c, NEW rest, NEW qs, Appended(w, c, rest, qs),
         NEW s \in Nat, NEW i \in DOMAIN qs[w]
  PROVE  /\ applied[w] < s /\ Answers(qs[w], i, s) =>
              \/ i \in DOMAIN queue[w] /\ qs[w][i] = queue[w][i] /\ Answers(queue[w], i, s)
              \/ qs[w][i] = c /\ acked[w] < s /\ c.serial = s
         /\ i \in DOMAIN queue[w] /\ Answers(queue[w], i, s) => Answers(qs[w], i, s)
  <1> DEFINE q == queue[w]
             r == qs[w]
             n == Len(queue[w]) + 1
  <1>1. /\ q \in Seq(Commits) /\ applied[w] \in Nat /\ acked[w] \in Nat
        /\ c.serial \in Nat /\ acked[w] <= c.serial
        /\ Len(q) \in Nat /\ DOMAIN q = 1..Len(q) /\ n = Len(q) + 1
        /\ DOMAIN r = 1..n /\ r[n] = c
        /\ \A j \in DOMAIN q : j \in DOMAIN r /\ r[j] = q[j]
        /\ InOrder(applied[w], q, acked[w])
    <2>1. acked[w] <= c.serial
      BY Zenon DEF Appended
    <2> QED BY <2>1, AppendedFacts
  <1> HIDE DEF q, r, n
  <1>2. ASSUME applied[w] < s, Answers(r, i, s), i \in DOMAIN q PROVE Answers(q, i, s)
    BY <1>1, <1>2, Zenon DEF Answers
  <1>3. ASSUME applied[w] < s, Answers(r, i, s), i = n
        PROVE  acked[w] < s /\ c.serial = s
    <2>1. c.serial = s
      BY <1>1, <1>3, Zenon DEF Answers
    <2>2. ASSUME acked[w] = s PROVE FALSE
      <3>1. q /= <<>> /\ q[Len(q)].serial = s
        BY <1>1, <1>3, <2>2 DEF InOrder
      <3>2. Len(q) \in DOMAIN q /\ Len(q) < n
        BY <1>1, <3>1
      <3>3. r[Len(q)].serial = s /\ Len(q) \in DOMAIN r
        BY <1>1, <3>1, <3>2, Zenon
      <3>4. r[Len(q)].serial < s
        BY <1>3, <3>2, <3>3, Zenon DEF Answers
      <3> QED BY <3>3, <3>4
    <2> QED BY <1>1, <2>1, <2>2
  <1>4. ASSUME i \in DOMAIN q, Answers(q, i, s) PROVE Answers(r, i, s)
    <2> SUFFICES ASSUME NEW j \in DOMAIN r, j < i PROVE r[j].serial < s
      BY <1>1, <1>4, Zenon DEF Answers
    <2>1. j \in DOMAIN q
      BY <1>1, <1>4
    <2> QED BY <1>1, <1>4, <2>1, Zenon DEF Answers
  <1>5. i \in DOMAIN q \/ i = n
    BY <1>1 DEF r
  <1> QED BY <1>1, <1>2, <1>3, <1>4, <1>5, Zenon DEF q, r

LEMMA AppendedSole ==
  ASSUME FrameInv, NEW w \in windows, NEW c, NEW rest, NEW qs, Appended(w, c, rest, qs),
         NEW v \in windows, NEW s \in Nat, NEW u \in Txns,
         Sole(u, v, s, pending, queue, fences)
  PROVE  Sole(u, v, s, rest, qs, fences)
  <1>1. /\ \A x \in Windows \ {w} : qs[x] = queue[x] /\ rest[x] = pending[x]
        /\ rest[w] \subseteq pending[w] /\ w \in Windows /\ u /= None
    <2>1. /\ \A x \in Windows \ {w} : qs[x] = queue[x] /\ rest[x] = pending[x]
          /\ rest[w] = {p \in pending[w] : c.serial < p[1]}
      BY AppendedFacts
    <2>2. w \in Windows /\ u /= None
      BY DEF FrameInv, TxnInv, TypeOK, Txns, None
    <2> QED BY <2>1, <2>2, Zenon
  <1>2. c.holds /= u
    <2> SUFFICES ASSUME c.holds = u PROVE FALSE
      BY Zenon
    <2>1. PICK p \in pending[w] : p[2] = u
      BY <1>1 DEF Appended
    <2> QED BY <1>1, <2>1, Zenon DEF Sole
  <1>3. ASSUME NEW x \in Windows, NEW k \in DOMAIN qs[x], qs[x][k].holds = u
        PROVE  x = v /\ Answers(qs[v], k, s)
    <2>1. CASE x /= w
      BY <1>1, <1>3, <2>1, Zenon DEF Sole
    <2>2. CASE x = w
      <3>1. k \in DOMAIN queue[w] /\ qs[w][k] = queue[w][k]
        <4>1. k = Len(queue[w]) + 1 => qs[w][k] = c
          BY AppendedFacts
        <4>2. k \in 1..(Len(queue[w]) + 1) /\ k /= Len(queue[w]) + 1
          BY <1>2, <1>3, <2>2, <4>1, AppendedFacts
        <4>3. Len(queue[w]) \in Nat /\ DOMAIN queue[w] = 1..Len(queue[w])
          BY AppendedFacts, Zenon
        <4>4. k \in DOMAIN queue[w]
          BY <4>2, <4>3
        <4> QED BY <4>4, AppendedFacts
      <3>2. v = w /\ Answers(queue[w], k, s)
        BY <1>1, <1>3, <2>2, <3>1, Zenon DEF Sole
      <3> QED BY <2>2, <3>1, <3>2, AppendedAnswers, Zenon
    <2> QED BY <2>1, <2>2, Zenon
  <1>4. \A x \in Windows : \A p \in rest[x] : p[2] /= u
    BY <1>1, Zenon DEF Sole
  <1> QED BY <1>3, <1>4, Zenon DEF Sole

LEMMA AppendedAnswered ==
  ASSUME FrameInv, NEW w \in windows, NEW c, NEW rest, NEW qs, Appended(w, c, rest, qs),
         NEW S, \A x \in S : ~Held(x, next, rest, qs, fences),
         NEW ak, ak = [acked EXCEPT ![w] = c.serial],
         NEW v \in windows, NEW s \in Nat, NEW u \in Txns, \A x \in Windows : next[x] /= u,
         Answered(v, s, u, completed, acked, applied, pending, queue, fences)
  PROVE  Answered(v, s, u, completed \cup S, ak, applied, rest, qs, fences)
  <1>1. /\ v \in Windows /\ acked[v] \in Nat /\ applied[v] \in Nat
        /\ ak[v] \in Nat /\ acked[v] <= ak[v] /\ ak[w] = c.serial
        /\ (v /= w => ak[v] = acked[v])
    <2>1. /\ acked \in [Windows -> Nat \ {0}] /\ v \in Windows /\ w \in Windows
          /\ applied[v] \in Nat
      BY Zenon DEF FrameInv, TxnInv, TypeOK
    <2>2. c.serial \in Nat \ {0}
      BY AppendedFacts, Zenon
    <2>3. acked[w] <= c.serial
      BY Zenon DEF Appended
    <2> QED BY <2>1, <2>2, <2>3
  \* What is pending and not answered now is still pending.
  <1>2. ASSUME <<s, u>> \in pending[v], ak[v] < s PROVE <<s, u>> \in rest[v]
    <2>1. CASE v = w
      <3>1. rest[w] = {p \in pending[w] : c.serial < p[1]}
        BY AppendedFacts
      <3> QED BY <1>1, <1>2, <2>1, <3>1, Zenon
    <2>2. CASE v /= w
      BY <1>1, <1>2, <2>2, AppendedFacts
    <2> QED BY <2>1, <2>2, Zenon
  <1>3. ASSUME NEW i \in DOMAIN qs[v], applied[v] < s, Answers(qs[v], i, s)
        PROVE  \/ /\ i \in DOMAIN queue[v] /\ qs[v][i] = queue[v][i]
                  /\ Answers(queue[v], i, s)
               \/ v = w /\ qs[v][i] = c /\ acked[w] < s /\ c.serial = s
    <2>1. CASE v = w
      BY <1>3, <2>1, AppendedAnswers
    <2>2. CASE v /= w
      <3>1. qs[v] = queue[v]
        BY <1>1, <2>2, AppendedFacts
      <3> QED BY <1>3, <3>1, Zenon
    <2> QED BY <2>1, <2>2, Zenon
  <1>4. CASE u \in completed
    <2>1. Ready(v, s, u, acked, applied, queue)
      BY <1>4, Zenon DEF Answered
    <2>2. s <= ak[v] /\ ~(acked[v] < s)
      BY <1>1, <2>1 DEF Ready
    <2>3. Ready(v, s, u, ak, applied, qs)
      BY <1>3, <2>1, <2>2, Zenon DEF Ready
    <2> QED BY <1>4, <2>3, Zenon DEF Answered
  <1>5. CASE u \notin completed
    <2>1. Waiting(v, s, u, acked, applied, pending, queue, fences)
      BY <1>5, Zenon DEF Answered
    <2>2. ASSUME ak[v] < s PROVE <<s, u>> \in rest[v]
      <3>1. acked[v] < s
        BY <1>1, <2>2
      <3> QED BY <1>2, <2>1, <2>2, <3>1, Zenon DEF Waiting
    \* The commit that answers is an old one, or c.
    <2>3. ASSUME NEW i \in DOMAIN qs[v], Answers(qs[v], i, s)
          PROVE  /\ qs[v][i].fence => qs[v][i].holds = u
                 /\ \/ qs[v][i].blocker = u
                    \/ qs[v][i].blocker = None /\ Sole(u, v, s, rest, qs, fences)
      <3>1. applied[v] < s
        BY <2>1, Zenon DEF Waiting
      <3>2. CASE /\ i \in DOMAIN queue[v] /\ qs[v][i] = queue[v][i]
                 /\ Answers(queue[v], i, s)
        BY <2>1, <3>2, AppendedSole, Zenon DEF Waiting
      <3>3. CASE v = w /\ qs[v][i] = c /\ acked[w] < s /\ c.serial = s
        <4>1. <<s, u>> \in pending[w]
          BY <2>1, <3>3, Zenon DEF Waiting
        <4>2. /\ c.fence => c.holds = u
              /\ \/ c.blocker = u
                 \/ c.blocker = None /\ ~Held(u, next, rest, queue, fences)
          <5>1. <<s, u>>[1] <= c.serial /\ <<s, u>>[2] = u
            BY <3>3
          <5> QED BY <1>5, <4>1, <5>1, Zenon DEF Appended
        <4>3. ASSUME ~Held(u, next, rest, queue, fences)
              PROVE  Sole(u, v, s, rest, qs, fences)
          <5> SUFFICES ASSUME NEW x \in Windows, NEW k \in DOMAIN qs[x], qs[x][k].holds = u
                       PROVE  x = v /\ Answers(qs[v], k, s)
            BY <4>3, Zenon DEF Sole, Held
          <5>1. x = w
            BY <4>3, AppendedFacts DEF Held
          <5>2. k \notin DOMAIN queue[w]
            BY <4>3, <5>1, AppendedFacts DEF Held
          <5>3. k = i
            <6>1. i \notin DOMAIN queue[w]
              <7> SUFFICES ASSUME i \in DOMAIN queue[w] PROVE FALSE
                BY Zenon
              <7>1. queue[w][i] = c
                BY <3>3, AppendedFacts
              <7>2. c.serial <= acked[w]
                BY <7>1, AppendedFacts, Zenon DEF InOrder
              <7> QED BY <1>1, <3>3, <7>2
            <6>2. /\ DOMAIN queue[w] = 1..Len(queue[w]) /\ Len(queue[w]) \in Nat
                  /\ DOMAIN qs[w] = 1..(Len(queue[w]) + 1)
              BY AppendedFacts
            <6> QED BY <3>3, <5>1, <5>2, <6>1, <6>2
          <5> QED BY <2>3, <3>3, <5>1, <5>3, Zenon
        <4> QED BY <3>3, <4>2, <4>3, Zenon
      <3> QED BY <1>3, <2>3, <3>1, <3>2, <3>3, Zenon
    <2>4. CASE u \in S
      <3>1. /\ \A p \in rest[v] : p[2] /= u
            /\ \A i \in DOMAIN qs[v] : qs[v][i].holds /= u
        BY <1>1, <2>4, Zenon DEF Held
      <3>2. s <= ak[v]
        BY <1>1, <2>2, <3>1
      <3>3. Ready(v, s, u, ak, applied, qs)
        BY <2>3, <3>1, <3>2, Zenon DEF Ready
      <3> QED BY <2>4, <3>3, Zenon DEF Answered
    <2>5. CASE u \notin S
      <3>1. Waiting(v, s, u, ak, applied, rest, qs, fences)
        BY <2>1, <2>2, <2>3, Zenon DEF Waiting
      <3> QED BY <1>5, <2>5, <3>1, Zenon DEF Answered
    <2> QED BY <2>4, <2>5, Zenon
  <1> QED BY <1>4, <1>5, Zenon

\* The pre-commit hook appends such a commit.
LEMMA CommitAppends ==
  ASSUME FrameInv, NEW w \in windows, NEW serial \in Nat \ {0},
         acked[w] <= serial, serial <= Len(configures[w]),
         NEW t, t = NewestOf(TakenUpTo(w, serial)),
         NEW rest, rest = [pending EXCEPT ![w] = @ \ TakenUpTo(w, serial)],
         NEW c, c = [serial  |-> serial,
                     blocker |-> IF /\ t /= None /\ t \notin completed
                                    /\ Held(t, next, rest, queue, fences)
                                 THEN t ELSE None,
                     fence   |-> w \in Fenced,
                     holds   |-> IF t /= None /\ t \notin completed /\ w \in Fenced
                                 THEN t ELSE None]
  PROVE  Appended(w, c, rest, [queue EXCEPT ![w] = Append(@, c)])
  <1> DEFINE taken == TakenUpTo(w, serial)
  <1>1. /\ w \in Windows /\ pending \in [Windows -> SUBSET (Nat \X Txns)]
        /\ pending[w] \subseteq Nat \X Txns /\ acked[w] \in Nat /\ applied[w] \in Nat
        /\ Len(configures[w]) \in Nat
        /\ Asks /\ InStep(w, acked, applied, pending, queue)
    BY DEF FrameInv, TxnInv, TypeOK, Steady
  <1>2. taken = {p \in pending[w] : p[1] <= serial}
    BY Zenon DEF TakenUpTo
  <1> HIDE DEF taken
  <1>3. t = None \/ \E p \in taken : t = p[2]
    BY <1>1, <1>2, NewestIsOne, Zenon DEF taken
  <1>4. ASSUME NEW p \in taken PROVE p[1] = serial
    <2>1. p[1] \in Nat /\ acked[w] < p[1] /\ p[1] <= serial
      BY <1>1, <1>2, Zenon DEF InStep
    <2>2. PICK m \in Nat : m = Len(configures[w])
      BY <1>1, Zenon
    <2>3. serial <= m /\ m <= applied[w] + 1 /\ applied[w] <= acked[w]
      BY <1>1, <2>2, Zenon DEF InStep, InOrder
    <2>4. acked[w] \in Nat /\ applied[w] \in Nat
      BY <1>1, Zenon
    <2> QED BY <2>1, <2>3, <2>4
  <1>5. ASSUME NEW p \in taken PROVE t = p[2]
    <2>1. t /= None
      <3>1. taken /= {}
        BY <1>5, Zenon
      <3>2. \E x \in taken : \A r \in taken : r[1] <= x[1]
        BY <1>4
      <3>3. \E x \in taken : t = x[2]
        BY <3>1, <3>2, Zenon DEF NewestOf, taken
      <3> QED BY <1>1, <1>2, <3>3 DEF Txns, None
    <2>2. PICK x \in taken : t = x[2]
      BY <1>3, <2>1, Zenon
    <2>3. /\ <<w, p[1], p[2]>> \in asked /\ <<w, x[1], x[2]>> \in asked
          /\ p[1] = x[1]
      BY <1>1, <1>2, <1>4 DEF InStep
    <2>4. <<w, p[1], p[2]>> = <<w, x[1], x[2]>>
      BY <1>1, <2>3 DEF Asks
    <2> QED BY <2>2, <2>4, Zenon
  <1>6. t \in Txns \cup {None}
    BY <1>1, <1>2, <1>3, Zenon
  <1>7. /\ c.serial = serial /\ (c.fence <=> w \in Fenced)
        /\ c.blocker = IF /\ t /= None /\ t \notin completed
                          /\ Held(t, next, rest, queue, fences)
                       THEN t ELSE None
        /\ c.holds = IF t /= None /\ t \notin completed /\ w \in Fenced THEN t ELSE None
    BY Zenon
  <1>8. c \in Commits
    BY <1>6 DEF Commits
  <1>9. rest = [pending EXCEPT ![w] = {p \in @ : c.serial < p[1]}]
    <2>1. pending[w] \ taken = {p \in pending[w] : c.serial < p[1]}
      BY <1>1, <1>2, <1>7
    <2> QED BY <1>1, <2>1, Zenon DEF taken
  <1>10. \A u \in {c.blocker, c.holds} \ {None} :
           \E p \in pending[w] : p[1] <= c.serial /\ p[2] = u
    <2> SUFFICES ASSUME NEW u, u \in {c.blocker, c.holds}, u /= None
                 PROVE  \E p \in pending[w] : p[1] <= c.serial /\ p[2] = u
      BY Zenon
    <2>1. u = t
      BY <1>7, Zenon
    <2> QED BY <1>2, <1>3, <1>7, <2>1, Zenon
  <1>11. ASSUME NEW p \in pending[w], p[1] <= c.serial, p[2] \notin completed
         PROVE  /\ c.fence => c.holds = p[2]
                /\ \/ c.blocker = p[2]
                   \/ c.blocker = None /\ ~Held(p[2], next, rest, queue, fences)
    <2>1. p \in taken
      BY <1>2, <1>7, <1>11, Zenon
    <2>2. t = p[2] /\ t /= None
      BY <1>1, <1>5, <2>1 DEF Txns, None
    <2> QED BY <1>7, <1>11, <2>2, Zenon
  <1> QED BY <1>7, <1>8, <1>9, <1>10, <1>11, Zenon DEF Appended

LEMMA CommitFrame ==
  ASSUME FrameInv, NEW w \in Windows, NEW serial \in 1..MaxConfigures,
         Commit(w, serial)
  PROVE  /\ Asks' /\ FrameIsConsistent'
         /\ Steady(completed, acked, applied, next, pending, queue, fences)'
  <1> DEFINE taken == TakenUpTo(w, serial)
             t     == NewestOf(taken)
             live  == t /= None /\ t \notin completed
             rest  == [pending EXCEPT ![w] = @ \ taken]
             last  == ~Held(t, next, rest, queue, fences)
             c     == [serial  |-> serial,
                       blocker |-> IF live /\ ~last THEN t ELSE None,
                       fence   |-> w \in Fenced,
                       holds   |-> IF live /\ w \in Fenced THEN t ELSE None]
             qs    == [queue EXCEPT ![w] = Append(@, c)]
             S     == Dropped(created, next, rest, qs, fences)
  <1>1. /\ w \in windows /\ serial \in acked[w]..Len(configures[w])
        /\ acked' = [acked EXCEPT ![w] = serial]
        /\ pending' = rest
        /\ completed' = completed \cup S
        /\ queue' = [qs EXCEPT ![w] = RestOf(qs[w], completed')]
        /\ applied' = [applied EXCEPT ![w] = AppliedOf(qs[w], completed', @)]
        /\ UNCHANGED <<other, configures, windows, next, fences, created, expired, asked>>
        /\ phase' = "dispatch"
    BY Zenon DEF Commit, Handler
  <1>2. /\ TypeOK /\ Asks /\ serial \in Nat \ {0}
        /\ acked \in [Windows -> Nat \ {0}] /\ applied \in [Windows -> Nat \ {0}]
        /\ windows \subseteq Windows
        /\ Steady(completed, acked, applied, next, pending, queue, fences)
    BY TransactionConstants DEF FrameInv, TxnInv, TypeOK
  <1>3. acked[w] <= serial /\ serial <= Len(configures[w])
    <2>1. acked[w] \in Nat /\ Len(configures[w]) \in Nat
      BY <1>2 DEF TypeOK
    <2> QED BY <1>1, <2>1
  <1>4. Appended(w, c, rest, qs)
    BY <1>1, <1>2, <1>3, CommitAppends, Zenon
  <1>5. c.serial = serial
    BY Zenon
  <1>6. /\ \A u \in S : ~Held(u, next, rest, qs, fences)
        /\ \A u \in 1..created : u \notin completed \cup S =>
             Held(u, next, rest, qs, fences)
    BY DroppedOrHeld
  <1> HIDE DEF taken, t, live, rest, last, c, qs, S
  <1>7. /\ qs \in [Windows -> Seq(Commits)]
        /\ \A v \in Windows \ {w} : qs[v] = queue[v] /\ rest[v] = pending[v]
    BY <1>1, <1>4, AppendedFacts
  <1>8. ASSUME NEW v \in windows PROVE InStep(v, acked', applied, rest, qs)
    <2>1. InStep(v, acked, applied, pending, queue) /\ v \in Windows
      BY <1>2, Zenon DEF Steady
    <2>2. CASE v /= w
      <3>1. qs[v] = queue[v] /\ rest[v] = pending[v] /\ acked'[v] = acked[v]
        BY <1>1, <1>2, <1>7, <2>1, <2>2, Zenon
      <3> QED BY <2>1, <3>1, Zenon DEF InStep
    <2>3. CASE v = w
      <3>1. InOrder(applied[w], qs[w], serial)
        BY <1>1, <1>4, <1>5, AppendedInOrder, Zenon
      <3>2. acked'[w] = serial
        BY <1>1, <1>2, Zenon
      <3>3. ASSUME NEW i \in DOMAIN qs[w], qs[w][i].fence PROVE w \in Fenced
        <4>1. CASE i \in DOMAIN queue[w]
          <5>1. qs[w][i] = queue[w][i]
            BY <1>1, <1>4, <4>1, AppendedFacts
          <5> QED BY <2>1, <2>3, <3>3, <4>1, <5>1, Zenon DEF InStep
        <4>2. CASE i \notin DOMAIN queue[w]
          <5>1. /\ DOMAIN qs[w] = 1..(Len(queue[w]) + 1) /\ Len(queue[w]) \in Nat
                /\ DOMAIN queue[w] = 1..Len(queue[w]) /\ qs[w][Len(queue[w]) + 1] = c
            BY <1>1, <1>4, AppendedFacts
          <5>2. i = Len(queue[w]) + 1
            BY <4>2, <5>1
          <5> QED BY <1>4, <3>3, <5>1, <5>2, Zenon DEF Appended
        <4> QED BY <4>1, <4>2, Zenon
      <3>4. \A p \in rest[w] : serial < p[1] /\ <<w, p[1], p[2]>> \in asked
        <4>1. rest[w] = {p \in pending[w] : serial < p[1]}
          BY <1>1, <1>4, <1>5, AppendedFacts
        <4> QED BY <2>1, <2>3, <4>1, Zenon DEF InStep
      <3> QED BY <1>3, <2>1, <2>3, <3>1, <3>2, <3>3, <3>4, Zenon DEF InStep
    <2> QED BY <2>2, <2>3, Zenon
  <1>9. ASSUME NEW v \in Windows \ windows PROVE qs[v] = <<>> /\ next[v] = None
    <2>1. v /= w /\ queue[v] = <<>> /\ next[v] = None
      BY <1>1, <1>2, Zenon DEF Steady
    <2> QED BY <1>7, <2>1, Zenon
  <1>10. ASSUME NEW a \in asked, a[1] \in windows, a[3] \notin expired
         PROVE  Answered(a[1], a[2], a[3], completed', acked', applied, rest, qs, fences)
    <2>1. a[2] \in Nat /\ a[3] \in Txns /\ \A x \in Windows : next[x] /= a[3]
      BY <1>2, Zenon DEF Asks
    <2>2. Answered(a[1], a[2], a[3], completed, acked, applied, pending, queue, fences)
      BY <1>2, <1>10, Zenon DEF Steady
    <2>3. acked' = [acked EXCEPT ![w] = c.serial]
      BY <1>1, <1>5, Zenon
    <2>4. Answered(a[1], a[2], a[3], completed \cup S, acked', applied, rest, qs, fences)
      <3>1. w \in windows
        BY <1>1, Zenon
      <3> QED BY <1>4, <1>6, <1>10, <2>1, <2>2, <2>3, <3>1, AppendedAnswered, Zenon
    <2> QED BY <1>1, <2>4, Zenon
  <1>11. Steady(completed', acked', applied, next, pending', qs, fences)
    BY <1>1, <1>6, <1>8, <1>9, <1>10, Zenon DEF Steady
  <1>12. Typed(acked', applied, qs)
    BY <1>1, <1>2, <1>7, Zenon DEF Typed
  <1> QED BY <1>1, <1>11, <1>12, OneQueueFrame, Zenon
=============================================================================
