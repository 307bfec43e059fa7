--------------------------- MODULE FrameTheorems ----------------------------
(***************************************************************************)
(* For any windows, fences and bounds, when configures carry nothing but   *)
(* sizes: the windows of a transaction change in the same frame, and no    *)
(* window is in two transactions at once.                                  *)
(***************************************************************************)
EXTENDS FrameCommitProofs

-----------------------------------------------------------------------------
(* State::refresh().                                                       *)

LEMMA RefreshRuns ==
  ASSUME FrameInv, NEW qu, NEW cur,
         qu = [w \in Windows |-> IF w \in cleared THEN RestOf(queue[w], completed)
                                 ELSE queue[w]],
         cur = [w \in Windows |-> IF w \in cleared
                                  THEN AppliedOf(queue[w], completed, applied[w])
                                  ELSE applied[w]]
  PROVE  /\ Steady(completed, acked, cur, next, pending, qu, fences)
         /\ Typed(acked, cur, qu)
         /\ \A w \in windows : qu[w] /= <<>> => ~Released(qu[w][1], completed)
  <1>1. /\ TypeOK /\ Asks /\ queue \in [Windows -> Seq(Commits)] /\ windows \subseteq Windows
        /\ applied \in [Windows -> Nat \ {0}] /\ acked \in [Windows -> Nat \ {0}]
        /\ Steady(completed, acked, applied, next, pending, queue, fences)
    BY Zenon DEF FrameInv, TxnInv, TypeOK
  <1>2. ASSUME NEW w \in Windows
        PROVE  /\ \E n \in 0..Len(queue[w]) :
                    /\ Run(queue[w], applied[w], n, qu[w], cur[w])
                    /\ \A i \in 1..n : Released(queue[w][i], completed)
               /\ qu[w] \in Seq(Commits) /\ cur[w] \in Nat \ {0}
               /\ w \in windows /\ qu[w] /= <<>> => ~Released(qu[w][1], completed)
    <2>1. queue[w] \in Seq(Commits) /\ applied[w] \in Nat \ {0}
      BY <1>1, Zenon
    <2>2. CASE w \in cleared
      <3>1. /\ qu[w] = RestOf(queue[w], completed)
            /\ cur[w] = AppliedOf(queue[w], completed, applied[w])
        BY <2>2, Zenon
      <3>2. PICK n \in 0..Len(queue[w]) :
              /\ Run(queue[w], applied[w], n, RestOf(queue[w], completed),
                     AppliedOf(queue[w], completed, applied[w]))
              /\ \A i \in 1..n : Released(queue[w][i], completed)
        BY <2>1, BlockerClearedRuns, Zenon
      <3>3. /\ RestOf(queue[w], completed) \in Seq(Commits)
            /\ RestOf(queue[w], completed) /= <<>> =>
                 ~Released(RestOf(queue[w], completed)[1], completed)
        BY <2>1, RestIsBlocked, Zenon
      <3>4. AppliedOf(queue[w], completed, applied[w]) \in Nat \ {0}
        BY <2>1, AppliedIsSerial, Zenon
      <3> QED BY <3>1, <3>2, <3>3, <3>4, Zenon
    <2>3. CASE w \notin cleared
      <3>1. qu[w] = queue[w] /\ cur[w] = applied[w]
        BY <2>3, Zenon
      <3>2. Run(queue[w], applied[w], 0, qu[w], cur[w])
        BY <2>1, <3>1 DEF Run
      <3>3. 0 \in 0..Len(queue[w]) /\ \A i \in 1..0 : Released(queue[w][i], completed)
        BY <2>1
      <3>4. w \in windows /\ qu[w] /= <<>> => ~Released(qu[w][1], completed)
        BY <2>3, <3>1, Zenon DEF FrameInv, TxnInv, ReadyCommitIsWoken
      <3> QED BY <2>1, <3>1, <3>2, <3>3, <3>4
    <2> QED BY <2>2, <2>3, Zenon
  <1>3. Runs(completed, applied, queue, cur, qu)
    BY <1>2, Zenon DEF Runs
  <1>4. Typed(acked, applied, queue)
    BY <1>1, Zenon DEF Typed
  <1>5. Steady(completed, acked, cur, next, pending, qu, fences)
    BY <1>1, <1>3, <1>4, RunsSteady, Zenon
  <1>6. Typed(acked, cur, qu)
    BY <1>1, <1>2, Zenon DEF Typed
  <1> QED BY <1>1, <1>2, <1>5, <1>6, Zenon

\* Once the channel is drained, a window shows what it was asked for exactly when
\* the transaction is completed.
LEMMA DrainedIsConsistent ==
  ASSUME TypeOK, NEW cur, NEW qu, Typed(acked, cur, qu),
         NEW w \in windows, NEW s \in Nat, NEW t \in Txns,
         InStep(w, acked, cur, pending, qu),
         qu[w] /= <<>> => ~Released(qu[w][1], completed),
         Answered(w, s, t, completed, acked, cur, pending, qu, fences)
  PROVE  cur[w] >= s <=> t \in completed
  <1>1. /\ w \in Windows /\ qu[w] \in Seq(Commits) /\ acked[w] \in Nat /\ cur[w] \in Nat
        /\ Len(configures[w]) \in Nat
    BY DEF TypeOK, Typed
  <1>2. CASE t \notin completed
    BY <1>1, <1>2 DEF Answered, Waiting
  <1>3. CASE t \in completed
    <2>1. Ready(w, s, t, acked, cur, qu)
      BY <1>3, Zenon DEF Answered
    <2> SUFFICES ASSUME cur[w] < s PROVE FALSE
      BY <1>1, <1>3
    <2> DEFINE q == qu[w]
               a == cur[w]
               k == acked[w]
    <2>2. /\ q \in Seq(Commits) /\ DOMAIN q = 1..Len(q) /\ Len(q) \in Nat
          /\ a \in Nat /\ k \in Nat
          /\ InOrder(a, q, k) /\ s <= k /\ a < s
      BY <1>1, <2>1 DEF InStep, Ready
    <2>3. k <= a + 1
      <3>1. PICK m \in Nat : m = Len(configures[w])
        BY <1>1, Zenon
      <3>2. k <= m /\ m <= a + 1
        BY <3>1, Zenon DEF InStep
      <3> QED BY <2>2, <3>1, <3>2
    <2>4. \A i \in DOMAIN q :
            Answers(q, i, s) => ~q[i].fence /\ q[i].blocker \in {t, None}
      BY <2>1, Zenon DEF Ready
    <2>5. q /= <<>> => ~Released(q[1], completed)
      BY Zenon
    <2>6. \A i \in DOMAIN q : q[i].serial \in Nat
      BY <2>2, SerialsAreNat, Zenon
    <2> HIDE DEF q, a, k
    <2>7. q /= <<>> /\ q[Len(q)].serial = k
      BY <2>2 DEF InOrder
    <2>8. Len(q) \in DOMAIN q /\ 1 \in DOMAIN q
      BY <2>2, <2>7
    <2>9. PICK i \in DOMAIN q : Answers(q, i, s)
      BY <2>2, <2>3, <2>7, <2>8, FirstAnswer
    <2>10. CASE i = 1
      BY <1>3, <2>4, <2>5, <2>7, <2>9, <2>10, Zenon DEF Released
    <2>11. CASE i /= 1
      <3>1. 1 < i
        BY <2>2, <2>11
      <3>2. q[1].serial < s /\ q[1].serial \in Nat
        BY <2>6, <2>8, <2>9, <3>1, Zenon DEF Answers
      <3>3. q[1].blocker = None
        <4>1. ~(a < q[1].serial)
          BY <2>2, <2>3, <3>2
        <4> QED BY <2>2, <2>8, <4>1 DEF InOrder
      <3>4. ~q[1].fence
        BY <2>2, <2>4, <2>8, <2>9, <3>1 DEF InOrder
      <3> QED BY <2>5, <2>7, <3>3, <3>4, Zenon DEF Released
    <2> QED BY <2>10, <2>11, Zenon
  <1> QED BY <1>2, <1>3, Zenon

\* The layout sends configures once every window has applied the last it was
\* sent: no answer is outstanding then.
LEMMA SentIsCurrent ==
  ASSUME FrameInv, NEW cur, NEW qu, Typed(acked, cur, qu),
         Steady(completed, acked, cur, next, pending, qu, fences),
         SharedConfigureIntent(cur) \in {"CanSend", "ShouldSend"},
         NEW w \in windows, HasPendingChanges(w)
  PROVE  /\ cur[w] = Len(configures[w]) /\ acked[w] = Len(configures[w])
         /\ pending[w] = {}
         /\ wanted[w] /= configures[w][Len(configures[w])]
  <1>1. /\ w \in Windows /\ acked[w] \in Nat \ {0} /\ cur[w] \in Nat \ {0}
        /\ configures[w] \in Seq(Sizes)
        /\ pending[w] \subseteq Nat \X Txns
        /\ InStep(w, acked, cur, pending, qu)
        /\ Asks /\ \A v \in windows : v \notin other
    BY DEF FrameInv, TxnInv, TypeOK, Typed, Steady, Asks
  <1>2. wanted[w] /= configures[w][Len(configures[w])]
    BY <1>1, Zenon DEF HasPendingChanges
  <1>3. configures[w][cur[w]] = configures[w][Len(configures[w])]
    <2>1. ASSUME NEW v \in windows PROVE ConfigureIntent(v, cur) /= "ShouldSend"
      BY <1>1, Zenon DEF ConfigureIntent
    <2>2. ConfigureIntent(w, cur) /= "Throttled"
      <3> SUFFICES ASSUME ConfigureIntent(w, cur) = "Throttled" PROVE FALSE
        BY Zenon
      <3> DEFINE intents == {ConfigureIntent(v, cur) : v \in windows}
      <3>1. "ShouldSend" \notin intents /\ "Throttled" \in intents
        BY <2>1, Zenon
      <3>2. SharedConfigureIntent(cur) =
              IF "ShouldSend" \in intents THEN "ShouldSend"
              ELSE IF "Throttled" \in intents THEN "Throttled"
              ELSE IF "CanSend" \in intents THEN "CanSend"
              ELSE "NotNeeded"
        BY Zenon DEF SharedConfigureIntent
      <3> HIDE DEF intents
      <3>3. SharedConfigureIntent(cur) = "Throttled"
        BY <3>1, <3>2, Zenon
      <3> QED BY <3>3, Zenon
    <2> QED BY <1>1, <1>2, <2>2 DEF ConfigureIntent
  <1> DEFINE c == configures[w]
             a == cur[w]
             k == acked[w]
  <1>4. PICK m \in Nat : m = Len(c)
    BY <1>1
  <1>5. /\ DOMAIN c = 1..m /\ a \in Nat \ {0} /\ k \in Nat \ {0}
        /\ a <= k /\ k <= m /\ m <= a + 1 /\ c[a] = c[m]
        /\ \A n \in DOMAIN c : n + 1 = m => c[n] /= c[n + 1]
    BY <1>1, <1>3, <1>4 DEF InStep, InOrder, Asks
  <1> HIDE DEF c, a, k
  <1>6. a = m
    <2> SUFFICES ASSUME a + 1 = m PROVE FALSE
      BY <1>5
    <2>1. a \in DOMAIN c
      BY <1>5
    <2> QED BY <1>5, <2>1, Zenon
  <1>7. k = m
    BY <1>5, <1>6
  <1>8. pending[w] = {}
    <2> SUFFICES ASSUME NEW p \in pending[w] PROVE FALSE
      BY Zenon
    <2>1. /\ p[1] \in Nat /\ k < p[1] /\ <<w, p[1], p[2]>> \in asked
      BY <1>1, Zenon DEF InStep, k
    <2>2. p[1] <= m
      BY <1>1, <1>4, <2>1, Zenon DEF Asks, c
    <2> QED BY <1>7, <2>1, <2>2
  <1> QED BY <1>2, <1>4, <1>6, <1>7, <1>8 DEF c, a, k

\* A configure that is sent now: its transaction is completed only when it has
\* expired, and is not the one of an earlier configure.
LEMMA AskedNow ==
  ASSUME FrameInv, NEW w \in windows, next[w] /= None
  PROVE  /\ next[w] \in Txns /\ next[w] <= created
         /\ next[w] \notin expired => next[w] \notin completed
         /\ \A a \in asked : a[3] /= next[w] /\ a[2] <= Len(configures[a[1]])
  <1>1. w \in Windows /\ next[w] \in Txns
    BY Zenon DEF FrameInv, TxnInv, TypeOK
  <1> QED BY <1>1, Zenon DEF FrameInv, TxnInv, Past, Fresh, Asks

\* SendConfigures, window by window.
LEMMA SendFacts ==
  ASSUME FrameInv, SendConfigures, NEW w \in Windows
  PROVE  /\ next'[w] = None
         /\ pending[w] \subseteq pending'[w]
         /\ \A p \in pending'[w] \ pending[w] :
              /\ w \in windows /\ HasPendingChanges(w) /\ next[w] /= None
              /\ p = <<Len(configures[w]) + 1, next[w]>>
         /\ w \in windows /\ HasPendingChanges(w) =>
              /\ configures'[w] = Append(configures[w], wanted[w])
              /\ next[w] /= None =>
                   <<Len(configures[w]) + 1, next[w]>> \in pending'[w]
         /\ ~(w \in windows /\ HasPendingChanges(w)) => configures'[w] = configures[w]
  <1>1. w \notin windows => next[w] = None
    BY Zenon DEF FrameInv, Steady
  <1> QED BY <1>1, Zenon DEF SendConfigures

LEMMA SendAsked ==
  ASSUME SendConfigures
  PROVE  /\ asked \subseteq asked'
         /\ \A a \in asked' \ asked : \E w \in windows :
              /\ HasPendingChanges(w) /\ next[w] /= None
              /\ a = <<w, Len(configures[w]) + 1, next[w]>>
         /\ \A w \in windows :
              HasPendingChanges(w) /\ next[w] /= None =>
                <<w, Len(configures[w]) + 1, next[w]>> \in asked'
  BY Zenon DEF SendConfigures

\* The configures sent keep to Asks.
LEMMA SendAsks ==
  ASSUME FrameInv, SendConfigures, windows' = windows, created' = created,
         TypeOK',
         \A w \in windows : HasPendingChanges(w) =>
            wanted[w] /= configures[w][Len(configures[w])]
  PROVE  Asks'
  <1>1. /\ TypeOK /\ Asks /\ windows \subseteq Windows /\ created \in Nat
        /\ asked \subseteq Windows \X Nat \X Txns
        /\ configures \in [Windows -> Seq(Sizes)] /\ None \notin Txns
    BY TransactionConstants DEF FrameInv, TxnInv, TypeOK, Asks, None, Txns
  <1>2. \A w \in Windows : Len(configures[w]) \in Nat
    BY <1>1
  <1>3. ASSUME NEW w \in Windows
        PROVE  /\ Len(configures'[w]) \in Nat /\ Len(configures[w]) <= Len(configures'[w])
               /\ w \in windows /\ HasPendingChanges(w) =>
                    Len(configures'[w]) = Len(configures[w]) + 1
    <2>1. configures[w] \in Seq(Sizes) /\ wanted[w] \in Sizes
      BY Zenon DEF FrameInv, TxnInv, TypeOK
    <2>2. CASE w \in windows /\ HasPendingChanges(w)
      <3>1. configures'[w] = Append(configures[w], wanted[w])
        BY <2>2, SendFacts, Zenon
      <3> QED BY <2>1, <3>1
    <2>3. CASE ~(w \in windows /\ HasPendingChanges(w))
      <3>1. configures'[w] = configures[w]
        BY <2>3, SendFacts, Zenon
      <3> QED BY <2>1, <2>3, <3>1
    <2> QED BY <2>2, <2>3, Zenon
  <1>4. ASSUME NEW a \in asked' \ asked
        PROVE  /\ a \in Windows \X Nat \X Txns
               /\ a[1] \in windows /\ HasPendingChanges(a[1])
               /\ a[2] = Len(configures[a[1]]) + 1 /\ a[3] = next[a[1]] /\ a[3] <= created
    <2>1. PICK w \in windows :
            /\ HasPendingChanges(w) /\ next[w] /= None
            /\ a = <<w, Len(configures[w]) + 1, next[w]>>
      BY SendAsked, Zenon
    <2>2. next[w] \in Txns /\ next[w] <= created
      BY <2>1, AskedNow
    <2>3. Len(configures[w]) + 1 \in Nat /\ w \in Windows
      BY <1>1, <1>2
    <2> QED BY <2>1, <2>2, <2>3, Zenon
  <1>5. asked' \subseteq Windows \X Nat \X Txns
    BY <1>1, <1>4, Zenon
  <1>6. ASSUME NEW a \in asked', NEW b \in asked', a[1] = b[1], a[2] = b[2]
        PROVE  a = b
    <2>1. CASE a \in asked /\ b \in asked
      BY <1>1, <1>6, <2>1, Zenon DEF Asks
    <2>2. CASE a \notin asked /\ b \notin asked
      <3>1. /\ a \in Windows \X Nat \X Txns /\ b \in Windows \X Nat \X Txns
            /\ a[3] = b[3]
        BY <1>4, <1>6, <2>2
      <3> QED BY <1>6, <3>1
    <2>3. ASSUME NEW x \in asked, NEW y \in asked' \ asked, x[1] = y[1], x[2] = y[2]
          PROVE  FALSE
      <3>1. /\ x[2] \in Nat /\ x[1] \in Windows
            /\ x[2] <= Len(configures[x[1]]) /\ x[2] = Len(configures[x[1]]) + 1
        BY <1>1, <1>4, <2>3 DEF Asks
      <3>2. PICK m \in Nat : m = Len(configures[x[1]])
        BY <1>2, <3>1, Zenon
      <3> QED BY <3>1, <3>2
    <2> QED BY <1>6, <2>1, <2>2, <2>3, Zenon
  <1>7. ASSUME NEW a \in asked'
        PROVE  /\ a[2] <= Len(configures'[a[1]]) /\ a[3] <= created'
               /\ \A v \in Windows : next'[v] /= a[3]
    <2>1. a[1] \in Windows /\ a[2] \in Nat /\ a[3] \in Txns
      BY <1>5, Zenon
    <2>2. \A v \in Windows : next'[v] /= a[3]
      BY <1>1, <2>1, SendFacts, Zenon
    <2>3. PICK m \in Nat, n \in Nat :
            m = Len(configures[a[1]]) /\ n = Len(configures'[a[1]]) /\ m <= n
      BY <1>2, <1>3, <2>1
    <2>4. CASE a \in asked
      <3>1. a[2] <= m /\ a[3] <= created
        BY <1>1, <2>3, <2>4 DEF Asks
      <3>2. a[2] <= n
        BY <2>1, <2>3, <3>1
      <3> QED BY <2>2, <2>3, <3>1, <3>2
    <2>5. CASE a \notin asked
      <3>1. a[2] = m + 1 /\ a[3] <= created
        BY <1>4, <2>3, <2>5
      <3>2. n = m + 1
        BY <1>3, <1>4, <2>1, <2>3, <2>5
      <3>3. a[2] <= n
        BY <2>1, <3>1, <3>2
      <3> QED BY <2>2, <2>3, <3>1, <3>3
    <2> QED BY <2>4, <2>5, Zenon
  <1>8. ASSUME NEW w \in windows
        PROVE  /\ w \notin other' /\ configures'[w] /= <<>>
               /\ \A n \in DOMAIN configures'[w] :
                    n + 1 = Len(configures'[w]) =>
                      configures'[w][n] /= configures'[w][n + 1]
    <2>1. /\ configures[w] \in Seq(Sizes) /\ wanted[w] \in Sizes /\ w \in Windows
          /\ configures[w] /= <<>>
          /\ \A n \in DOMAIN configures[w] :
               n + 1 = Len(configures[w]) => configures[w][n] /= configures[w][n + 1]
      BY <1>1, Zenon DEF TypeOK, Asks
    <2>2. w \notin other'
      BY Zenon DEF SendConfigures
    <2>3. CASE HasPendingChanges(w)
      <3> DEFINE c == configures[w]
                 e == wanted[w]
      <3>1. configures'[w] = Append(c, e) /\ e /= c[Len(c)]
        BY <2>1, <2>3, SendFacts, Zenon
      <3>2. c \in Seq(Sizes) /\ e \in Sizes /\ c /= <<>>
        BY <2>1, Zenon
      <3> HIDE DEF c, e
      <3> DEFINE d == Append(c, e)
      <3>3. Len(c) \in Nat \ {0} /\ Len(d) = Len(c) + 1 /\ DOMAIN d = 1..(Len(c) + 1)
            /\ d[Len(c)] = c[Len(c)] /\ d[Len(c) + 1] = e
        BY <3>2
      <3> HIDE DEF d
      <3>4. PICK m \in Nat : m = Len(c)
        BY <3>3, Zenon
      <3>5. ASSUME NEW n \in DOMAIN d, n + 1 = Len(d) PROVE d[n] /= d[n + 1]
        <4>1. n = m /\ n \in Nat
          BY <3>3, <3>4, <3>5
        <4> QED BY <3>1, <3>3, <3>4, <4>1
      <3>6. d /= <<>>
        BY <3>3
      <3>7. configures'[w] = d
        BY <3>1, Zenon DEF d
      <3> QED BY <2>2, <3>5, <3>6, <3>7
    <2>4. CASE ~HasPendingChanges(w)
      <3>1. configures'[w] = configures[w]
        BY <2>1, <2>4, SendFacts, Zenon
      <3> QED BY <2>1, <2>2, <3>1, Zenon
    <2> QED BY <2>3, <2>4, Zenon
  <1> QED BY <1>5, <1>6, <1>7, <1>8 DEF Asks

\* What a refresh sends, to windows that applied and acked all they were sent.
Sends ==
    /\ Asks' /\ asked \subseteq asked'
    /\ \A w \in windows :
        acked[w] <= Len(configures'[w]) /\ Len(configures'[w]) <= applied'[w] + 1
    /\ \A w \in Windows :
        /\ w \notin windows => next'[w] = None
        /\ pending[w] \subseteq pending'[w]
        /\ \A p \in pending'[w] \ pending[w] :
            /\ w \in windows /\ next[w] /= None /\ p[2] = next[w]
            /\ acked[w] < p[1] /\ <<w, p[1], p[2]>> \in asked'
    /\ \A a \in asked' \ asked :
        /\ a[1] \in windows /\ next[a[1]] /= None /\ a[3] = next[a[1]]
        /\ applied'[a[1]] < a[2] /\ acked[a[1]] < a[2]
        /\ <<a[2], a[3]>> \in pending'[a[1]]

LEMMA RefreshSends ==
  ASSUME FrameInv, TypeOK', Refresh, Typed(acked, applied', queue'),
         Steady(completed, acked, applied', next, pending, queue', fences)
  PROVE  Sends
  <1>1. /\ windows \subseteq Windows /\ Asks
        /\ UNCHANGED <<wanted, acked, windows, fences, created>>
    BY Zenon DEF FrameInv, TxnInv, TypeOK, Refresh
  <1>2. ASSUME NEW w \in windows
        PROVE  /\ configures[w] \in Seq(Sizes) /\ wanted[w] \in Sizes
               /\ Len(configures[w]) \in Nat
               /\ acked[w] \in Nat /\ applied'[w] \in Nat
               /\ acked[w] <= Len(configures[w]) /\ Len(configures[w]) <= applied'[w] + 1
    <2>1. /\ configures[w] \in Seq(Sizes) /\ wanted[w] \in Sizes
          /\ acked[w] \in Nat /\ applied'[w] \in Nat
      BY <1>1, Zenon DEF FrameInv, TxnInv, TypeOK, Typed
    <2>2. Len(configures[w]) \in Nat
      BY <2>1
    <2> QED BY <2>1, <2>2, Zenon DEF Steady, InStep
  <1>3. CASE UNCHANGED <<configures, pending, next, other, asked>>
    <2>1. Asks'
      BY <1>1, <1>3, Zenon DEF Asks
    <2>2. \A w \in Windows \ windows : next[w] = None
      BY Zenon DEF Steady
    <2> QED BY <1>2, <1>3, <2>1, <2>2 DEF Sends
  <1>4. CASE /\ SharedConfigureIntent(applied') \in {"CanSend", "ShouldSend"}
             /\ SendConfigures
    <2>1. ASSUME NEW w \in windows, HasPendingChanges(w)
          PROVE  /\ applied'[w] = Len(configures[w]) /\ acked[w] = Len(configures[w])
                 /\ wanted[w] /= configures[w][Len(configures[w])]
      BY <1>4, <2>1, SentIsCurrent, Zenon
    <2>2. Asks'
      BY <1>1, <1>4, <2>1, SendAsks
    <2>3. ASSUME NEW w \in windows
          PROVE  acked[w] <= Len(configures'[w]) /\ Len(configures'[w]) <= applied'[w] + 1
      <3>1. CASE HasPendingChanges(w)
        <4>1. configures'[w] = Append(configures[w], wanted[w])
          BY <1>1, <1>4, <3>1, SendFacts, Zenon
        <4>2. Len(configures'[w]) = Len(configures[w]) + 1
          BY <1>2, <4>1
        <4>3. PICK m \in Nat : m = Len(configures[w])
          BY <1>2, Zenon
        <4> QED BY <2>1, <3>1, <4>2, <4>3
      <3>2. CASE ~HasPendingChanges(w)
        <4>1. configures'[w] = configures[w]
          BY <1>1, <1>4, <3>2, SendFacts, Zenon
        <4> QED BY <1>2, <4>1, Zenon
      <3> QED BY <3>1, <3>2, Zenon
    <2>4. ASSUME NEW w \in windows, HasPendingChanges(w)
          PROVE  applied'[w] < Len(configures[w]) + 1 /\ acked[w] < Len(configures[w]) + 1
      <3>1. PICK m \in Nat : m = Len(configures[w])
        BY <1>2, Zenon
      <3>2. applied'[w] = m /\ acked[w] = m
        BY <2>1, <2>4, <3>1, Zenon
      <3> QED BY <3>1, <3>2
    <2>5. ASSUME NEW w \in Windows
          PROVE  /\ w \notin windows => next'[w] = None
                 /\ pending[w] \subseteq pending'[w]
                 /\ \A p \in pending'[w] \ pending[w] :
                      /\ w \in windows /\ next[w] /= None /\ p[2] = next[w]
                      /\ acked[w] < p[1] /\ <<w, p[1], p[2]>> \in asked'
      <3>1. next'[w] = None /\ pending[w] \subseteq pending'[w]
        BY <1>4, SendFacts, Zenon
      <3>2. ASSUME NEW p \in pending'[w] \ pending[w]
            PROVE  /\ w \in windows /\ next[w] /= None /\ p[2] = next[w]
                   /\ acked[w] < p[1] /\ <<w, p[1], p[2]>> \in asked'
        <4>1. /\ w \in windows /\ HasPendingChanges(w) /\ next[w] /= None
              /\ p = <<Len(configures[w]) + 1, next[w]>>
          BY <1>4, SendFacts, Zenon
        <4>2. p[1] = Len(configures[w]) + 1 /\ p[2] = next[w]
          BY <4>1, Zenon
        <4> QED BY <1>4, <2>4, <4>1, <4>2, SendAsked
      <3> QED BY <3>1, <3>2, Zenon
    <2>6. ASSUME NEW a \in asked' \ asked
          PROVE  /\ a[1] \in windows /\ next[a[1]] /= None /\ a[3] = next[a[1]]
                 /\ applied'[a[1]] < a[2] /\ acked[a[1]] < a[2]
                 /\ <<a[2], a[3]>> \in pending'[a[1]]
      <3>1. PICK w \in windows :
              /\ HasPendingChanges(w) /\ next[w] /= None
              /\ a = <<w, Len(configures[w]) + 1, next[w]>>
        BY <1>4, SendAsked, Zenon
      <3>2. a[1] = w /\ a[2] = Len(configures[w]) + 1 /\ a[3] = next[w]
        BY <3>1, Zenon
      <3>3. <<Len(configures[w]) + 1, next[w]>> \in pending'[w]
        BY <1>1, <1>4, <3>1, SendFacts, Zenon
      <3> QED BY <2>4, <3>1, <3>2, <3>3, Zenon
    <2>7. asked \subseteq asked'
      BY <1>4, SendAsked, Zenon
    <2> QED BY <2>2, <2>3, <2>5, <2>6, <2>7 DEF Sends
  <1>5. /\ applied' = [w \in Windows |-> IF w \in cleared
                          THEN AppliedOf(queue[w], completed, applied[w]) ELSE applied[w]]
        /\ \/ UNCHANGED <<configures, pending, next, other, asked>>
           \/ /\ SharedConfigureIntent(applied') \in {"CanSend", "ShouldSend"}
              /\ SendConfigures
    BY Zenon DEF Refresh
  <1> QED BY <1>3, <1>4, <1>5, Zenon

LEMMA RefreshFrame ==
  ASSUME FrameInv, TypeOK', Refresh
  PROVE  /\ Asks' /\ FrameIsConsistent'
         /\ Steady(completed, acked, applied, next, pending, queue, fences)'
  <1> DEFINE S == Dropped(created, next', pending', queue', fences)
  <1>1. /\ queue' = [w \in Windows |->
                       IF w \in cleared THEN RestOf(queue[w], completed)
                       ELSE queue[w]]
        /\ applied' = [w \in Windows |->
                       IF w \in cleared
                       THEN AppliedOf(queue[w], completed, applied[w])
                       ELSE applied[w]]
    BY Zenon DEF Refresh
  <1>2. /\ phase' = "drawn" /\ completed' = completed \cup S
        /\ UNCHANGED <<wanted, acked, windows, fences, created, expired>>
    BY Zenon DEF Refresh
  <1>3. /\ Steady(completed, acked, applied', next, pending, queue', fences)
        /\ Typed(acked, applied', queue')
        /\ \A w \in windows : queue'[w] /= <<>> => ~Released(queue'[w][1], completed)
    BY <1>1, RefreshRuns, Zenon
  <1>4. Sends
    BY <1>3, RefreshSends, Zenon
  <1>5. /\ \A u \in S : ~Held(u, next', pending', queue', fences)
        /\ \A u \in 1..created : u \notin completed \cup S =>
             Held(u, next', pending', queue', fences)
    BY DroppedOrHeld, Zenon
  <1> HIDE DEF S
  <1>6. /\ TypeOK /\ Asks /\ windows \subseteq Windows /\ created \in Nat
        /\ asked \subseteq Windows \X Nat \X Txns
    <2>1. /\ TypeOK /\ Asks /\ windows \subseteq Windows /\ created \in Nat
      BY DEF FrameInv, TxnInv, TypeOK
    <2> QED BY <2>1, Zenon DEF Asks
  <1>7. ASSUME NEW a \in asked
        PROVE  /\ a[1] \in Windows /\ a[2] \in Nat /\ a[3] \in Txns
               /\ \A v \in Windows : next[v] /= a[3]
               /\ a[3] \notin S
    <2>1. /\ a[1] \in Windows /\ a[2] \in Nat /\ a[3] \in Txns /\ a[3] <= created
          /\ \A v \in Windows : next[v] /= a[3]
      BY <1>6, Zenon DEF Asks
    <2>2. ASSUME a[3] \in S PROVE FALSE
      <3>1. a[3] \notin completed
        BY <2>2, Zenon DEF S, Dropped
      <3>2. a[3] \in 1..created
        BY <1>6, <2>1, TransactionConstants DEF Txns
      <3>3. Held(a[3], next, pending, queue', fences)
        BY <1>3, <3>1, <3>2, Zenon DEF Steady
      <3>4. Held(a[3], next', pending', queue', fences)
        BY <1>4, <2>1, <3>3, Zenon DEF Held, Sends
      <3> QED BY <1>5, <2>2, <3>4, Zenon
    <2> QED BY <2>1, <2>2, Zenon
  <1>8. ASSUME NEW a \in asked, a[1] \in windows, a[3] \notin expired
        PROVE  /\ Answered(a[1], a[2], a[3], completed', acked, applied', pending',
                           queue', fences)
               /\ applied'[a[1]] >= a[2] <=> a[3] \in completed'
    <2>1. Answered(a[1], a[2], a[3], completed, acked, applied', pending, queue', fences)
      BY <1>3, <1>8, Zenon DEF Steady
    <2>2. InStep(a[1], acked, applied', pending, queue')
      BY <1>3, <1>8, Zenon DEF Steady
    <2>3. applied'[a[1]] >= a[2] <=> a[3] \in completed
      BY <1>3, <1>6, <1>7, <1>8, <2>1, <2>2, DrainedIsConsistent
    <2>4. a[3] \in completed' <=> a[3] \in completed
      BY <1>2, <1>7, Zenon
    <2>5. Sole(a[3], a[1], a[2], pending, queue', fences) =>
            Sole(a[3], a[1], a[2], pending', queue', fences)
      <3>1. ASSUME NEW v \in Windows, NEW p \in pending'[v], p[2] = a[3]
            PROVE  p \in pending[v]
        <4>1. p \notin pending[v] => p[2] = next[v]
          BY <1>4, Zenon DEF Sends
        <4> QED BY <1>7, <3>1, <4>1, Zenon
      <3> QED BY <3>1, Zenon DEF Sole
    <2>6. Waiting(a[1], a[2], a[3], acked, applied', pending, queue', fences) =>
            Waiting(a[1], a[2], a[3], acked, applied', pending', queue', fences)
      BY <1>4, <1>7, <2>5, Zenon DEF Waiting, Sends
    <2>7. Answered(a[1], a[2], a[3], completed', acked, applied', pending', queue', fences)
      BY <2>1, <2>4, <2>6, Zenon DEF Answered
    <2> QED BY <2>3, <2>4, <2>7, Zenon
  <1>9. ASSUME NEW a \in asked' \ asked, a[3] \notin expired
        PROVE  /\ Answered(a[1], a[2], a[3], completed', acked, applied', pending',
                           queue', fences)
               /\ a[3] \notin completed' /\ applied'[a[1]] < a[2]
    <2> DEFINE w == a[1]
               s == a[2]
               t == a[3]
    <2>1. /\ w \in windows /\ next[w] /= None /\ t = next[w]
          /\ applied'[w] < s /\ acked[w] < s /\ <<s, t>> \in pending'[w]
      BY <1>4, Zenon DEF Sends
    <2>2. s \in Nat /\ w \in Windows
      BY <1>4, <1>6, <2>1, Zenon DEF Sends, Asks
    <2>3. t \notin completed
      BY <1>9, <2>1, AskedNow, Zenon
    <2> HIDE DEF w, s, t
    <2>4. Held(t, next', pending', queue', fences)
      BY <2>1, <2>2, Zenon DEF Held
    <2>5. t \notin completed'
      BY <1>2, <1>5, <2>3, <2>4, Zenon
    <2>6. ASSUME NEW i \in DOMAIN queue'[w] PROVE ~Answers(queue'[w], i, s)
      <3>1. queue'[w] \in Seq(Commits) /\ acked[w] \in Nat
        BY <1>3, <2>2, Zenon DEF Typed
      <3>2. queue'[w][i].serial \in Nat /\ queue'[w][i].serial <= acked[w]
        BY <1>3, <2>1, <3>1, SerialsAreNat, Zenon DEF Steady, InStep, InOrder
      <3>3. queue'[w][i].serial /= s
        BY <2>1, <2>2, <3>1, <3>2
      <3> QED BY <3>3, Zenon DEF Answers
    <2>7. Waiting(w, s, t, acked, applied', pending', queue', fences)
      BY <2>1, <2>6, Zenon DEF Waiting
    <2>8. Answered(w, s, t, completed', acked, applied', pending', queue', fences)
      BY <2>5, <2>7, Zenon DEF Answered
    <2> QED BY <2>1, <2>5, <2>8, Zenon DEF w, s, t
  <1>10. FrameIsConsistent'
    <2> SUFFICES ASSUME NEW a \in asked', a[1] \in windows, a[3] \notin expired
                 PROVE  applied'[a[1]] >= a[2] <=> a[3] \in completed'
      BY <1>2, Zenon DEF FrameIsConsistent
    <2>1. CASE a \in asked
      BY <1>8, <2>1, Zenon
    <2>2. CASE a \notin asked
      <3>1. a[3] \notin completed' /\ applied'[a[1]] < a[2]
        BY <1>9, <2>2, Zenon
      <3>2. applied'[a[1]] \in Nat /\ a[2] \in Nat
        BY <1>3, <1>4, <1>6, Zenon DEF Typed, Sends, Asks
      <3> QED BY <3>1, <3>2
    <2> QED BY <2>1, <2>2, Zenon
  <1>11. ASSUME NEW w \in windows PROVE InStep(w, acked, applied, pending, queue)'
    <2>1. /\ InOrder(applied'[w], queue'[w], acked[w])
          /\ \A i \in DOMAIN queue'[w] : queue'[w][i].fence => w \in Fenced
          /\ \A p \in pending[w] : acked[w] < p[1] /\ <<w, p[1], p[2]>> \in asked
      BY <1>3, Zenon DEF Steady, InStep
    <2>2. \A p \in pending'[w] : acked[w] < p[1] /\ <<w, p[1], p[2]>> \in asked'
      BY <1>4, <1>6, <2>1, Zenon DEF Sends
    <2>3. acked[w] <= Len(configures'[w]) /\ Len(configures'[w]) <= applied'[w] + 1
      BY <1>4, Zenon DEF Sends
    <2> QED BY <1>2, <2>1, <2>2, <2>3, Zenon DEF InStep
  <1>12. \A w \in Windows \ windows : queue'[w] = <<>> /\ next'[w] = None
    BY <1>3, <1>4, Zenon DEF Steady, Sends
  <1>13. ASSUME NEW a \in asked', a[1] \in windows, a[3] \notin expired
         PROVE  Answered(a[1], a[2], a[3], completed', acked, applied', pending', queue',
                         fences)
    BY <1>8, <1>9, <1>13, Zenon
  <1>14. \A u \in 1..created : u \notin completed' => Held(u, next', pending', queue', fences)
    BY <1>2, <1>5, Zenon
  <1>15. Steady(completed, acked, applied, next, pending, queue, fences)'
    BY <1>2, <1>11, <1>12, <1>13, <1>14, Zenon DEF Steady
  <1>16. Asks'
    BY <1>4, Zenon DEF Sends
  <1> QED BY <1>10, <1>15, <1>16, Zenon

-----------------------------------------------------------------------------
(* Fresh, and the invariant.                                               *)

\* A handler completes transactions that have no clone left, or that expire.
LEMMA HandlerFresh ==
  ASSUME FrameInv, NEW S, NEW pd, NEW qu, NEW fe,
         created' \in Nat, created <= created',
         completed' = completed \cup S, S \subseteq 1..created',
         expired \subseteq expired',
         \A t \in S \ expired' : ~Held(t, next', pd, qu, fe),
         timers' \subseteq timers \cup 1..created',
         \A v \in Windows : next'[v] \in {next[v], None, created + 1}
  PROVE  Fresh'
  <1>1. /\ Fresh /\ completed \subseteq Nat /\ timers \subseteq Nat /\ created \in Nat
        /\ None \notin completed /\ created + 1 \notin completed
    BY TransactionConstants DEF FrameInv, TxnInv, TypeOK, Txns, None, Fresh
  <1>2. \A t \in completed' \cup timers' : t <= created'
    <2>1. \A t \in completed \cup timers : t \in Nat /\ t <= created
      BY <1>1, Zenon DEF Fresh
    <2>2. \A t \in completed \cup timers : t <= created'
      BY <1>1, <2>1
    <2>3. \A t \in 1..created' : t <= created'
      OBVIOUS
    <2>4. completed' \cup timers' \subseteq (completed \cup timers) \cup 1..created'
      BY Zenon
    <2> QED BY <2>2, <2>3, <2>4, Zenon
  <1>3. ASSUME NEW v \in Windows, next'[v] \in completed' PROVE next'[v] \in expired'
    <2>1. CASE next'[v] \in S
      BY <2>1, Zenon DEF Held
    <2>2. CASE next'[v] \in completed
      BY <1>1, <2>2, Zenon DEF Fresh
    <2> QED BY <1>3, <2>1, <2>2, Zenon
  <1> QED BY <1>2, <1>3, Zenon DEF Fresh

LEMMA DroppedArePast ==
  ASSUME NEW n, NEW nx, NEW pd, NEW qu, NEW fe
  PROVE  Dropped(n, nx, pd, qu, fe) \subseteq 1..n
  BY Zenon DEF Dropped

LEMMA TimersFresh ==
  ASSUME FrameInv, NEW t \in Txns, Deadline(t) \/ OrphanFenceSignalled(t)
  PROVE  Fresh'
  <1>1. created \in Nat /\ Txns \subseteq Nat /\ Fresh
    BY TransactionConstants DEF FrameInv, TxnInv, TypeOK, Txns
  <1>2. CASE Deadline(t)
    <2>1. /\ completed' = completed \cup {t} /\ expired' = expired \cup {t} /\ t \in timers
          /\ UNCHANGED <<next, pending, queue, fences, created, timers>>
      BY <1>2, Zenon DEF Deadline, Complete, holderVars
    <2>2. \A u \in completed' \cup timers' : u <= created'
      BY <1>1, <2>1, Zenon DEF Fresh
    <2> QED BY <1>1, <2>1, <2>2, Zenon DEF Fresh
  <1>3. CASE OrphanFenceSignalled(t)
    <2> DEFINE S == Dropped(created, next, pending, queue, fences')
    <2>1. /\ completed' = completed \cup S
          /\ UNCHANGED <<next, pending, queue, created, timers, expired>>
      BY <1>3, Zenon DEF OrphanFenceSignalled, Complete
    <2>2. S \subseteq 1..created' /\ \A u \in S : ~Held(u, next', pending, queue, fences')
      BY <2>1, DroppedArePast, DroppedOrHeld, Zenon
    <2> HIDE DEF S
    <2>3. created' \in Nat /\ created <= created'
      BY <1>1, <2>1
    <2> QED BY <2>1, <2>2, <2>3, HandlerFresh, Zenon
  <1> QED BY <1>2, <1>3, Zenon

LEMMA LayoutFresh ==
  ASSUME FrameInv, NEW sizes \in Layouts, Rearrange(sizes) \/ RearrangeTogether(sizes)
  PROVE  Fresh'
  <1>1. created \in Nat /\ Fresh
    BY DEF FrameInv, TxnInv, TypeOK
  <1>2. CASE Rearrange(sizes)
    BY <1>1, <1>2, Zenon DEF Fresh, Rearrange, holderVars, txnVars
  <1>3. CASE RearrangeTogether(sizes)
    <2> DEFINE t  == created + 1
               nx == [w \in Windows |-> IF w \in windows THEN t ELSE next[w]]
               S  == Dropped(t, nx, pending, queue, fences)
    <2>1. /\ completed' = completed \cup S /\ created' = t /\ next' = nx
          /\ UNCHANGED <<pending, queue, fences, timers, expired>>
      BY <1>3, Zenon DEF RearrangeTogether, Complete
    <2>2. S \subseteq 1..created' /\ \A u \in S : ~Held(u, next', pending, queue, fences)
      BY <2>1, DroppedArePast, DroppedOrHeld, Zenon
    <2> HIDE DEF S
    <2>3. created' \in Nat /\ created <= created'
      BY <1>1, <2>1
    <2>4. \A v \in Windows : next'[v] \in {next[v], None, created + 1}
      BY <2>1, Zenon
    <2> HIDE DEF t, nx
    <2> QED BY <2>1, <2>2, <2>3, <2>4, HandlerFresh, Zenon
  <1> QED BY <1>2, <1>3, Zenon

LEMMA DestroyedFresh ==
  ASSUME FrameInv, NEW d \in Windows, NEW sizes \in Layouts, ToplevelDestroyed(d, sizes)
  PROVE  Fresh'
  <1> DEFINE t == created + 1
             S == Dropped(t, next', pending', queue', fences')
  <1>1. created \in Nat
    BY DEF FrameInv, TxnInv, TypeOK
  <1>2. /\ completed' = completed \cup S /\ created' = t
        /\ next' = [w \in Windows |-> IF w \in windows \ {d} THEN t
                                      ELSE IF w = d THEN None ELSE next[w]]
        /\ timers' \subseteq timers \cup {t}
        /\ UNCHANGED expired
    BY Zenon DEF ToplevelDestroyed, Complete, RegisterDeadline
  <1>3. /\ S \subseteq 1..created'
        /\ \A u \in S : ~Held(u, next', pending', queue', fences')
    BY <1>2, DroppedArePast, DroppedOrHeld, Zenon
  <1> HIDE DEF S
  <1>4. /\ created' \in Nat /\ created <= created' /\ timers' \subseteq timers \cup 1..created'
        /\ \A v \in Windows : next'[v] \in {next[v], None, created + 1}
    BY <1>1, <1>2
  <1> HIDE DEF t
  <1> QED BY <1>2, <1>3, <1>4, HandlerFresh, Zenon

LEMMA FenceFresh ==
  ASSUME FrameInv, NEW w \in Windows, FenceSignalled(w)
  PROVE  Fresh'
  <1>1. created \in Nat
    BY DEF FrameInv, TxnInv, TypeOK
  <1>2. PICK q : LET S == Dropped(created, next, pending, q, fences)
                 IN /\ completed' = completed \cup S
                    /\ UNCHANGED <<next, created, timers, expired>>
    BY Zenon DEF FenceSignalled, Complete
  <1> DEFINE S == Dropped(created, next, pending, q, fences)
  <1>3. S \subseteq 1..created' /\ \A u \in S : ~Held(u, next', pending, q, fences)
    BY <1>2, DroppedArePast, DroppedOrHeld, Zenon
  <1>4. completed' = completed \cup S
    BY <1>2, Zenon
  <1> HIDE DEF S
  <1>5. created' \in Nat /\ created <= created'
    BY <1>1, <1>2
  <1> QED BY <1>2, <1>3, <1>4, <1>5, HandlerFresh, Zenon

LEMMA CommitFresh ==
  ASSUME FrameInv, NEW w \in Windows, NEW serial \in 1..MaxConfigures, Commit(w, serial)
  PROVE  Fresh'
  <1> DEFINE t == NewestOf(TakenUpTo(w, serial))
             live == t /= None /\ t \notin completed
  <1>1. created \in Nat /\ pending[w] \subseteq Nat \X Txns
    BY DEF FrameInv, TxnInv, TypeOK
  <1>2. PICK q, rest :
          LET S == Dropped(created, next, rest, q, fences)
          IN /\ completed' = completed \cup S
             /\ timers' = timers \cup (IF live THEN {t} ELSE {})
             /\ UNCHANGED <<next, created, expired>>
    BY Zenon DEF Commit, RegisterDeadline
  <1> DEFINE S == Dropped(created, next, rest, q, fences)
  <1>3. S \subseteq 1..created' /\ \A u \in S : ~Held(u, next', rest, q, fences)
    BY <1>2, DroppedArePast, DroppedOrHeld, Zenon
  <1>4. completed' = completed \cup S /\ timers' = timers \cup (IF live THEN {t} ELSE {})
    BY <1>2, Zenon
  <1> HIDE DEF S
  <1>5. live => t \in 1..created
    <2> SUFFICES ASSUME t /= None PROVE t \in 1..created
      BY Zenon
    <2>1. TakenUpTo(w, serial) /= {}
      BY Zenon DEF NewestOf
    <2>2. \E p \in TakenUpTo(w, serial) : t = p[2]
      <3>1. /\ TakenUpTo(w, serial) \subseteq Nat \X Txns /\ serial \in Nat
            /\ \A p \in TakenUpTo(w, serial) : p[1] <= serial
        BY <1>1, TransactionConstants DEF TakenUpTo
      <3> QED BY <3>1, NewestIsOne, Zenon
    <2>3. PICK p \in pending[w] : t = p[2]
      BY <2>2, Zenon DEF TakenUpTo
    <2>4. p[2] \in Txns /\ p[2] <= created
      BY <1>1, Zenon DEF FrameInv, TxnInv, Past
    <2> HIDE DEF t
    <2> QED BY <1>1, <2>3, <2>4, TransactionConstants DEF Txns
  <1>6. timers' \subseteq timers \cup 1..created'
    BY <1>2, <1>4, <1>5, Zenon
  <1> HIDE DEF live, t
  <1>7. created' \in Nat /\ created <= created'
    BY <1>1, <1>2
  <1> QED BY <1>2, <1>3, <1>4, <1>6, <1>7, HandlerFresh, Zenon

LEMMA RefreshFresh ==
  ASSUME FrameInv, Refresh
  PROVE  Fresh'
  <1> DEFINE S == Dropped(created, next', pending', queue', fences)
  <1>1. created \in Nat
    BY DEF FrameInv, TxnInv, TypeOK
  <1>2. /\ queue' = [w \in Windows |->
                       IF w \in cleared THEN RestOf(queue[w], completed) ELSE queue[w]]
        /\ completed' = completed \cup S
        /\ UNCHANGED <<created, timers, expired>>
    BY Zenon DEF Refresh
  <1>3. S \subseteq 1..created' /\ \A u \in S : ~Held(u, next', pending', queue', fences)
    BY <1>2, DroppedArePast, DroppedOrHeld, Zenon
  <1> HIDE DEF S
  <1>4. created' \in Nat /\ created <= created'
    BY <1>1, <1>2
  <1>5. \A v \in Windows : next'[v] \in {next[v], None, created + 1}
    <2>1. CASE UNCHANGED <<configures, pending, next, other, asked>>
      BY <2>1, Zenon
    <2>2. CASE SendConfigures
      BY <2>2, SendFacts, Zenon
    <2> QED BY <2>1, <2>2, Zenon DEF Refresh
  <1> QED BY <1>2, <1>3, <1>4, <1>5, HandlerFresh, Zenon

LEMMA InitFrameInv == Init => FrameInv
  <1> SUFFICES ASSUME Init PROVE FrameInv
    BY Zenon
  <1>1. TxnInv
    BY InitTxnInv, Zenon
  <1>2. Asks
    <2>1. ASSUME NEW w \in Windows
          PROVE  /\ configures[w] /= <<>> /\ Len(configures[w]) = 1
                 /\ DOMAIN configures[w] = {1}
      BY DEF Init
    <2> QED BY <2>1 DEF Asks, Init
  <1>3. Fresh /\ FrameIsConsistent
    BY Zenon DEF Init, Fresh, FrameIsConsistent
  <1>4. ASSUME NEW w \in Windows PROVE InStep(w, acked, applied, pending, queue)
    <2>1. /\ Len(configures[w]) = 1 /\ acked[w] = 1 /\ applied[w] = 1 /\ pending[w] = {}
          /\ queue[w] = <<>> /\ DOMAIN queue[w] = {}
      BY DEF Init
    <2> QED BY <2>1 DEF InStep, InOrder
  <1>5. Steady(completed, acked, applied, next, pending, queue, fences)
    <2>1. windows = Windows /\ asked = {} /\ created = 0
      BY Zenon DEF Init
    <2>2. 1..created = {}
      BY <2>1
    <2> QED BY <1>4, <2>1, <2>2, Zenon DEF Steady
  <1> QED BY <1>1, <1>2, <1>3, <1>5, Zenon DEF FrameInv

LEMMA NextFrameInv ==
  ASSUME ~OtherChanges
  PROVE  FrameInv /\ [Next]_vars => FrameInv'
  <1> SUFFICES ASSUME FrameInv, [Next]_vars PROVE FrameInv'
    BY Zenon
  <1>1. TxnInv'
    BY NextTxnInv, Zenon DEF FrameInv
  <1>2. TypeOK'
    BY <1>1, Zenon DEF TxnInv
  <1>3. CASE UNCHANGED vars
    <2>1. Asks' /\ Fresh' /\ FrameIsConsistent'
      BY <1>3, Zenon
         DEF vars, surfaceVars, holderVars, txnVars, FrameInv, Asks, Fresh,
         FrameIsConsistent
    <2>2. Steady(completed, acked, applied, next, pending, queue, fences)'
      BY <1>3, Zenon
         DEF vars, surfaceVars, holderVars, txnVars, FrameInv, Steady, InStep
    <2> QED BY <1>1, <2>1, <2>2, Zenon DEF FrameInv
  <1>4. CASE Next
    <2>1. CASE Refresh
      BY <1>1, <1>2, <2>1, RefreshFrame, RefreshFresh, Zenon DEF FrameInv
    <2>2. ASSUME NEW w \in Windows, NEW serial \in 1..MaxConfigures, Commit(w, serial)
          PROVE  FrameInv'
      BY <1>1, <2>2, CommitFrame, CommitFresh, Zenon DEF FrameInv
    <2>3. ASSUME NEW w \in Windows, FenceSignalled(w) PROVE FrameInv'
      BY <1>1, <2>3, FenceFrame, FenceFresh, Zenon DEF FrameInv
    <2>4. ASSUME NEW w \in Windows, NEW sizes \in Layouts, ToplevelDestroyed(w, sizes)
          PROVE  FrameInv'
      BY <1>1, <2>4, DestroyedFrame, DestroyedFresh, Zenon DEF FrameInv
    <2>5. ASSUME NEW sizes \in Layouts, Rearrange(sizes) \/ RearrangeTogether(sizes)
          PROVE  FrameInv'
      BY <1>1, <2>5, LayoutFrame, LayoutFresh, Zenon DEF FrameInv
    <2>6. ASSUME NEW t \in Txns, Deadline(t) \/ OrphanFenceSignalled(t)
          PROVE  FrameInv'
      BY <1>1, <2>6, TimersFrame, TimersFresh, Zenon DEF FrameInv
    <2>7. ASSUME NEW w \in Windows, ChangeOther(w) PROVE FrameInv'
      BY <2>7, Zenon DEF ChangeOther
    <2> QED BY <1>4, <2>1, <2>2, <2>3, <2>4, <2>5, <2>6, <2>7, Zenon DEF Next
  <1> QED BY <1>3, <1>4, Zenon

\* A window that has not acked yet is in the transaction of its last configure,
\* and one that has waits for that transaction only.
LEMMA OneInFlight ==
  ASSUME FrameInv, NEW w \in windows
  PROVE  /\ \A p, r \in pending[w] : p[2] = r[2]
         /\ pending[w] /= {} => \A i \in DOMAIN queue[w] : queue[w][i].blocker = None
         /\ \A i, j \in DOMAIN queue[w] :
              queue[w][i].blocker /= None /\ queue[w][j].blocker /= None => i = j
  <1>1. /\ w \in Windows /\ Asks /\ InStep(w, acked, applied, pending, queue)
        /\ pending[w] \subseteq Nat \X Txns
        /\ acked[w] \in Nat /\ applied[w] \in Nat
        /\ configures[w] \in Seq(Sizes) /\ queue[w] \in Seq(Commits)
    BY Zenon DEF FrameInv, TxnInv, TypeOK, Steady
  <1>2. PICK m \in Nat : m = Len(configures[w])
    BY <1>1
  <1> DEFINE k == acked[w]
             a == applied[w]
             q == queue[w]
  <1>3. /\ k \in Nat /\ a \in Nat /\ a <= k /\ k <= m /\ m <= a + 1
        /\ InOrder(a, q, k) /\ q \in Seq(Commits)
    BY <1>1, <1>2, Zenon DEF InStep, InOrder
  <1>4. ASSUME NEW p \in pending[w]
        PROVE  p[1] = m /\ a = k /\ <<w, p[1], p[2]>> \in asked
    <2>1. p[1] \in Nat /\ k < p[1] /\ <<w, p[1], p[2]>> \in asked
      BY <1>1, Zenon DEF InStep
    <2>2. p[1] <= m
      BY <1>1, <1>2, <2>1, Zenon DEF Asks
    <2> HIDE DEF k, a, q
    <2> QED BY <1>3, <2>1, <2>2
  <1> HIDE DEF k, a, q
  <1>5. ASSUME NEW p \in pending[w], NEW r \in pending[w] PROVE p[2] = r[2]
    <2> DEFINE x == <<w, p[1], p[2]>>
               y == <<w, r[1], r[2]>>
    <2>1. x \in asked /\ y \in asked /\ x[1] = y[1] /\ x[2] = y[2]
      BY <1>4, Zenon
    <2>2. x = y
      BY <1>1, <2>1, Zenon DEF Asks
    <2> QED BY <2>2, Zenon
  <1>6. \A i \in DOMAIN q : q[i].serial \in Nat
    BY <1>3, SerialsAreNat, Zenon
  <1>7. ASSUME NEW i \in DOMAIN q, q[i].blocker /= None
        PROVE  a < q[i].serial /\ q[i].serial <= k
    BY <1>3, <1>7, Zenon DEF InOrder
  <1>8. pending[w] /= {} => \A i \in DOMAIN q : q[i].blocker = None
    <2> SUFFICES ASSUME pending[w] /= {}, NEW i \in DOMAIN q, q[i].blocker /= None
                 PROVE  FALSE
      BY Zenon
    <2>1. a = k
      BY <1>4, Zenon
    <2>2. PICK n \in Nat : n = q[i].serial
      BY <1>6, Zenon
    <2>3. a < n /\ n <= k
      BY <1>7, <2>2, Zenon
    <2> QED BY <1>3, <2>1, <2>3
  <1>9. ASSUME NEW i \in DOMAIN q, NEW j \in DOMAIN q,
               q[i].blocker /= None, q[j].blocker /= None, i < j
        PROVE  FALSE
    <2>1. q[i].serial < q[j].serial
      BY <1>3, <1>9, Zenon DEF InOrder
    <2>2. /\ a < q[i].serial /\ q[j].serial <= k
          /\ q[i].serial \in Nat /\ q[j].serial \in Nat
      BY <1>6, <1>7, <1>9, Zenon
    <2>3. PICK x \in Nat, y \in Nat : x = q[i].serial /\ y = q[j].serial
      BY <2>2, Zenon
    <2> QED BY <1>3, <2>1, <2>2, <2>3
  <1>10. ASSUME NEW i \in DOMAIN q, NEW j \in DOMAIN q,
                q[i].blocker /= None, q[j].blocker /= None
         PROVE  i = j
    <2>1. i \in Nat /\ j \in Nat
      BY <1>3
    <2>2. ~(i < j) /\ ~(j < i)
      BY <1>9, <1>10, Zenon
    <2> QED BY <2>1, <2>2
  <1> QED BY <1>5, <1>8, <1>10, Zenon DEF q

\* For any windows, fences and bounds, when configures carry nothing but sizes:
\* in every frame that is rendered, the windows that take part in a transaction
\* that did not expire all show what it asked them for, or none does.
THEOREM FramesAreConsistent ==
  ASSUME ~OtherChanges
  PROVE  Spec => []FrameIsConsistent
  <1>1. FrameInv => FrameIsConsistent
    BY Zenon DEF FrameInv
  <1> QED BY InitFrameInv, NextFrameInv, <1>1, PTL DEF Spec

\* Under the same condition no window is in two transactions that are not
\* completed, which is what take_pending_transaction() counts on.
THEOREM OneTransactionAtATime ==
  ASSUME ~OtherChanges
  PROVE  Spec => []OneTransactionInFlight
  <1>1. FrameInv => OneTransactionInFlight
    <2> SUFFICES ASSUME FrameInv, NEW w \in windows,
                        NEW t \in {p[2] : p \in pending[w]}
                                  \cup {queue[w][i].blocker : i \in DOMAIN queue[w]},
                        NEW u \in {p[2] : p \in pending[w]}
                                  \cup {queue[w][i].blocker : i \in DOMAIN queue[w]},
                        t /= None, u /= None
                 PROVE  t = u
      BY Zenon DEF OneTransactionInFlight
    <2>1. CASE pending[w] /= {}
      <3>1. \A i \in DOMAIN queue[w] : queue[w][i].blocker = None
        BY <2>1, OneInFlight, Zenon
      <3>2. PICK p \in pending[w], r \in pending[w] : t = p[2] /\ u = r[2]
        BY <3>1, Zenon
      <3> QED BY <3>2, OneInFlight, Zenon
    <2>2. CASE pending[w] = {}
      <3>1. PICK i \in DOMAIN queue[w], j \in DOMAIN queue[w] :
              t = queue[w][i].blocker /\ u = queue[w][j].blocker
        BY <2>2, Zenon
      <3>2. i = j
        BY <3>1, OneInFlight, Zenon
      <3> QED BY <3>1, <3>2, Zenon
    <2> QED BY <2>1, <2>2, Zenon
  <1> QED BY InitFrameInv, NextFrameInv, <1>1, PTL DEF Spec
=============================================================================
