---------------------------- MODULE FrameProofs -----------------------------
(***************************************************************************)
(* The invariant behind frames that show the windows of a transaction      *)
(* together, for configures that carry nothing but sizes, and that every   *)
(* handler but the commit of a window keeps it.                            *)
(***************************************************************************)
EXTENDS TransactionsProofs

\* Nobody but the commit of w that answers configure s holds t.
Sole(t, w, s, pd, qu, fe) ==
    /\ t \notin fe
    /\ \A v \in Windows :
        /\ \A p \in pd[v] : p[2] /= t
        /\ \A k \in DOMAIN qu[v] :
             qu[v][k].holds = t => v = w /\ Answers(qu[w], k, s)

\* Throttling keeps w at most one configure behind, and w answers the configures
\* it has not acked for the transactions they were sent for.
InStep(w, ak, ap, pd, qu) ==
    /\ ak[w] <= Len(configures[w]) /\ Len(configures[w]) <= ap[w] + 1
    /\ InOrder(ap[w], qu[w], ak[w])
    /\ \A i \in DOMAIN qu[w] : qu[w][i].fence => w \in Fenced
    /\ \A p \in pd[w] : ak[w] < p[1] /\ <<w, p[1], p[2]>> \in asked

\* Window w was asked with configure s for transaction t, which is completed:
\* the answer, when it was not applied yet, is ready to be.
Ready(w, s, t, ak, ap, qu) ==
    /\ s <= ak[w]
    /\ ap[w] < s =>
         \A i \in DOMAIN qu[w] :
            Answers(qu[w], i, s) => ~qu[w][i].fence /\ qu[w][i].blocker \in {t, None}

\* The same when t is not completed: the answer is not applied, and is blocked by
\* t unless it is the only one to hold t.
Waiting(w, s, t, ak, ap, pd, qu, fe) ==
    /\ ap[w] < s
    /\ ak[w] < s => <<s, t>> \in pd[w]
    /\ \A i \in DOMAIN qu[w] :
         Answers(qu[w], i, s) =>
            /\ \/ qu[w][i].blocker = t
               \/ qu[w][i].blocker = None /\ Sole(t, w, s, pd, qu, fe)
            /\ qu[w][i].fence => qu[w][i].holds = t

Answered(w, s, t, done, ak, ap, pd, qu, fe) ==
    IF t \in done THEN Ready(w, s, t, ak, ap, qu)
                  ELSE Waiting(w, s, t, ak, ap, pd, qu, fe)

\* The windows are in step, what they were asked is answered, and a transaction
\* that is not completed has a clone somewhere.
Steady(done, ak, ap, nx, pd, qu, fe) ==
    /\ \A w \in windows : InStep(w, ak, ap, pd, qu)
    /\ \A w \in Windows \ windows : qu[w] = <<>> /\ nx[w] = None
    /\ \A a \in asked :
         a[1] \in windows /\ a[3] \notin expired =>
            Answered(a[1], a[2], a[3], done, ak, ap, pd, qu, fe)
    /\ \A t \in 1..created : t \notin done => Held(t, nx, pd, qu, fe)

\* A configure asks for one transaction, which is not asked for later, and is
\* sent only for a size other than the last.
Asks ==
    /\ asked \subseteq Windows \X Nat \X Txns
    /\ \A a, b \in asked : a[1] = b[1] /\ a[2] = b[2] => a = b
    /\ \A a \in asked :
        /\ a[2] <= Len(configures[a[1]]) /\ a[3] <= created
        /\ \A v \in Windows : next[v] /= a[3]
    /\ \A w \in windows :
        /\ w \notin other /\ configures[w] /= <<>>
        /\ \A n \in DOMAIN configures[w] :
             n + 1 = Len(configures[w]) => configures[w][n] /= configures[w][n + 1]

\* A transaction that no configure was sent for yet completes by its deadline
\* only, and none completes before it is created.
Fresh ==
    /\ \A t \in completed \cup timers : t <= created
    /\ \A w \in Windows : next[w] \in completed => next[w] \in expired

FrameInv ==
    /\ TxnInv /\ Asks /\ Fresh
    /\ Steady(completed, acked, applied, next, pending, queue, fences)
    /\ FrameIsConsistent

-----------------------------------------------------------------------------
(* Running the queues.                                                     *)

\* The queue qu[w] of every window w runs, maybe for nothing.
Runs(done, ap, qu, ap2, qu2) ==
    \A w \in Windows : \E n \in 0..Len(qu[w]) :
        /\ Run(qu[w], ap[w], n, qu2[w], ap2[w])
        /\ \A i \in 1..n : Released(qu[w][i], done)

\* What the proofs below need to know of the types.
Typed(ak, ap, qu) ==
    /\ ak \in [Windows -> Nat \ {0}] /\ ap \in [Windows -> Nat \ {0}]
    /\ qu \in [Windows -> Seq(Commits)]

\* Running the queues drops no clone: a commit with a fence is not released.
LEMMA RunsHeld ==
  ASSUME TypeOK, NEW done, NEW ak, NEW ap, NEW nx, NEW pd, NEW qu, NEW fe,
         Typed(ak, ap, qu), Steady(done, ak, ap, nx, pd, qu, fe),
         NEW ap2, NEW qu2, Runs(done, ap, qu, ap2, qu2), NEW t \in Txns
  PROVE  Held(t, nx, pd, qu, fe) => Held(t, nx, pd, qu2, fe)
  <1> SUFFICES ASSUME NEW w \in Windows, NEW i \in DOMAIN qu[w], qu[w][i].holds = t
               PROVE  \E j \in DOMAIN qu2[w] : qu2[w][j].holds = t
    BY Zenon DEF Held
  <1>1. t /= None /\ qu[w] \in Seq(Commits) /\ Len(qu[w]) \in Nat
        /\ DOMAIN qu[w] = 1..Len(qu[w])
    BY DEF Txns, None, Typed
  <1>2. w \in windows
    BY DEF Steady
  <1>3. qu[w][i].fence
    BY <1>1, <1>2, Zenon DEF Steady, InStep, InOrder
  <1>4. PICK n \in 0..Len(qu[w]) :
          /\ Run(qu[w], ap[w], n, qu2[w], ap2[w])
          /\ \A k \in 1..n : Released(qu[w][k], done)
    BY Zenon DEF Runs
  <1>5. i > n
    <2>1. i \notin 1..n
      BY <1>3, <1>4, Zenon DEF Released
    <2> QED BY <1>1, <1>4, <2>1
  <1>6. /\ DOMAIN qu2[w] = 1..Len(qu2[w]) /\ Len(qu2[w]) = Len(qu[w]) - n
        /\ \A j \in DOMAIN qu2[w] : \E m \in DOMAIN qu[w] : m = j + n /\ qu2[w][j] = qu[w][m]
    BY <1>4 DEF Run
  <1>7. PICK j \in DOMAIN qu2[w] : j = i - n
    BY <1>1, <1>5, <1>6
  <1>8. PICK m \in DOMAIN qu[w] : m = j + n /\ qu2[w][j] = qu[w][m]
    BY <1>6, Zenon
  <1>9. m = i
    BY <1>1, <1>7, <1>8
  <1> QED BY <1>8, <1>9, Zenon

\* Nor does it add one.
LEMMA RunsSole ==
  ASSUME TypeOK, NEW done, NEW ak, NEW ap, NEW nx, NEW pd, NEW qu, NEW fe,
         Typed(ak, ap, qu), Steady(done, ak, ap, nx, pd, qu, fe),
         NEW ap2, NEW qu2, Runs(done, ap, qu, ap2, qu2),
         NEW t \in Txns, NEW w \in windows, NEW s \in Nat,
         Sole(t, w, s, pd, qu, fe)
  PROVE  Sole(t, w, s, pd, qu2, fe)
  <1> SUFFICES ASSUME NEW v \in Windows, NEW j \in DOMAIN qu2[v], qu2[v][j].holds = t
               PROVE  v = w /\ Answers(qu2[w], j, s)
    BY Zenon DEF Sole
  <1>1. PICK n : Run(qu[v], ap[v], n, qu2[v], ap2[v])
    BY Zenon DEF Runs
  <1>2. PICK m \in DOMAIN qu[v] : m = j + n /\ qu2[v][j] = qu[v][m]
    BY <1>1, Zenon DEF Run
  <1>3. v = w /\ Answers(qu[w], m, s)
    BY <1>2, Zenon DEF Sole
  <1>4. InOrder(ap[w], qu[w], ak[w]) /\ w \in Windows
    BY Zenon DEF Steady, InStep, TypeOK
  <1>5. qu[w] \in Seq(Commits) /\ ap[w] \in Nat /\ ak[w] \in Nat
    BY <1>4, Zenon DEF Typed
  <1>6. PICK l \in DOMAIN qu[w] :
          l = j + n /\ (Answers(qu[w], l, s) => Answers(qu2[w], j, s))
    BY <1>1, <1>3, <1>4, <1>5, RunAnswers
  <1> QED BY <1>2, <1>3, <1>6, Zenon

\* A window keeps its answers while the queues run.
LEMMA RunsAnswered ==
  ASSUME TypeOK, NEW done, NEW ak, NEW ap, NEW nx, NEW pd, NEW qu, NEW fe,
         Typed(ak, ap, qu), Steady(done, ak, ap, nx, pd, qu, fe),
         NEW ap2, NEW qu2, Runs(done, ap, qu, ap2, qu2),
         NEW w \in windows, NEW s \in Nat, NEW t \in Txns, t <= created,
         \A v \in Windows : nx[v] /= t,
         Answered(w, s, t, done, ak, ap, pd, qu, fe)
  PROVE  Answered(w, s, t, done, ak, ap2, pd, qu2, fe)
  <1>1. /\ w \in Windows /\ qu[w] \in Seq(Commits)
        /\ ap[w] \in Nat /\ ak[w] \in Nat
    BY Zenon DEF TypeOK, Typed
  <1>2. /\ InOrder(ap[w], qu[w], ak[w]) /\ ak[w] <= ap[w] + 1
    <2>1. /\ InOrder(ap[w], qu[w], ak[w]) /\ ak[w] <= Len(configures[w])
          /\ Len(configures[w]) <= ap[w] + 1 /\ Len(configures[w]) \in Nat
      BY <1>1 DEF Steady, InStep, TypeOK
    <2> QED BY <1>1, <2>1
  <1>3. PICK n \in 0..Len(qu[w]) :
          /\ Run(qu[w], ap[w], n, qu2[w], ap2[w])
          /\ \A k \in 1..n : Released(qu[w][k], done)
    BY <1>1, Zenon DEF Runs
  <1>4. ap2[w] \in Nat /\ ap[w] <= ap2[w]
    BY <1>1, <1>2, <1>3, RunInOrder, Zenon
  <1>5. ASSUME NEW i \in DOMAIN qu2[w]
        PROVE  \E m \in DOMAIN qu[w] :
                 /\ qu2[w][i] = qu[w][m]
                 /\ ap2[w] < s /\ Answers(qu2[w], i, s) => Answers(qu[w], m, s)
    <2>1. PICK m \in DOMAIN qu[w] :
            /\ m = i + n /\ qu2[w][i] = qu[w][m]
            /\ ap2[w] < s /\ Answers(qu2[w], i, s) => Answers(qu[w], m, s)
            /\ Answers(qu[w], m, s) => Answers(qu2[w], i, s)
      BY <1>1, <1>2, <1>3, RunAnswers
    <2> QED BY <2>1, Zenon
  <1>6. CASE t \in done
    <2>1. Ready(w, s, t, ak, ap, qu)
      BY <1>6, Zenon DEF Answered
    <2>2. Ready(w, s, t, ak, ap2, qu2)
      BY <1>1, <1>4, <1>5, <2>1 DEF Ready
    <2> QED BY <1>6, <2>2, Zenon DEF Answered
  <1>7. CASE t \notin done
    <2>1. Waiting(w, s, t, ak, ap, pd, qu, fe)
      BY <1>7, Zenon DEF Answered
    <2>2. ap2[w] < s
      <3> SUFFICES ASSUME s <= ap2[w] PROVE FALSE
        BY <1>4
      <3>1. n /= 0 /\ n \in DOMAIN qu[w] /\ ap2[w] = qu[w][n].serial
        BY <1>1, <1>3, <2>1 DEF Run, Waiting
      <3>2. PICK i \in DOMAIN qu[w] : i <= n /\ Answers(qu[w], i, s)
        BY <1>1, <1>2, <2>1, <3>1, FirstAnswer DEF Waiting
      <3>3. Released(qu[w][i], done)
        BY <1>1, <1>3, <3>2
      <3>4. qu[w][i].blocker /= t /\ ~qu[w][i].fence
        BY <1>7, <3>3 DEF Released, Txns, None
      <3>5. Sole(t, w, s, pd, qu, fe)
        BY <2>1, <3>2, <3>4, Zenon DEF Waiting
      <3>6. Held(t, nx, pd, qu, fe)
        BY <1>7, TransactionConstants DEF Steady, TypeOK, Txns
      <3>7. PICK j \in DOMAIN qu[w] : qu[w][j].holds = t /\ Answers(qu[w], j, s)
        BY <3>5, <3>6, Zenon DEF Held, Sole
      <3>8. i = j
        <4>1. i \in Nat /\ j \in Nat
          BY <1>1
        <4> QED BY <1>1, <3>2, <3>7, <4>1 DEF Answers
      <3>9. t /= None
        BY DEF Txns, None
      <3> QED BY <1>2, <3>4, <3>7, <3>8, <3>9, Zenon DEF InOrder
    <2>3. ASSUME NEW i \in DOMAIN qu2[w], Answers(qu2[w], i, s)
          PROVE  /\ \/ qu2[w][i].blocker = t
                    \/ qu2[w][i].blocker = None /\ Sole(t, w, s, pd, qu2, fe)
                 /\ qu2[w][i].fence => qu2[w][i].holds = t
      <3>1. PICK m \in DOMAIN qu[w] : qu2[w][i] = qu[w][m] /\ Answers(qu[w], m, s)
        BY <1>5, <2>2, <2>3, Zenon
      <3>2. Sole(t, w, s, pd, qu, fe) => Sole(t, w, s, pd, qu2, fe)
        BY RunsSole, Zenon
      <3> QED BY <2>1, <3>1, <3>2, Zenon DEF Waiting
    <2>4. Waiting(w, s, t, ak, ap2, pd, qu2, fe)
      BY <2>1, <2>2, <2>3, Zenon DEF Waiting
    <2> QED BY <1>7, <2>4, Zenon DEF Answered
  <1> QED BY <1>6, <1>7, Zenon

LEMMA RunsInStep ==
  ASSUME TypeOK, NEW ak, NEW ap, NEW pd, NEW qu, Typed(ak, ap, qu),
         NEW w \in windows, InStep(w, ak, ap, pd, qu), NEW ap2, NEW qu2, NEW n,
         Run(qu[w], ap[w], n, qu2[w], ap2[w])
  PROVE  InStep(w, ak, ap2, pd, qu2)
  <1>1. /\ w \in Windows /\ qu[w] \in Seq(Commits)
        /\ ap[w] \in Nat /\ ak[w] \in Nat /\ Len(configures[w]) \in Nat
    BY DEF TypeOK, Typed
  <1>2. InOrder(ap2[w], qu2[w], ak[w]) /\ ap2[w] \in Nat /\ ap[w] <= ap2[w]
    BY <1>1, RunInOrder, Zenon DEF InStep
  <1>3. ak[w] <= Len(configures[w]) /\ Len(configures[w]) <= ap2[w] + 1
    BY <1>1, <1>2 DEF InStep
  <1>4. \A i \in DOMAIN qu2[w] : \E m \in DOMAIN qu[w] : qu2[w][i] = qu[w][m]
    BY Zenon DEF Run
  <1> QED BY <1>2, <1>3, <1>4, Zenon DEF InStep

LEMMA RunsSteady ==
  ASSUME TypeOK, Asks, NEW done, NEW ak, NEW ap, NEW pd, NEW qu, NEW fe,
         Typed(ak, ap, qu), Steady(done, ak, ap, next, pd, qu, fe),
         NEW ap2, NEW qu2, Runs(done, ap, qu, ap2, qu2)
  PROVE  Steady(done, ak, ap2, next, pd, qu2, fe)
  <1>1. ASSUME NEW w \in windows PROVE InStep(w, ak, ap2, pd, qu2)
    <2>1. PICK n : Run(qu[w], ap[w], n, qu2[w], ap2[w])
      BY Zenon DEF Runs, TypeOK
    <2> QED BY <2>1, RunsInStep, Zenon DEF Steady
  <1>2. ASSUME NEW w \in Windows \ windows PROVE qu2[w] = <<>> /\ next[w] = None
    <2>1. qu[w] = <<>> /\ next[w] = None
      BY Zenon DEF Steady
    <2>2. PICK n \in 0..Len(qu[w]) : Run(qu[w], ap[w], n, qu2[w], ap2[w])
      BY Zenon DEF Runs
    <2>3. qu2[w] \in Seq(Commits) /\ Len(qu2[w]) = Len(qu[w]) - n
      BY <2>2, Zenon DEF Run
    <2> QED BY <2>1, <2>2, <2>3
  <1>3. ASSUME NEW a \in asked, a[1] \in windows, a[3] \notin expired
        PROVE  Answered(a[1], a[2], a[3], done, ak, ap2, pd, qu2, fe)
    <2>1. /\ a[2] \in Nat /\ a[3] \in Txns /\ a[3] <= created
          /\ \A v \in Windows : next[v] /= a[3]
      BY Zenon DEF Asks
    <2>2. Answered(a[1], a[2], a[3], done, ak, ap, pd, qu, fe)
      BY <1>3, Zenon DEF Steady
    <2> QED BY <1>3, <2>1, <2>2, RunsAnswered
  <1>4. ASSUME NEW t \in 1..created, t \notin done
        PROVE  Held(t, next, pd, qu2, fe)
    <2>1. t \in Txns
      BY TransactionConstants DEF TypeOK, Txns
    <2> QED BY <1>4, <2>1, RunsHeld, Zenon DEF Steady
  <1> QED BY <1>1, <1>2, <1>3, <1>4, Zenon DEF Steady

-----------------------------------------------------------------------------
(* Handlers that leave the queues of the windows alone.                    *)

\* Clones are only given up, and what completes but does not expire has none.
LEMMA HandlerAnswered ==
  ASSUME TypeOK, NEW S, NEW w \in windows, w \in Windows,
         NEW s \in Nat, NEW t \in Txns,
         Answered(w, s, t, completed, acked, applied, pending, queue, fences),
         acked' = acked, applied' = applied,
         completed' = completed \cup S,
         queue'[w] = queue[w], pending'[w] = pending[w],
         \A v \in Windows : queue'[v] \in {queue[v], <<>>} /\ pending'[v] \subseteq pending[v],
         \A u \in fences' \ fences : \E v \in Windows \ {w} :
            \E k \in DOMAIN queue[v] : queue[v][k].holds = u,
         t \in S => ~Held(t, next', pending', queue', fences')
  PROVE  Answered(w, s, t, completed', acked', applied', pending', queue', fences')
  <1>1. acked[w] \in Nat /\ applied[w] \in Nat
    BY Zenon DEF TypeOK
  <1>2. CASE t \in completed
    BY <1>2, Zenon DEF Answered, Ready
  <1>3. CASE t \notin completed /\ t \in S
    <2>1. Waiting(w, s, t, acked, applied, pending, queue, fences)
      BY <1>3, Zenon DEF Answered
    <2>2. /\ \A p \in pending[w] : p[2] /= t
          /\ \A i \in DOMAIN queue[w] : queue[w][i].holds /= t
      BY <1>3 DEF Held
    <2>3. s <= acked[w]
      BY <1>1, <2>1, <2>2 DEF Waiting
    <2>4. Ready(w, s, t, acked', applied', queue')
      BY <2>1, <2>2, <2>3 DEF Ready, Waiting
    <2> QED BY <1>3, <2>4, Zenon DEF Answered
  <1>4. CASE t \notin completed'
    <2>1. Waiting(w, s, t, acked, applied, pending, queue, fences)
      BY <1>4, Zenon DEF Answered
    <2>2. Sole(t, w, s, pending, queue, fences) => Sole(t, w, s, pending', queue', fences')
      BY DEF Sole
    <2>3. Waiting(w, s, t, acked', applied', pending', queue', fences')
      BY <2>1, <2>2, Zenon DEF Waiting
    <2> QED BY <1>4, <2>3, Zenon DEF Answered
  <1> QED BY <1>2, <1>3, <1>4, Zenon

LEMMA HandlerKeeps ==
  ASSUME FrameInv, NEW S,
         windows' \subseteq windows, other' \subseteq other,
         UNCHANGED <<configures, acked, applied, asked>>,
         created' \in Nat, created <= created',
         expired \subseteq expired', completed' = completed \cup S,
         \A v \in windows' : queue'[v] = queue[v] /\ pending'[v] = pending[v],
         \A v \in Windows \ windows' :
            queue'[v] = <<>> /\ next'[v] = None /\ pending'[v] \subseteq pending[v],
         \A v \in Windows : next'[v] \in {next[v], None, created + 1},
         \A u \in fences' \ fences : \E v \in Windows \ windows' :
            \E k \in DOMAIN queue[v] : queue[v][k].holds = u,
         \A t \in S \ expired' : ~Held(t, next', pending', queue', fences'),
         \A t \in 1..created' : t \notin completed' =>
            Held(t, next', pending', queue', fences'),
         phase' = "dispatch"
  PROVE  /\ Asks' /\ FrameIsConsistent'
         /\ Steady(completed, acked, applied, next, pending, queue, fences)'
  <1>1. /\ TypeOK /\ Asks
        /\ Steady(completed, acked, applied, next, pending, queue, fences)
        /\ windows \subseteq Windows /\ created \in Nat /\ Txns \subseteq Nat
    BY TransactionConstants DEF FrameInv, TxnInv, TypeOK, Txns
  <1>2. FrameIsConsistent'
    BY Zenon DEF FrameIsConsistent
  <1>3. ASSUME NEW a \in asked
        PROVE  /\ a[2] <= Len(configures[a[1]]) /\ a[3] <= created'
               /\ \A v \in Windows : next'[v] /= a[3]
    <2>1. /\ a[3] \in Nat /\ a[3] <= created /\ a[2] <= Len(configures[a[1]])
          /\ \A v \in Windows : next[v] /= a[3]
          /\ a[3] \in Txns
      BY <1>1, Zenon DEF Asks
    <2>2. a[3] /= None /\ a[3] /= created + 1
      BY <1>1, <2>1 DEF Txns, None
    <2>3. a[3] <= created'
      BY <1>1, <2>1
    <2> QED BY <2>1, <2>2, <2>3, Zenon
  <1>4. Asks'
    BY <1>1, <1>3 DEF Asks
  <1>5. ASSUME NEW w \in windows' PROVE InStep(w, acked, applied, pending, queue)'
    BY <1>1, Zenon DEF Steady, InStep
  <1>6. ASSUME NEW a \in asked, a[1] \in windows', a[3] \notin expired'
        PROVE  Answered(a[1], a[2], a[3], completed', acked', applied', pending',
                        queue', fences')
    <2>1. /\ a[2] \in Nat /\ a[3] \in Txns /\ a[1] \in windows /\ a[1] \in Windows
      BY <1>1, <1>6, Zenon DEF Asks
    <2>2. Answered(a[1], a[2], a[3], completed, acked, applied, pending, queue, fences)
      BY <1>1, <1>6, <2>1, Zenon DEF Steady
    <2>3. /\ \A v \in Windows : queue'[v] \in {queue[v], <<>>} /\ pending'[v] \subseteq pending[v]
          /\ queue'[a[1]] = queue[a[1]] /\ pending'[a[1]] = pending[a[1]]
      BY <1>6, Zenon
    <2>4. \A u \in fences' \ fences : \E v \in Windows \ {a[1]} :
            \E k \in DOMAIN queue[v] : queue[v][k].holds = u
      BY <1>6
    <2>5. a[3] \in S => ~Held(a[3], next', pending', queue', fences')
      BY <1>6, Zenon
    <2> QED BY <1>1, <2>1, <2>2, <2>3, <2>4, <2>5, HandlerAnswered, Zenon
  <1>7. Steady(completed, acked, applied, next, pending, queue, fences)'
    BY <1>5, <1>6, Zenon DEF Steady
  <1> QED BY <1>2, <1>4, <1>7, Zenon

\* Whatever is not dropped has a clone.
LEMMA DroppedOrHeld ==
  ASSUME NEW n, NEW nx, NEW pd, NEW qu, NEW fe
  PROVE  /\ \A t \in Dropped(n, nx, pd, qu, fe) : ~Held(t, nx, pd, qu, fe)
         /\ \A t \in 1..n : t \notin completed \cup Dropped(n, nx, pd, qu, fe) =>
              Held(t, nx, pd, qu, fe)
  BY Zenon DEF Dropped

LEMMA TimersFrame ==
  ASSUME FrameInv, NEW t \in Txns, Deadline(t) \/ OrphanFenceSignalled(t)
  PROVE  /\ Asks' /\ FrameIsConsistent'
         /\ Steady(completed, acked, applied, next, pending, queue, fences)'
  <1>1. /\ TypeOK /\ windows \subseteq Windows /\ created \in Nat
        /\ Steady(completed, acked, applied, next, pending, queue, fences)
    BY DEF FrameInv, TxnInv, TypeOK
  <1>2. CASE Deadline(t)
    <2>1. /\ completed' = completed \cup {t} /\ expired' = expired \cup {t}
          /\ UNCHANGED <<wanted, other, configures, acked, applied, windows, next,
                         pending, queue, fences, created, asked>>
          /\ phase' = "dispatch"
      BY <1>2, Zenon DEF Deadline, Complete, Handler, surfaceVars, holderVars
    <2>2. \A u \in 1..created' : u \notin completed' =>
            Held(u, next', pending', queue', fences')
      BY <1>1, <2>1, Zenon DEF Steady
    <2>3. \A v \in Windows \ windows' :
            queue'[v] = <<>> /\ next'[v] = None /\ pending'[v] \subseteq pending[v]
      BY <1>1, <2>1, Zenon DEF Steady
    <2>4. /\ created' \in Nat /\ created <= created'
          /\ \A v \in Windows : next'[v] \in {next[v], None, created + 1}
          /\ \A v \in windows' : queue'[v] = queue[v] /\ pending'[v] = pending[v]
      BY <1>1, <2>1
    <2> QED BY <1>1, <2>1, <2>2, <2>3, <2>4, HandlerKeeps, Zenon
  <1>3. CASE OrphanFenceSignalled(t)
    <2> DEFINE S == Dropped(created, next, pending, queue, fences')
    <2>1. /\ completed' = completed \cup S /\ fences' \subseteq fences
          /\ UNCHANGED <<wanted, other, configures, acked, applied, windows, next,
                         pending, queue, created, asked, expired>>
          /\ phase' = "dispatch"
      BY <1>3, Zenon DEF OrphanFenceSignalled, Complete, Handler, surfaceVars
    <2>2. /\ \A u \in S : ~Held(u, next', pending', queue', fences')
          /\ \A u \in 1..created' : u \notin completed' =>
               Held(u, next', pending', queue', fences')
      BY <2>1, DroppedOrHeld, Zenon
    <2> HIDE DEF S
    <2>3. \A v \in Windows \ windows' :
            queue'[v] = <<>> /\ next'[v] = None /\ pending'[v] \subseteq pending[v]
      BY <1>1, <2>1, Zenon DEF Steady
    <2>4. /\ created' \in Nat /\ created <= created'
          /\ \A v \in Windows : next'[v] \in {next[v], None, created + 1}
          /\ \A v \in windows' : queue'[v] = queue[v] /\ pending'[v] = pending[v]
      BY <1>1, <2>1
    <2> QED BY <1>1, <2>1, <2>2, <2>3, <2>4, HandlerKeeps, Zenon
  <1> QED BY <1>2, <1>3, Zenon

LEMMA LayoutFrame ==
  ASSUME FrameInv, NEW sizes \in Layouts, Rearrange(sizes) \/ RearrangeTogether(sizes)
  PROVE  /\ Asks' /\ FrameIsConsistent'
         /\ Steady(completed, acked, applied, next, pending, queue, fences)'
  <1>1. /\ TypeOK /\ windows \subseteq Windows /\ created \in Nat
        /\ next \in [Windows -> Txns \cup {None}]
        /\ Steady(completed, acked, applied, next, pending, queue, fences)
    BY DEF FrameInv, TxnInv, TypeOK
  <1>2. CASE Rearrange(sizes)
    <2>1. /\ UNCHANGED <<other, configures, acked, applied, windows, next, pending,
                         queue, fences, created, asked, completed, expired>>
          /\ phase' = "dispatch"
      BY <1>2, Zenon DEF Rearrange, Handler, holderVars, txnVars
    <2>2. \A u \in 1..created' : u \notin completed' =>
            Held(u, next', pending', queue', fences')
      BY <1>1, <2>1, Zenon DEF Steady
    <2>3. \A v \in Windows \ windows' :
            queue'[v] = <<>> /\ next'[v] = None /\ pending'[v] \subseteq pending[v]
      BY <1>1, <2>1, Zenon DEF Steady
    <2>4. /\ created' \in Nat /\ created <= created'
          /\ \A v \in Windows : next'[v] \in {next[v], None, created + 1}
          /\ \A v \in windows' : queue'[v] = queue[v] /\ pending'[v] = pending[v]
      BY <1>1, <2>1
    <2>5. completed' = completed \cup {}
      BY <2>1, Zenon
    <2> QED BY <1>1, <2>1, <2>2, <2>3, <2>4, <2>5, HandlerKeeps
  <1>3. CASE RearrangeTogether(sizes)
    <2> DEFINE t  == created + 1
               nx == [w \in Windows |-> IF w \in windows THEN t ELSE next[w]]
               S  == Dropped(t, nx, pending, queue, fences)
    <2>1. /\ completed' = completed \cup S /\ created' = t /\ next' = nx
          /\ UNCHANGED <<other, configures, acked, applied, windows, pending, queue,
                         fences, asked, expired>>
          /\ phase' = "dispatch"
      BY <1>3, Zenon DEF RearrangeTogether, Complete, Handler
    <2>2. /\ \A u \in S : ~Held(u, next', pending', queue', fences')
          /\ \A u \in 1..created' : u \notin completed' =>
               Held(u, next', pending', queue', fences')
      BY <2>1, DroppedOrHeld, Zenon
    <2> HIDE DEF S
    <2>3. \A v \in Windows \ windows' : queue'[v] = <<>> /\ next'[v] = None
      BY <1>1, <2>1, Zenon DEF Steady
    <2>4. created' \in Nat /\ created <= created'
      BY <1>1, <2>1
    <2>5. \A v \in Windows : next'[v] \in {next[v], None, created + 1}
      BY <2>1, Zenon
    <2> HIDE DEF t, nx
    <2> QED BY <1>1, <2>1, <2>2, <2>3, <2>4, <2>5, HandlerKeeps, Zenon
  <1> QED BY <1>2, <1>3, Zenon

LEMMA DestroyedFrame ==
  ASSUME FrameInv, NEW d \in Windows, NEW sizes \in Layouts, ToplevelDestroyed(d, sizes)
  PROVE  /\ Asks' /\ FrameIsConsistent'
         /\ Steady(completed, acked, applied, next, pending, queue, fences)'
  <1> DEFINE left == windows \ {d}
             t == created + 1
             S == Dropped(t, next', pending', queue', fences')
             orphans == {queue[d][i].holds : i \in DOMAIN queue[d]}
  <1>1. /\ TypeOK /\ windows \subseteq Windows /\ created \in Nat
        /\ queue \in [Windows -> Seq(Commits)] /\ pending \in [Windows -> SUBSET (Nat \X Txns)]
        /\ Steady(completed, acked, applied, next, pending, queue, fences)
    BY DEF FrameInv, TxnInv, TypeOK
  <1>2. /\ completed' = completed \cup S /\ created' = t /\ windows' = left
        /\ next' = [w \in Windows |-> IF w \in left THEN t
                                      ELSE IF w = d THEN None ELSE next[w]]
        /\ pending' = [pending EXCEPT ![d] = {}] /\ queue' = [queue EXCEPT ![d] = <<>>]
        /\ fences' = fences \cup (orphans \ {None})
        /\ other' = other \ {d}
        /\ UNCHANGED <<configures, acked, applied, expired, asked>>
        /\ phase' = "dispatch"
    BY Zenon DEF ToplevelDestroyed, Complete, Handler
  <1>3. /\ \A u \in S : ~Held(u, next', pending', queue', fences')
        /\ \A u \in 1..created' : u \notin completed' =>
             Held(u, next', pending', queue', fences')
    BY <1>2, DroppedOrHeld
  <1> HIDE DEF S
  <1>4. /\ \A v \in windows' : queue'[v] = queue[v] /\ pending'[v] = pending[v]
        /\ \A v \in Windows : next'[v] \in {next[v], None, created + 1}
        /\ windows' \subseteq windows /\ other' \subseteq other
        /\ created' \in Nat /\ created <= created'
    BY <1>1, <1>2
  <1>5. ASSUME NEW v \in Windows \ windows'
        PROVE  queue'[v] = <<>> /\ next'[v] = None /\ pending'[v] \subseteq pending[v]
    <2>1. CASE v = d
      BY <1>1, <1>2, <2>1, Zenon
    <2>2. CASE v /= d
      <3>1. v \in Windows \ windows
        BY <1>2, <2>2, Zenon
      <3>2. queue[v] = <<>> /\ next[v] = None
        BY <1>1, <3>1, Zenon DEF Steady
      <3> QED BY <1>1, <1>2, <2>2, <3>1, <3>2, Zenon
    <2> QED BY <2>1, <2>2, Zenon
  <1>6. ASSUME NEW u \in fences' \ fences
        PROVE  \E v \in Windows \ windows' :
                 \E k \in DOMAIN queue[v] : queue[v][k].holds = u
    <2>1. d \in Windows \ windows'
      BY <1>2, Zenon
    <2>2. \E k \in DOMAIN queue[d] : queue[d][k].holds = u
      BY <1>2, Zenon
    <2> QED BY <2>1, <2>2, Zenon
  <1> HIDE DEF t, left, orphans
  <1> QED BY <1>2, <1>3, <1>4, <1>5, <1>6, HandlerKeeps, Zenon

-----------------------------------------------------------------------------
(* Handlers that run the queue of a window.                                *)

\* A handler leaves the window w with the queue qs[w], and runs it.
LEMMA OneQueueFrame ==
  ASSUME FrameInv, NEW w \in windows, NEW qs, Typed(acked', applied, qs),
         Steady(completed', acked', applied, next, pending', qs, fences),
         queue' = [qs EXCEPT ![w] = RestOf(qs[w], completed')],
         applied' = [applied EXCEPT ![w] = AppliedOf(qs[w], completed', applied[w])],
         UNCHANGED <<other, configures, windows, next, fences, created, expired, asked>>,
         phase' = "dispatch"
  PROVE  /\ Asks' /\ FrameIsConsistent'
         /\ Steady(completed, acked, applied, next, pending, queue, fences)'
  <1>1. /\ TypeOK /\ Asks /\ windows \subseteq Windows
        /\ applied \in [Windows -> Nat \ {0}] /\ qs \in [Windows -> Seq(Commits)]
    BY Zenon DEF FrameInv, TxnInv, TypeOK, Typed
  <1>2. FrameIsConsistent'
    BY Zenon DEF FrameIsConsistent
  <1>3. Asks'
    BY <1>1 DEF Asks
  <1>4. ASSUME NEW v \in Windows
        PROVE  \E n \in 0..Len(qs[v]) :
                 /\ Run(qs[v], applied[v], n, queue'[v], applied'[v])
                 /\ \A i \in 1..n : Released(qs[v][i], completed')
    <2>1. CASE v = w
      <3>1. /\ qs[w] \in Seq(Commits) /\ queue'[w] = RestOf(qs[w], completed')
            /\ applied'[w] = AppliedOf(qs[w], completed', applied[w])
        BY <1>1, <2>1, Zenon
      <3>2. PICK n \in 0..Len(qs[w]) :
              /\ Run(qs[w], applied[w], n, RestOf(qs[w], completed'),
                     AppliedOf(qs[w], completed', applied[w]))
              /\ \A i \in 1..n : Released(qs[w][i], completed')
        BY <3>1, BlockerClearedRuns, Zenon
      <3> QED BY <2>1, <3>1, <3>2, Zenon
    <2>2. CASE v /= w
      <3>1. qs[v] \in Seq(Commits) /\ queue'[v] = qs[v] /\ applied'[v] = applied[v]
        BY <1>1, <2>2, Zenon
      <3>2. Run(qs[v], applied[v], 0, queue'[v], applied'[v])
        BY <3>1 DEF Run
      <3>3. 0 \in 0..Len(qs[v]) /\ \A i \in 1..0 : Released(qs[v][i], completed')
        BY <3>1
      <3> QED BY <3>2, <3>3, Zenon
    <2> QED BY <2>1, <2>2, Zenon
  <1>5. Runs(completed', applied, qs, applied', queue')
    BY <1>4, Zenon DEF Runs
  <1>6. Steady(completed', acked', applied', next, pending', queue', fences)
    BY <1>1, <1>5, RunsSteady, Zenon
  <1>7. Steady(completed, acked, applied, next, pending, queue, fences)'
    BY <1>6, Zenon DEF Steady, InStep
  <1> QED BY <1>2, <1>3, <1>7, Zenon

\* Commit i of w loses its fence and what it held for the time of it.
Signalled(w, i, qs) ==
    /\ qs \in [Windows -> Seq(Commits)]
    /\ \A v \in Windows :
        /\ DOMAIN qs[v] = DOMAIN queue[v]
        /\ \A j \in DOMAIN queue[v] :
            /\ qs[v][j].serial = queue[v][j].serial
            /\ qs[v][j].blocker = queue[v][j].blocker
            /\ (v = w /\ j = i) => ~qs[v][j].fence /\ qs[v][j].holds = None
            /\ ~(v = w /\ j = i) => qs[v][j] = queue[v][j]

LEMMA SignalledAnswers ==
  ASSUME NEW w, NEW i, NEW qs, Signalled(w, i, qs), NEW v \in Windows,
         NEW j \in DOMAIN queue[v], NEW s
  PROVE  Answers(qs[v], j, s) <=> Answers(queue[v], j, s)
  BY DEF Signalled, Answers

LEMMA SignalledInOrder ==
  ASSUME FrameInv, NEW w \in windows, NEW i \in DOMAIN queue[w], NEW qs,
         Signalled(w, i, qs), \A j \in 1..(i - 1) : ~queue[w][j].fence
  PROVE  InOrder(applied[w], qs[w], acked[w])
  <1>1. /\ w \in Windows /\ queue[w] \in Seq(Commits) /\ qs[w] \in Seq(Commits)
        /\ DOMAIN queue[w] = 1..Len(queue[w]) /\ Len(queue[w]) \in Nat
        /\ DOMAIN qs[w] = DOMAIN queue[w]
    BY DEF FrameInv, TxnInv, TypeOK, Signalled
  <1>2. Len(qs[w]) = Len(queue[w]) /\ (qs[w] = <<>> <=> queue[w] = <<>>)
    BY <1>1
  <1>3. InOrder(applied[w], queue[w], acked[w])
    BY Zenon DEF FrameInv, Steady, InStep
  <1>4. \A j \in DOMAIN queue[w] :
          /\ qs[w][j].serial = queue[w][j].serial
          /\ qs[w][j].blocker = queue[w][j].blocker
          /\ j = i => ~qs[w][j].fence /\ qs[w][j].holds = None
          /\ j /= i => qs[w][j] = queue[w][j]
    BY <1>1, Zenon DEF Signalled
  <1>5. ASSUME NEW j \in DOMAIN queue[w], NEW k \in DOMAIN queue[w], j < k, qs[w][j].fence
        PROVE  qs[w][k].fence
    <2>1. j /= i /\ queue[w][j].fence
      BY <1>4, <1>5, Zenon
    <2>2. queue[w][k].fence
      BY <1>3, <1>5, <2>1, Zenon DEF InOrder
    <2>3. k /= i
      BY <1>1, <1>5, <2>1
    <2> QED BY <1>4, <2>2, <2>3, Zenon
  <1>6. applied[w] = acked[w] \/ (qs[w] /= <<>> /\ qs[w][Len(qs[w])].serial = acked[w])
    <2>1. CASE queue[w] = <<>>
      BY <1>3, <2>1, Zenon DEF InOrder
    <2>2. CASE queue[w] /= <<>>
      <3>1. Len(queue[w]) \in DOMAIN queue[w]
        BY <1>1, <2>2
      <3>2. applied[w] = acked[w] \/ queue[w][Len(queue[w])].serial = acked[w]
        BY <1>3, Zenon DEF InOrder
      <3>3. qs[w][Len(queue[w])].serial = queue[w][Len(queue[w])].serial
        BY <1>4, <3>1, Zenon
      <3> QED BY <1>2, <2>2, <3>2, <3>3, Zenon
    <2> QED BY <2>1, <2>2, Zenon
  <1>7. \A j \in DOMAIN qs[w] :
          /\ applied[w] <= qs[w][j].serial /\ qs[w][j].serial <= acked[w]
          /\ qs[w][j].blocker /= None => applied[w] < qs[w][j].serial
          /\ qs[w][j].holds /= None => qs[w][j].fence
    BY <1>1, <1>3, <1>4, Zenon DEF InOrder
  <1>8. \A j, k \in DOMAIN qs[w] : j < k =>
          /\ qs[w][j].serial <= qs[w][k].serial
          /\ qs[w][k].blocker /= None => qs[w][j].serial < qs[w][k].serial
          /\ qs[w][j].fence => qs[w][k].fence
    <2> SUFFICES ASSUME NEW j \in DOMAIN queue[w], NEW k \in DOMAIN queue[w], j < k
                 PROVE  /\ qs[w][j].serial <= qs[w][k].serial
                        /\ qs[w][k].blocker /= None => qs[w][j].serial < qs[w][k].serial
                        /\ qs[w][j].fence => qs[w][k].fence
      BY <1>1, Zenon
    <2>1. /\ queue[w][j].serial <= queue[w][k].serial
          /\ queue[w][k].blocker /= None => queue[w][j].serial < queue[w][k].serial
      BY <1>3, Zenon DEF InOrder
    <2>2. /\ qs[w][j].serial = queue[w][j].serial /\ qs[w][k].serial = queue[w][k].serial
          /\ qs[w][k].blocker = queue[w][k].blocker
      BY <1>4, Zenon
    <2> QED BY <1>5, <2>1, <2>2, Zenon
  <1> QED BY <1>3, <1>6, <1>7, <1>8, Zenon DEF InOrder

LEMMA NotLess ==
  ASSUME NEW m \in Nat, NEW n \in Nat, ~(m < n)
  PROVE  n <= m
  OBVIOUS

LEMMA SignalledAnswered ==
  ASSUME FrameInv, NEW w \in windows, NEW i \in DOMAIN queue[w], NEW qs,
         Signalled(w, i, qs), NEW S,
         \A u \in S : ~Held(u, next, pending, qs, fences),
         NEW v \in windows, NEW s \in Nat, NEW t \in Txns,
         Answered(v, s, t, completed, acked, applied, pending, queue, fences)
  PROVE  Answered(v, s, t, completed \cup S, acked, applied, pending, qs, fences)
  <1>1. /\ v \in Windows /\ acked[v] \in Nat /\ applied[v] \in Nat
        /\ DOMAIN qs[v] = DOMAIN queue[v]
    BY Zenon DEF FrameInv, TxnInv, TypeOK, Signalled
  <1>2. \A j \in DOMAIN queue[v] :
          /\ qs[v][j].blocker = queue[v][j].blocker
          /\ qs[v][j].fence => queue[v][j].fence /\ qs[v][j].holds = queue[v][j].holds
    BY <1>1, Zenon DEF Signalled
  <1>3. \A j \in DOMAIN queue[v] : Answers(qs[v], j, s) <=> Answers(queue[v], j, s)
    BY <1>1, SignalledAnswers, Zenon
  <1>4. CASE t \in completed
    BY <1>1, <1>2, <1>3, <1>4 DEF Answered, Ready
  <1>5. CASE t \notin completed /\ t \in S
    <2>1. Waiting(v, s, t, acked, applied, pending, queue, fences)
      BY <1>5, Zenon DEF Answered
    <2>2. /\ \A p \in pending[v] : p[2] /= t
          /\ \A j \in DOMAIN qs[v] : qs[v][j].holds /= t
      BY <1>1, <1>5, Zenon DEF Held
    <2>3. s <= acked[v]
      <3>1. ~(acked[v] < s)
        BY <2>1, <2>2, Zenon DEF Waiting
      <3>2. acked[v] \in Nat
        BY <1>1, Zenon
      <3> QED BY <3>1, <3>2, NotLess, Zenon
    <2>4. Ready(v, s, t, acked, applied, qs)
      BY <1>1, <1>2, <1>3, <2>1, <2>2, <2>3, Zenon DEF Ready, Waiting
    <2> QED BY <1>5, <2>4, Zenon DEF Answered
  <1>6. CASE t \notin completed \cup S
    <2>1. Waiting(v, s, t, acked, applied, pending, queue, fences)
      BY <1>6, Zenon DEF Answered
    <2>2. ASSUME Sole(t, v, s, pending, queue, fences)
          PROVE  Sole(t, v, s, pending, qs, fences)
      <3> SUFFICES ASSUME NEW x \in Windows, NEW k \in DOMAIN qs[x], qs[x][k].holds = t
                   PROVE  x = v /\ Answers(qs[v], k, s)
        BY <2>2, Zenon DEF Sole
      <3>0. t /= None
        BY DEF Txns, None
      <3>1. k \in DOMAIN queue[x] /\ t /= None
        BY <3>0, Zenon DEF Signalled
      <3>2. queue[x][k].holds = t
        BY <3>1, Zenon DEF Signalled
      <3> QED BY <1>1, <1>3, <2>2, <3>1, <3>2, Zenon DEF Sole
    <2>3. Waiting(v, s, t, acked, applied, pending, qs, fences)
      BY <1>1, <1>2, <1>3, <2>1, <2>2, Zenon DEF Waiting
    <2> QED BY <1>6, <2>3, Zenon DEF Answered
  <1> QED BY <1>4, <1>5, <1>6, Zenon

LEMMA FenceFrame ==
  ASSUME FrameInv, NEW w \in Windows, FenceSignalled(w)
  PROVE  /\ Asks' /\ FrameIsConsistent'
         /\ Steady(completed, acked, applied, next, pending, queue, fences)'
  <1> DEFINE Q(i) == [queue EXCEPT ![w][i].fence = FALSE, ![w][i].holds = None]
             Gone(i) == Dropped(created, next, pending, Q(i), fences)
  <1>1. PICK i \in DOMAIN queue[w] :
          /\ phase' = "dispatch"
          /\ w \in windows
          /\ \A j \in 1..(i - 1) : ~queue[w][j].fence
          /\ completed' = completed \cup Gone(i)
          /\ queue' = [Q(i) EXCEPT ![w] = RestOf(Q(i)[w], completed \cup Gone(i))]
          /\ applied' = [applied EXCEPT
                           ![w] = AppliedOf(Q(i)[w], completed \cup Gone(i), @)]
          /\ UNCHANGED <<other, configures, acked, windows, next, pending, fences,
                         created, expired, asked>>
    BY Zenon DEF FenceSignalled, Complete, Handler
  <1> DEFINE qs == Q(i)
             S == Dropped(created, next, pending, qs, fences)
             c == [queue[w][i] EXCEPT !.fence = FALSE, !.holds = None]
  <1>2. /\ TypeOK /\ Asks /\ queue \in [Windows -> Seq(Commits)]
        /\ queue[w] \in Seq(Commits) /\ applied \in [Windows -> Nat \ {0}]
        /\ acked \in [Windows -> Nat \ {0}] /\ windows \subseteq Windows
        /\ Steady(completed, acked, applied, next, pending, queue, fences)
    BY Zenon DEF FrameInv, TxnInv, TypeOK
  <1>3. qs = [queue EXCEPT ![w] = [queue[w] EXCEPT ![i] = c]]
    BY <1>2, Zenon
  <1>4. Signalled(w, i, qs)
    <2>1. queue[w][i] \in Commits
      BY <1>2, CommitFields, Zenon
    <2>2. /\ c \in Commits /\ ~c.fence /\ c.holds = None
          /\ c.serial = queue[w][i].serial /\ c.blocker = queue[w][i].blocker
      BY <2>1, Zenon DEF Commits, None
    <2> HIDE DEF c
    <2>3. [queue[w] EXCEPT ![i] = c] \in Seq(Commits)
      BY <1>2, <2>2
    <2>4. qs \in [Windows -> Seq(Commits)]
      BY <1>2, <1>3, <2>3, Zenon
    <2>5. /\ qs[w] = [queue[w] EXCEPT ![i] = c]
          /\ \A v \in Windows \ {w} : qs[v] = queue[v]
      BY <1>2, <1>3, Zenon
    <2> HIDE DEF qs
    <2> QED BY <1>2, <2>2, <2>4, <2>5, Zenon DEF Signalled
  <1>5. /\ completed' = completed \cup S
        /\ queue' = [qs EXCEPT ![w] = RestOf(qs[w], completed')]
        /\ applied' = [applied EXCEPT ![w] = AppliedOf(qs[w], completed', applied[w])]
    BY <1>1, <1>2, Zenon
  <1>6. /\ \A u \in S : ~Held(u, next, pending, qs, fences)
        /\ \A u \in 1..created : u \notin completed \cup S =>
             Held(u, next, pending, qs, fences)
    BY DroppedOrHeld
  <1> HIDE DEF S, qs
  <1>7. ASSUME NEW v \in windows PROVE InStep(v, acked, applied, pending, qs)
    <2>1. InStep(v, acked, applied, pending, queue) /\ v \in Windows
      BY <1>2, Zenon DEF Steady
    <2>2. CASE v = w
      <3>1. InOrder(applied[w], qs[w], acked[w])
        BY <1>1, <1>4, SignalledInOrder, Zenon
      <3>2. \A j \in DOMAIN qs[w] : qs[w][j].fence => w \in Fenced
        BY <1>4, <2>1, <2>2, Zenon DEF Signalled, InStep
      <3> QED BY <2>1, <2>2, <3>1, <3>2, Zenon DEF InStep
    <2>3. CASE v /= w
      <3>1. qs[v] = queue[v]
        <4>1. /\ qs[v] \in Seq(Commits) /\ queue[v] \in Seq(Commits)
              /\ DOMAIN qs[v] = DOMAIN queue[v]
              /\ \A j \in DOMAIN queue[v] : qs[v][j] = queue[v][j]
          BY <1>2, <1>4, <2>1, <2>3, Zenon DEF Signalled
        <4> QED BY <4>1
      <3> QED BY <2>1, <3>1, Zenon DEF InStep
    <2> QED BY <2>2, <2>3, Zenon
  <1>8. ASSUME NEW v \in Windows \ windows PROVE qs[v] = <<>> /\ next[v] = None
    <2>1. queue[v] = <<>> /\ next[v] = None
      BY <1>2, Zenon DEF Steady
    <2>2. /\ qs[v] \in Seq(Commits) /\ queue[v] \in Seq(Commits)
          /\ DOMAIN qs[v] = DOMAIN queue[v]
          /\ \A j \in DOMAIN queue[v] : qs[v][j] = queue[v][j]
      BY <1>1, <1>2, <1>4, Zenon DEF Signalled
    <2>3. qs[v] = queue[v]
      BY <2>2
    <2> QED BY <2>1, <2>3, Zenon
  <1>9. ASSUME NEW a \in asked, a[1] \in windows, a[3] \notin expired
        PROVE  Answered(a[1], a[2], a[3], completed', acked, applied, pending, qs, fences)
    <2>1. a[2] \in Nat /\ a[3] \in Txns
      BY <1>2, Zenon DEF Asks
    <2>2. Answered(a[1], a[2], a[3], completed, acked, applied, pending, queue, fences)
      BY <1>2, <1>9, Zenon DEF Steady
    <2>3. Answered(a[1], a[2], a[3], completed \cup S, acked, applied, pending, qs, fences)
      BY <1>1, <1>4, <1>6, <1>9, <2>1, <2>2, SignalledAnswered, Zenon
    <2> QED BY <1>5, <2>3, Zenon
  <1>10. Steady(completed', acked', applied, next, pending', qs, fences)
    BY <1>1, <1>5, <1>6, <1>7, <1>8, <1>9, Zenon DEF Steady
  <1>11. Typed(acked', applied, qs)
    BY <1>1, <1>2, <1>4, Zenon DEF Typed, Signalled
  <1> QED BY <1>1, <1>5, <1>10, <1>11, OneQueueFrame, Zenon
=============================================================================
