---------------------------- MODULE Transactions ----------------------------
(***************************************************************************)
(* Transactions between the windows of a tiling tree.  When a window is    *)
(* removed or goes fullscreen, the others are asked for new sizes with     *)
(* clones of one Transaction.  A window that commits the size asked for    *)
(* gives up its clone, and its commit is blocked until the last clone is   *)
(* dropped, or until the deadline: so that all of them change in the same  *)
(* frame, and a client that does not answer cannot hang the others.        *)
(***************************************************************************)
EXTENDS Integers, Sequences

CONSTANTS
    Windows,        \* The toplevels, each of a client of its own.
    Fenced,         \* Those whose buffers are dmabufs with a fence to wait for.
    Sizes,          \* Sizes a window can be asked to have.
    MaxTxns,        \* Bound on the transactions created.
    MaxConfigures,  \* Bound on the configures of a window.
    MaxQueue,       \* Bound on the commits of a window that wait.
    OtherChanges    \* Whether anything but sizes changes in a configure.

Txns == 1..MaxTxns
None == 0

ASSUME TransactionConstants ==
    /\ Fenced \subseteq Windows
    /\ Sizes /= {}
    /\ MaxTxns \in Nat /\ MaxConfigures \in Nat /\ MaxQueue \in Nat
    /\ OtherChanges \in BOOLEAN

VARIABLES
    phase,      \* "drawn" when a frame was just rendered, else "dispatch".
    windows,    \* The windows in the tree.
    wanted,     \* The pending size of the toplevel.
    other,      \* Windows with a pending change that is not of the size.
    configures, \* Sizes of the configures sent; a serial is an index.
    acked,      \* The last serial that the client acked.
    applied,    \* The serial of the commit that is current.
    next,       \* Mapped::transaction_for_next_configure.
    pending,    \* Mapped::pending_transactions, a set of <<serial, txn>>.
    queue,      \* Commits that wait for their blockers, oldest first.
    fences,     \* Transactions held by the fence of a destroyed window.
    created,    \* Number of transactions created.
    completed,  \* Transactions that are completed.
    timers,     \* Transactions with a registered deadline.
    expired,    \* Those that the deadline completed.
    notify,     \* Inner::notifications.
    cleared,    \* The channel of clients to call blocker_cleared() for.
    closing,    \* Transactions that a closing animation waits for.
    asked       \* History: which serial asks which window for which transaction.

surfaceVars == <<wanted, other, configures, acked, applied, windows>>
holderVars == <<next, pending, queue, fences>>
txnVars == <<completed, timers, expired, notify, cleared>>
vars == <<phase, surfaceVars, holderVars, created, txnVars, closing, asked>>

Init ==
    /\ phase = "drawn"
    /\ windows = Windows
    /\ wanted \in {[w \in Windows |-> s] : s \in Sizes}
    /\ other = {}
    /\ configures = [w \in Windows |-> <<wanted[w]>>]
    /\ acked = [w \in Windows |-> 1]
    /\ applied = [w \in Windows |-> 1]
    /\ next = [w \in Windows |-> None]
    /\ pending = [w \in Windows |-> {}]
    /\ queue = [w \in Windows |-> <<>>]
    /\ fences = {}
    /\ created = 0
    /\ completed = {} /\ timers = {} /\ expired = {}
    /\ notify = [t \in Txns |-> {}]
    /\ cleared = {}
    /\ closing = {}
    /\ asked = {}

-----------------------------------------------------------------------------
(* Transaction.                                                            *)

\* Some clone of t exists, given where clones can be.
Held(t, nx, pd, qu, fe) ==
    \/ t \in fe
    \/ \E w \in Windows :
        \/ nx[w] = t
        \/ \E p \in pd[w] : p[2] = t
        \/ \E i \in DOMAIN qu[w] : qu[w][i].holds = t

\* Mutant: nobody is notified.
CompleteSilently(S) ==
    /\ completed' = completed \cup S
    /\ UNCHANGED <<cleared, notify>>

\* Inner::complete() of the transactions in S.
Complete(S) ==
    /\ completed' = completed \cup S
    /\ cleared' = cleared \cup UNION {notify[t] : t \in S}
    /\ notify' = [t \in Txns |-> IF t \in S THEN {} ELSE notify[t]]

\* Drop for Transaction: what is not held any more is completed.  `n` is the
\* number of transactions there are.
Dropped(n, nx, pd, qu, fe) ==
    {t \in 1..n : t \notin completed /\ ~Held(t, nx, pd, qu, fe)}

\* Mutant: the deadline is not registered.
RegisterNoDeadline(S) == UNCHANGED timers

\* Transaction::register_deadline_timer() of those in S.
RegisterDeadline(S) == timers' = timers \cup S

\* Mutant: only the fence blocks.
ReleasedByFence(c, done) == ~c.fence

\* Blocker::state() and the dmabuf blocker.
Released(c, done) == c.blocker \in done \cup {None} /\ ~c.fence

\* CompositorClientState::blocker_cleared() applies, in order, the commits of
\* the client up to the first that is blocked.
ReadyCount(q, done) ==
    CHOOSE n \in 0..Len(q) :
        /\ \A i \in 1..n : Released(q[i], done)
        /\ n = Len(q) \/ ~Released(q[n + 1], done)

RestOf(q, done) == SubSeq(q, ReadyCount(q, done) + 1, Len(q))

\* Mutant: the current commit is lost when none is ready.
AppliedOfNone(q, done, a) ==
    IF ReadyCount(q, done) = 0 THEN 0 ELSE q[ReadyCount(q, done)].serial

AppliedOf(q, done, a) ==
    IF ReadyCount(q, done) = 0 THEN a ELSE q[ReadyCount(q, done)].serial

-----------------------------------------------------------------------------
(* Requests of the clients.                                                *)

Handler == phase' = "dispatch"

\* The transaction that take_pending_transaction() returns: that of the newest
\* serial it takes.
NewestOf(ps) ==
    IF ps = {} THEN None
    ELSE (CHOOSE p \in ps : \A r \in ps : r[1] <= p[1])[2]

\* Mapped::take_pending_transaction(): all that the commit answers.
TakenUpTo(w, serial) == {p \in pending[w] : p[1] <= serial}

\* A commit of a mapped toplevel that acked `serial`: the pre-commit hook, and
\* then the queue of the client.
Commit(w, serial) ==
    LET taken == TakenUpTo(w, serial)
        t     == NewestOf(taken)
        live  == t /= None /\ t \notin completed
        rest  == [pending EXCEPT ![w] = @ \ taken]
        last  == ~Held(t, next, rest, queue, fences)
        fence == w \in Fenced
        c     == [serial  |-> serial,
                  blocker |-> IF live /\ ~last THEN t ELSE None,
                  fence   |-> fence,
                  holds   |-> IF live /\ fence THEN t ELSE None]
        q     == [queue EXCEPT ![w] = Append(@, c)]
        gone  == Dropped(created, next, rest, q, fences)
        done  == completed \cup gone
    IN
    /\ Handler
    /\ w \in windows
    /\ serial \in acked[w]..Len(configures[w])
    /\ Len(queue[w]) < MaxQueue
    /\ acked' = [acked EXCEPT ![w] = serial]
    /\ pending' = rest
    /\ RegisterDeadline(IF live THEN {t} ELSE {})
    /\ completed' = done
    /\ LET told == IF live /\ ~last THEN [notify EXCEPT ![t] = @ \cup {w}]
                                    ELSE notify
       IN /\ cleared' = cleared \cup UNION {told[u] : u \in gone}
          /\ notify' = [u \in Txns |-> IF u \in gone THEN {} ELSE told[u]]
    /\ queue' = [q EXCEPT ![w] = RestOf(q[w], done)]
    /\ applied' = [applied EXCEPT ![w] = AppliedOf(q[w], done, @)]
    /\ UNCHANGED <<wanted, other, configures, windows, next, fences, created,
                   expired, closing, asked>>

\* The fence of the oldest commit that has one is signalled: the callback drops
\* the transaction and calls blocker_cleared().
FenceSignalled(w) ==
    \E i \in DOMAIN queue[w] :
        LET q    == [queue EXCEPT ![w][i].fence = FALSE, ![w][i].holds = None]
            gone == Dropped(created, next, pending, q, fences)
            done == completed \cup gone
        IN
        /\ Handler
        /\ w \in windows
        /\ queue[w][i].fence
        /\ \A j \in 1..(i - 1) : ~queue[w][j].fence
        /\ Complete(gone)
        /\ queue' = [q EXCEPT ![w] = RestOf(q[w], done)]
        /\ applied' = [applied EXCEPT ![w] = AppliedOf(q[w], done, @)]
        /\ UNCHANGED <<wanted, other, configures, acked, windows, next, pending,
                       fences, created, timers, expired, closing, asked>>

-----------------------------------------------------------------------------
(* Handlers that ask the windows for new sizes.                            *)

\* The sizes the layout can come to, within the bound on configures.
Layouts ==
    {sizes \in [Windows -> Sizes] :
        \A w \in windows : \/ Len(configures[w]) < MaxConfigures
                           \/ sizes[w] = wanted[w]}

\* request_window_sizes_with(None).
Rearrange(sizes) ==
    /\ Handler
    /\ wanted' = [w \in Windows |-> IF w \in windows THEN sizes[w] ELSE wanted[w]]
    /\ UNCHANGED <<other, configures, acked, applied, windows, holderVars,
                   created, txnVars, closing, asked>>

\* request_window_sizes_with(Some(Transaction::new())), as fullscreen does.
RearrangeTogether(sizes) ==
    LET t  == created + 1
        nx == [w \in Windows |-> IF w \in windows THEN t ELSE next[w]]
    IN
    /\ Handler
    /\ created < MaxTxns
    /\ created' = t
    /\ wanted' = [w \in Windows |-> IF w \in windows THEN sizes[w] ELSE wanted[w]]
    /\ next' = nx
    /\ Complete(Dropped(t, nx, pending, queue, fences))
    /\ UNCHANGED <<other, configures, acked, applied, windows, pending, queue,
                   fences, timers, expired, closing, asked>>

\* A state other than the size changes, or the window needs a configure.
ChangeOther(w) ==
    /\ Handler
    /\ OtherChanges
    /\ w \in windows /\ Len(configures[w]) < MaxConfigures
    /\ other' = other \cup {w}
    /\ UNCHANGED <<wanted, configures, acked, applied, windows, holderVars,
                   created, txnVars, closing, asked>>

\* XdgShellHandler::toplevel_destroyed(): the others get the space, together
\* with the start of the closing animation.  A fence that was not signalled
\* keeps its transaction.
ToplevelDestroyed(d, sizes) ==
    LET t    == created + 1
        left == windows \ {d}
        nx   == [w \in Windows |-> IF w \in left THEN t
                                   ELSE IF w = d THEN None ELSE next[w]]
        pd   == [pending EXCEPT ![d] = {}]
        fe   == fences \cup ({queue[d][i].holds : i \in DOMAIN queue[d]} \ {None})
        qu   == [queue EXCEPT ![d] = <<>>]
    IN
    /\ Handler
    /\ d \in windows
    /\ created < MaxTxns
    /\ created' = t
    /\ windows' = left
    /\ wanted' = [w \in Windows |-> IF w \in left THEN sizes[w] ELSE wanted[w]]
    /\ other' = other \ {d}
    /\ closing' = closing \cup {t}
    /\ next' = nx /\ pending' = pd /\ queue' = qu /\ fences' = fe
    /\ RegisterDeadline(IF left /= {} THEN {t} ELSE {})
    /\ Complete(Dropped(t, nx, pd, qu, fe))
    /\ UNCHANGED <<configures, acked, applied, expired, asked>>

\* The fence of a destroyed window is signalled.
OrphanFenceSignalled(t) ==
    /\ Handler
    /\ t \in fences
    /\ fences' = fences \ {t}
    /\ Complete(Dropped(created, next, pending, queue, fences'))
    /\ UNCHANGED <<surfaceVars, next, pending, queue, created, timers, expired,
                   closing, asked>>

\* The deadline timer of register_deadline_timer().
Deadline(t) ==
    /\ Handler
    /\ t \in timers \ completed
    /\ expired' = expired \cup {t}
    /\ Complete({t})
    /\ UNCHANGED <<surfaceVars, holderVars, created, timers, closing, asked>>

-----------------------------------------------------------------------------
(* State::refresh(): notify_blocker_cleared(), then the configures of      *)
(* refresh_with_floating(), then a frame.                                  *)

\* Mutant: resizes are not throttled.
ConfigureIntentAtOnce(w, cur) ==
    IF w \in other THEN "ShouldSend"
    ELSE IF wanted[w] = configures[w][Len(configures[w])] THEN "NotNeeded"
    ELSE "CanSend"

\* LayoutElement::configure_intent().
ConfigureIntent(w, cur) ==
    IF w \in other THEN "ShouldSend"
    ELSE IF wanted[w] = configures[w][Len(configures[w])] THEN "NotNeeded"
    ELSE IF configures[w][cur[w]] = configures[w][Len(configures[w])] THEN "CanSend"
    ELSE "Throttled"

\* shared_configure_intent().
SharedConfigureIntent(cur) ==
    LET intents == {ConfigureIntent(w, cur) : w \in windows}
    IN IF "ShouldSend" \in intents THEN "ShouldSend"
       ELSE IF "Throttled" \in intents THEN "Throttled"
       ELSE IF "CanSend" \in intents THEN "CanSend"
       ELSE "NotNeeded"

\* Whether send_pending_configure() has anything to send.
HasPendingChanges(w) ==
    w \in other \/ wanted[w] /= configures[w][Len(configures[w])]

\* Every window is called, with or without changes; either way it gives up
\* transaction_for_next_configure.
SendConfigures ==
    LET sent == {w \in windows : HasPendingChanges(w)}
    IN
    /\ configures' = [w \in Windows |->
                         IF w \in sent THEN Append(configures[w], wanted[w])
                         ELSE configures[w]]
    /\ pending' = [w \in Windows |->
                      IF w \in sent /\ next[w] /= None
                      THEN pending[w] \cup {<<Len(configures[w]) + 1, next[w]>>}
                      ELSE pending[w]]
    /\ next' = [w \in Windows |-> IF w \in windows THEN None ELSE next[w]]
    /\ other' = other \ windows
    /\ asked' = asked \cup {<<w, Len(configures[w]) + 1, next[w]>> :
                               w \in {v \in sent : next[v] /= None}}

Refresh ==
    LET qu  == [w \in Windows |->
                   IF w \in cleared THEN RestOf(queue[w], completed)
                   ELSE queue[w]]
        cur == [w \in Windows |->
                   IF w \in cleared
                   THEN AppliedOf(queue[w], completed, applied[w])
                   ELSE applied[w]]
        gone == Dropped(created, next', pending', qu, fences)
    IN
    /\ phase = "dispatch"
    /\ phase' = "drawn"
    /\ queue' = qu
    /\ applied' = cur
    /\ IF SharedConfigureIntent(cur) \in {"CanSend", "ShouldSend"}
       THEN SendConfigures
       ELSE UNCHANGED <<configures, pending, next, other, asked>>
    /\ completed' = completed \cup gone
    /\ cleared' = UNION {notify[t] : t \in gone}
    /\ notify' = [t \in Txns |-> IF t \in gone THEN {} ELSE notify[t]]
    /\ UNCHANGED <<wanted, acked, windows, fences, created, timers, expired,
                   closing>>

Next ==
    \/ Refresh
    \/ \E w \in Windows :
        \/ \E serial \in 1..MaxConfigures : Commit(w, serial)
        \/ FenceSignalled(w)
        \/ ChangeOther(w)
        \/ \E sizes \in Layouts : ToplevelDestroyed(w, sizes)
    \/ \E sizes \in Layouts : Rearrange(sizes) \/ RearrangeTogether(sizes)
    \/ \E t \in Txns : Deadline(t) \/ OrphanFenceSignalled(t)

\* The event loop runs, and timers expire.  Clients and fences owe nothing.
Fairness == WF_vars(Refresh) /\ \A t \in Txns : WF_vars(Deadline(t))

Spec == Init /\ [][Next]_vars
FairSpec == Spec /\ Fairness

-----------------------------------------------------------------------------
Commits ==
    [serial : Nat \ {0}, blocker : Txns \cup {None}, fence : BOOLEAN,
     holds : Txns \cup {None}]

\* The variables have the types of the fields they stand for.
TypeOK ==
    /\ phase \in {"dispatch", "drawn"}
    /\ windows \subseteq Windows /\ other \subseteq Windows
    /\ wanted \in [Windows -> Sizes]
    /\ configures \in [Windows -> Seq(Sizes)]
    /\ acked \in [Windows -> Nat \ {0}]
    /\ applied \in [Windows -> Nat \ {0}]
    /\ next \in [Windows -> Txns \cup {None}]
    /\ pending \in [Windows -> SUBSET (Nat \X Txns)]
    /\ queue \in [Windows -> Seq(Commits)]
    /\ fences \subseteq Txns
    /\ created \in 0..MaxTxns
    /\ completed \subseteq Txns /\ timers \subseteq Txns /\ expired \subseteq Txns
    /\ notify \in [Txns -> SUBSET Windows]
    /\ cleared \subseteq Windows
    /\ closing \subseteq Txns

\* A commit whose blockers are all gone is never forgotten: its client is in the
\* channel that the next refresh drains.  In particular the window that commits
\* last needs no notification, as the pre-commit hook claims.
ReadyCommitIsWoken ==
    \A w \in windows :
        queue[w] /= <<>> /\ Released(queue[w][1], completed) => w \in cleared

\* What waits for a transaction, a commit or a closing animation, waits for one
\* that is completed or has a deadline.
WaitHasDeadline ==
    /\ closing \subseteq completed \cup timers
    /\ \A w \in windows : \A i \in DOMAIN queue[w] :
        queue[w][i].blocker \in completed \cup timers \cup {None}

\* Every frame shows the windows of a transaction all before or all after it,
\* and starts the closing animation with the latter, unless the deadline passed.
FrameIsConsistent ==
    phase = "drawn" =>
        \A a \in asked :
            a[1] \in windows /\ a[3] \notin expired =>
                (applied[a[1]] >= a[2] <=> a[3] \in completed)

\* Throttling resizes keeps a window from being in two transactions at once, as
\* take_pending_transaction() counts on.
OneTransactionInFlight ==
    \A w \in windows :
        \A t, u \in {p[2] : p \in pending[w]}
                    \cup {queue[w][i].blocker : i \in DOMAIN queue[w]} :
            t = u \/ {t, u} \cap (completed \cup {None}) /= {}

\* A commit that carries no fence is applied, whatever the other clients do.
CommitIsApplied ==
    \A w \in Windows \ Fenced, s \in 1..MaxConfigures :
        (\E i \in DOMAIN queue[w] : queue[w][i].serial = s) ~>
            (applied[w] >= s \/ w \notin windows)

\* A closing animation that waits for the other windows starts eventually.
ClosingStarts == \A t \in Txns : t \in closing ~> t \in completed
=============================================================================
