-------------------------- MODULE EventStreamProofs --------------------------
(***************************************************************************)
(* Proofs about EventStream, for any clients, capacities and bounds.       *)
(***************************************************************************)
EXTENDS EventStream, FiniteSetTheorems, NaturalsInduction, WellFoundedInduction, TLAPS

Message == [family : Families, version : Nat]

\* The types that the argument needs.
StreamTypes ==
    /\ version \in Nat /\ baseline \in Nat
    /\ streams \in SUBSET Clients /\ signals \in SUBSET Clients
    /\ queue \in [Clients -> Seq(Message)]
    /\ pc \in [Clients -> Steps]
    /\ told \in [Clients -> Nat] /\ shown \in [Clients -> Nat]

\* A client has been shown no more than it was told, and told no more than was
\* compared, which is no more than there is.
Lagging ==
    /\ baseline <= version
    /\ \A c \in Clients : shown[c] <= told[c] /\ told[c] <= baseline

StreamInv ==
    /\ StreamTypes
    /\ RegisteredExactly
    /\ NeverBlocks
    /\ NothingMissed
    /\ Lagging
    /\ EventsInOrder

-----------------------------------------------------------------------------

\* What is in the channel of one client: q after a is shown, up to t.
Ordered(q, a, t) ==
    /\ \A i \in 1..Len(q) : q[i].family = "tree" => a < q[i].version /\ q[i].version <= t
    /\ \A i, j \in 1..Len(q) :
        q[i].family = "tree" /\ q[j].family = "tree" /\ i < j
            => q[i].version < q[j].version

\* EventsInOrder is Ordered of each channel.
LEMMA OrderPerClient ==
    EventsInOrder <=> \A c \in Clients : Ordered(queue[c], shown[c], told[c])
  BY Zenon DEF EventsInOrder, Ordered, TreeEvents

\* The same of the next state.
LEMMA OrderPerClientNext ==
    EventsInOrder' <=> \A c \in Clients : Ordered(queue'[c], shown'[c], told'[c])
  BY Zenon DEF EventsInOrder, Ordered, TreeEvents

\* try_send() keeps a channel in order if a tree event is newer than the others.
LEMMA AppendOrdered ==
    ASSUME NEW q \in Seq(Message), NEW e \in Message, NEW a \in Nat, NEW t \in Nat,
           NEW u \in Nat, Ordered(q, a, t), a <= t, t <= u,
           e.family = "tree" => t < e.version /\ e.version <= u
    PROVE  Ordered(Append(q, e), a, u)
  <1> DEFINE r == Append(q, e)
  <1>1. Len(q) \in Nat /\ Len(r) = Len(q) + 1
    OBVIOUS
  <1>2. \A i \in 1..Len(q) : r[i] = q[i] /\ q[i] \in Message
    OBVIOUS
  <1>3. r[Len(q) + 1] = e
    OBVIOUS
  <1>4. \A i \in 1..Len(r) : i \in 1..Len(q) \/ i = Len(q) + 1
    BY <1>1
  <1>5. e.version \in Nat /\ \A i \in 1..Len(q) : q[i].version \in Nat
    BY <1>2, Zenon DEF Message
  <1> HIDE DEF r
  <1>6. \A i \in 1..Len(r) :
            r[i].family = "tree" => a < r[i].version /\ r[i].version <= u
    BY <1>1, <1>2, <1>3, <1>4, <1>5 DEF Ordered
  <1>7. ASSUME NEW i \in 1..Len(r), NEW j \in 1..Len(r), i < j,
               r[i].family = "tree", r[j].family = "tree"
        PROVE  r[i].version < r[j].version
    <2>1. i \in 1..Len(q)
      BY <1>1, <1>7
    <2>2. CASE j \in 1..Len(q)
      BY <2>1, <2>2, <1>2, <1>7, Zenon DEF Ordered
    <2>3. CASE j = Len(q) + 1
      <3>1. q[i].version <= t /\ t < e.version
        BY <2>1, <2>3, <1>2, <1>3, <1>7, Zenon DEF Ordered
      <3> QED BY <3>1, <2>1, <2>3, <1>2, <1>3, <1>5
    <2> QED BY <2>2, <2>3, <1>4, Zenon
  <1> QED BY <1>6, <1>7, Zenon DEF r, Ordered

\* recv() keeps a channel in order, and what it returned is older than the rest.
LEMMA TailOrdered ==
    ASSUME NEW q \in Seq(Message), NEW a \in Nat, NEW t \in Nat, Ordered(q, a, t),
           q /= <<>>
    PROVE  /\ Ordered(Tail(q), a, t)
           /\ Head(q).family = "tree" =>
                /\ Ordered(Tail(q), Head(q).version, t)
                /\ Head(q).version <= t
  <1> DEFINE r == Tail(q)
  <1>1. Len(q) \in Nat \ {0} /\ Len(r) = Len(q) - 1 /\ Head(q) = q[1]
    OBVIOUS
  <1>2. \A i \in 1..Len(r) : r[i] = q[i + 1] /\ i + 1 \in 1..Len(q)
    BY <1>1
  <1>3. 1 \in 1..Len(q) /\ \A i \in 1..Len(r) : i \in Nat /\ 1 < i + 1
    BY <1>1
  <1> HIDE DEF r
  <1>4. \A i, j \in 1..Len(r) : i < j => i + 1 < j + 1
    BY <1>1
  <1>5. Ordered(r, a, t)
    BY <1>2, <1>4, Zenon DEF Ordered
  <1>6. ASSUME q[1].family = "tree"
        PROVE  Ordered(r, q[1].version, t) /\ q[1].version <= t
    BY <1>2, <1>3, <1>4, <1>6, Zenon DEF Ordered
  <1> QED BY <1>1, <1>5, <1>6, Zenon DEF r

\* A channel stays in order when more is told.
LEMMA LaterOrdered ==
    ASSUME NEW q \in Seq(Message), NEW a \in Nat, NEW t \in Nat, NEW u \in Nat,
           Ordered(q, a, t), t <= u
    PROVE  Ordered(q, a, u)
  <1>1. \A i \in 1..Len(q) : q[i] \in Message
    OBVIOUS
  <1>2. \A i \in 1..Len(q) : q[i].version \in Nat
    BY <1>1, Zenon DEF Message
  <1> QED BY <1>2 DEF Ordered

\* An empty channel is in order.
LEMMA EmptyOrdered == \A a, t \in Nat : Ordered(<<>>, a, t)
  BY DEF Ordered

-----------------------------------------------------------------------------

\* Sending an event, be it of a comparison or not, keeps the invariant, also when
\* clients close in the same step.
LEMMA SendKeeps ==
    ASSUME StreamInv,
           NEW S \in SUBSET streams, NEW e \in Message, NEW gone \in SUBSET Clients,
           Send(S, e, gone),
           \/ e.family /= "tree" /\ baseline' = baseline
           \/ /\ e.family = "tree" /\ S = streams
              /\ baseline < e.version /\ baseline' = e.version,
           version' \in Nat, baseline' <= version', shown' = shown,
           pc' \in [Clients -> Steps],
           \A c \in Clients : pc'[c] \in Streaming <=> pc[c] \in Streaming /\ c \notin gone
    PROVE  StreamInv'
  <1> DEFINE sent == {c \in S : Len(queue[c]) < QueueCap}
             full == S \ sent
  <1>1. /\ queue' = [c \in Clients |-> IF c \in gone THEN <<>>
                                       ELSE IF c \in sent THEN Append(queue[c], e)
                                       ELSE queue[c]]
        /\ told' = [c \in Clients |-> IF c \in sent /\ e.family = "tree"
                                      THEN e.version ELSE told[c]]
        /\ streams' = streams \ (full \cup gone)
        /\ signals' = (signals \cup full) \ gone
        /\ stalled' = (stalled \/ full \cap signals /= {})
    BY Zenon DEF Send
  <1>2. sent \subseteq S /\ full \subseteq streams /\ full \subseteq Clients
        /\ streams \subseteq Clients /\ sent \subseteq streams
    BY Zenon DEF StreamInv, StreamTypes
  <1>3. S = streams => streams \ full \subseteq sent
    BY Zenon
  <1> HIDE DEF sent, full
  <1>4. e.version \in Nat /\ baseline \in Nat /\ baseline' \in Nat /\ baseline <= baseline'
    BY DEF Message, StreamInv, StreamTypes
  <1>5. full \cap signals = {}
    BY <1>2, Zenon DEF StreamInv, RegisteredExactly
  <1>6. NeverBlocks'
    BY <1>1, <1>5, Zenon DEF NeverBlocks, StreamInv
  <1>7. RegisteredExactly'
    BY <1>1, <1>2, Zenon DEF RegisteredExactly, StreamInv, StreamTypes
  <1>8. NothingMissed'
    BY <1>1, <1>2, <1>3, Zenon DEF NothingMissed, StreamInv
  <1>9. \A c \in Clients : /\ told[c] \in Nat /\ told'[c] \in Nat
                           /\ told[c] <= told'[c] /\ told'[c] <= baseline'
    BY <1>1, <1>4 DEF StreamInv, StreamTypes, Lagging
  <1>10. Lagging'
    BY <1>9, <1>4 DEF Lagging, StreamInv, StreamTypes
  <1>11. ASSUME NEW c \in Clients
         PROVE  queue'[c] \in Seq(Message) /\ Ordered(queue'[c], shown[c], told'[c])
    <2>1. /\ queue[c] \in Seq(Message) /\ shown[c] \in Nat
          /\ Ordered(queue[c], shown[c], told[c]) /\ shown[c] <= told[c]
      BY OrderPerClient, Zenon DEF StreamInv, StreamTypes, Lagging
    <2>2. CASE c \in gone
      <3>1. queue'[c] = <<>>
        BY <1>1, <2>2, Zenon
      <3> QED BY <3>1, <2>1, <1>9, EmptyOrdered
    <2>3. CASE c \in sent \ gone
      <3>1. queue'[c] = Append(queue[c], e)
        BY <1>1, <2>3, Zenon
      <3>2. e.family = "tree" => told[c] < e.version /\ e.version <= told'[c]
        BY <1>1, <1>2, <1>4, <2>3 DEF StreamInv, NothingMissed
      <3>3. Ordered(Append(queue[c], e), shown[c], told'[c])
        BY <2>1, <1>9, <3>2, AppendOrdered, Zenon
      <3> QED BY <3>1, <3>3, <2>1
    <2>4. CASE c \notin gone /\ c \notin sent
      <3>1. queue'[c] = queue[c] /\ told'[c] = told[c]
        BY <1>1, <2>4, Zenon
      <3> QED BY <3>1, <2>1, Zenon
    <2> QED BY <2>2, <2>3, <2>4, Zenon
  <1>12. EventsInOrder'
    BY <1>11, OrderPerClientNext, Zenon
  <1>13. queue' \in [Clients -> Seq(Message)]
    <2>1. queue' = [c \in Clients |-> queue'[c]]
      BY <1>1, Zenon
    <2> QED BY <2>1, <1>11, Zenon
  <1>14. told' \in [Clients -> Nat]
    BY <1>1, <1>4, Zenon DEF StreamInv, StreamTypes
  <1>15. StreamTypes'
    BY <1>1, <1>2, <1>4, <1>13, <1>14, Zenon DEF StreamTypes, StreamInv
  <1> QED BY <1>6, <1>7, <1>8, <1>10, <1>12, <1>15, Zenon DEF StreamInv

\* A step that sends nothing, in which clients may close, keeps the invariant if
\* it leaves the channels in order.
LEMMA LeaveKeeps ==
    ASSUME StreamInv, NEW gone \in SUBSET Clients, Leave(gone),
           version' \in Nat, version <= version', baseline' = baseline,
           pc' \in [Clients -> Steps],
           \A c \in Clients : pc'[c] \in Streaming <=> pc[c] \in Streaming /\ c \notin gone,
           queue' \in [Clients -> Seq(Message)], shown' \in [Clients -> Nat],
           \A c \in Clients : shown'[c] <= told[c],
           \A c \in Clients : Ordered(queue'[c], shown'[c], told[c])
    PROVE  StreamInv'
  <1>1. /\ streams' = streams \ gone /\ signals' = signals \ gone
        /\ told' = told /\ stalled' = stalled
    BY Zenon DEF Leave
  <1>2. RegisteredExactly'
    BY <1>1, Zenon DEF RegisteredExactly, StreamInv, StreamTypes
  <1>3. NeverBlocks' /\ NothingMissed'
    BY <1>1, Zenon DEF NeverBlocks, NothingMissed, StreamInv
  <1>4. Lagging'
    BY <1>1 DEF Lagging, StreamInv, StreamTypes
  <1>5. EventsInOrder'
    BY <1>1, OrderPerClientNext, Zenon
  <1>6. StreamTypes'
    BY <1>1, Zenon DEF StreamTypes, StreamInv
  <1> QED BY <1>2, <1>3, <1>4, <1>5, <1>6, Zenon DEF StreamInv

\* A step that sends nothing and leaves the channels alone, but for those of
\* clients that close.
LEMMA LocalKeeps ==
    ASSUME StreamInv, NEW gone \in SUBSET Clients, Leave(gone),
           version' \in Nat, version <= version', baseline' = baseline,
           pc' \in [Clients -> Steps],
           \A c \in Clients : pc'[c] \in Streaming <=> pc[c] \in Streaming /\ c \notin gone,
           queue' \in [Clients -> Seq(Message)], shown' = shown,
           \A c \in Clients : queue'[c] = queue[c] \/ queue'[c] = <<>>
    PROVE  StreamInv'
  <1>1. shown \in [Clients -> Nat] /\ told \in [Clients -> Nat]
        /\ \A c \in Clients : shown[c] <= told[c]
    BY Zenon DEF StreamInv, StreamTypes, Lagging
  <1>2. ASSUME NEW c \in Clients
        PROVE  Ordered(queue'[c], shown[c], told[c])
    <2>1. Ordered(queue[c], shown[c], told[c])
      BY OrderPerClient, Zenon DEF StreamInv
    <2>2. Ordered(<<>>, shown[c], told[c])
      BY <1>1, EmptyOrdered, Zenon
    <2> QED BY <2>1, <2>2, Zenon
  <1> QED BY <1>1, <1>2, LeaveKeeps, Zenon

\* Queueing messages moves the future to the select or ends it.
LEMMA QueueKeeps ==
    ASSUME StreamInv, NEW c \in Clients, NEW n, pc[c] \in Streaming,
           QueueMessagesLeaving(c, n, queue[c]), UNCHANGED <<version, baseline, shown>>
    PROVE  StreamInv'
  <1> DEFINE gone == Overflowing(c, n)
  <1>1. gone = (IF TooBig(c, n) THEN {c} ELSE {}) /\ gone \in SUBSET Clients
    BY Zenon DEF Overflowing
  <1>2. Leave(gone)
    BY Zenon DEF QueueMessagesLeaving
  <1>3. pc' = [pc EXCEPT ![c] = IF TooBig(c, n) THEN "closed" ELSE "stream"]
    BY Zenon DEF QueueMessagesLeaving, QueueMessages
  <1>4. queue' = [queue EXCEPT ![c] = IF TooBig(c, n) THEN <<>> ELSE queue[c]]
    BY Zenon DEF QueueMessagesLeaving
  <1> HIDE DEF gone
  <1>5. pc \in [Clients -> Steps] /\ queue \in [Clients -> Seq(Message)]
        /\ version \in Nat
    BY Zenon DEF StreamInv, StreamTypes
  <1>6. pc' \in [Clients -> Steps]
    BY <1>3, <1>5, Zenon DEF Steps, Streaming
  <1>7. \A d \in Clients : pc'[d] \in Streaming <=> pc[d] \in Streaming /\ d \notin gone
    BY <1>1, <1>3, <1>5, Zenon DEF Streaming
  <1>8. queue' \in [Clients -> Seq(Message)]
        /\ \A d \in Clients : queue'[d] = queue[d] \/ queue'[d] = <<>>
    BY <1>4, <1>5
  <1>9. version' \in Nat /\ version <= version' /\ baseline' = baseline /\ shown' = shown
    BY <1>5
  <1> QED BY <1>1, <1>2, <1>6, <1>7, <1>8, <1>9, LocalKeeps, Zenon

\* Moving the future of a client between two steps on the same side of its
\* subscription changes nothing of the streams.
LEMMA MoveKeeps ==
    ASSUME StreamInv, NEW c \in Clients, NEW step \in Steps,
           pc[c] \in Streaming <=> step \in Streaming,
           pc' = [pc EXCEPT ![c] = step],
           UNCHANGED <<version, baseline, streamVars, shown>>
    PROVE  StreamInv'
  <1>1. Leave({})
    BY Zenon DEF Leave, streamVars
  <1>2. pc \in [Clients -> Steps] /\ queue' \in [Clients -> Seq(Message)]
        /\ version \in Nat /\ queue' = queue
    BY Zenon DEF StreamInv, StreamTypes, streamVars
  <1>3. pc' \in [Clients -> Steps]
        /\ \A d \in Clients : pc'[d] \in Streaming <=> pc[d] \in Streaming
    BY <1>2, Zenon
  <1> QED BY <1>1, <1>2, <1>3, LocalKeeps

\* A future that ends keeps the invariant.
LEMMA CloseKeeps ==
    ASSUME StreamInv, NEW c \in Clients, Leave({c}),
           queue' = [queue EXCEPT ![c] = <<>>], pc' = [pc EXCEPT ![c] = "closed"],
           UNCHANGED <<version, baseline, shown>>
    PROVE  StreamInv'
  <1>1. pc \in [Clients -> Steps] /\ queue \in [Clients -> Seq(Message)]
        /\ version \in Nat
    BY Zenon DEF StreamInv, StreamTypes
  <1>2. pc' \in [Clients -> Steps]
        /\ \A d \in Clients : pc'[d] \in Streaming <=> pc[d] \in Streaming /\ d \notin {c}
    BY <1>1, Zenon DEF Steps, Streaming
  <1>3. queue' \in [Clients -> Seq(Message)]
        /\ \A d \in Clients : queue'[d] = queue[d] \/ queue'[d] = <<>>
    BY <1>1
  <1> QED BY <1>1, <1>2, <1>3, LocalKeeps

\* A comparison with a tree that is not older than the baseline.
LEMMA CompareKeeps ==
    ASSUME StreamInv, NEW v \in Nat, version <= v, InitializeEventState(v),
           version' \in Nat, v <= version', UNCHANGED <<pc, shown>>
    PROVE  StreamInv'
  <1>1. /\ version \in Nat /\ baseline \in Nat /\ baseline <= version
        /\ pc \in [Clients -> Steps] /\ queue \in [Clients -> Seq(Message)]
    BY Zenon DEF StreamInv, StreamTypes, Lagging
  <1>2. CASE v = baseline
    <2>1. UNCHANGED streamVars /\ baseline' = baseline
      BY <1>2, Zenon DEF InitializeEventState
    <2>2. Leave({}) /\ queue' = queue
      BY <2>1, Zenon DEF Leave, streamVars
    <2>3. version <= version'
      BY <1>1
    <2> QED BY <1>1, <2>1, <2>2, <2>3, LocalKeeps, Zenon
  <1>3. CASE v /= baseline
    <2> DEFINE e == Event("tree", v)
    <2>1. e \in Message /\ e.family = "tree" /\ e.version = v
      BY Zenon DEF Event, Message, Families
    <2>2. Send(streams, e, {}) /\ baseline' = v
      BY <1>3, Zenon DEF InitializeEventState, SendEventNow
    <2>3. baseline < v
      BY <1>1, <1>3
    <2> HIDE DEF e
    <2> QED BY <1>1, <2>1, <2>2, <2>3, SendKeeps
  <1> QED BY <1>2, <1>3, Zenon

\* The comparison that is skipped without streams.
LEMMA RefreshLayoutKeeps ==
    ASSUME StreamInv, NEW v \in Nat, version <= v, RefreshLayout(v),
           version' \in Nat, v <= version', UNCHANGED <<pc, shown>>
    PROVE  StreamInv'
  <1>1. /\ version \in Nat /\ pc \in [Clients -> Steps]
        /\ queue \in [Clients -> Seq(Message)]
    BY Zenon DEF StreamInv, StreamTypes
  <1>2. CASE streams = {}
    <2>1. Leave({}) /\ queue' = queue /\ baseline' = baseline
      BY <1>2, Zenon DEF RefreshLayout, Leave, streamVars
    <2>2. version <= version'
      BY <1>1
    <2> QED BY <1>1, <2>1, <2>2, LocalKeeps, Zenon
  <1>3. CASE streams /= {}
    BY <1>3, CompareKeeps, Zenon DEF RefreshLayout
  <1> QED BY <1>2, <1>3, Zenon

\* A tick, also from a client that closes because its reply does not fit.
LEMMA TickKeeps ==
    ASSUME StreamInv, NEW gone \in SUBSET Clients, SendTick(gone),
           UNCHANGED <<version, baseline, shown>>, pc' \in [Clients -> Steps],
           \A c \in Clients : pc'[c] \in Streaming <=> pc[c] \in Streaming /\ c \notin gone
    PROVE  StreamInv'
  <1> DEFINE S == {c \in streams : "tick" \in subs[c]}
             e == Event("tick", 1)
  <1>1. version \in Nat /\ baseline \in Nat /\ baseline <= version
    BY Zenon DEF StreamInv, StreamTypes, Lagging
  <1>2. e \in Message /\ e.family = "tick"
    BY Zenon DEF Event, Message, Families
  <1>3. Send(S, e, gone) /\ S \in SUBSET streams
    BY Zenon DEF SendTick
  <1> HIDE DEF S, e
  <1>4. e.family /= "tree" /\ baseline' = baseline
        /\ version' \in Nat /\ baseline' <= version'
    BY <1>1, <1>2, Zenon
  <1> QED BY <1>2, <1>3, <1>4, SendKeeps, Zenon

-----------------------------------------------------------------------------

\* The steps of the event loop.
LEMMA LoopKeeps ==
    ASSUME StreamInv, Change \/ DirectEvent \/ EventLoop
    PROVE  StreamInv'
  <1>1. /\ version \in Nat /\ baseline \in Nat /\ baseline <= version
        /\ pc \in [Clients -> Steps] /\ queue \in [Clients -> Seq(Message)]
    BY Zenon DEF StreamInv, StreamTypes, Lagging
  <1>2. CASE Change
    <2>1. /\ version' \in Nat /\ version <= version' /\ baseline' = baseline
          /\ Leave({}) /\ queue' = queue /\ pc' = pc /\ shown' = shown
      BY <1>1, <1>2 DEF Change, Leave, streamVars, clientVars
    <2> QED BY <1>1, <2>1, LocalKeeps, Zenon
  <1>3. CASE DirectEvent
    <2> DEFINE e == Event("other", 1)
    <2>1. e \in Message /\ e.family /= "tree"
      BY Zenon DEF Event, Message, Families
    <2>2. Send(streams, e, {})
      BY <1>3, Zenon DEF DirectEvent, SendEventNow
    <2>3. version' = version /\ baseline' = baseline /\ pc' = pc /\ shown' = shown
      BY <1>3, Zenon DEF DirectEvent, clientVars
    <2> HIDE DEF e
    <2> QED BY <1>1, <2>1, <2>2, <2>3, SendKeeps
  <1>4. CASE Refresh
    <2>1. RefreshLayout(version) /\ version' = version /\ UNCHANGED <<pc, shown>>
      BY <1>4, Zenon DEF Refresh, clientVars
    <2> QED BY <1>1, <2>1, RefreshLayoutKeeps
  <1>5. CASE RunCommand
    <2>1. /\ version' \in Nat /\ version <= version' /\ pc' = pc /\ shown' = shown
      BY <1>1, <1>5 DEF RunCommand, Serve, clientVars
    <2>2. CASE UNCHANGED <<baseline, streamVars>>
      <3>1. Leave({}) /\ queue' = queue /\ baseline' = baseline
        BY <2>2, Zenon DEF Leave, streamVars
      <3> QED BY <1>1, <2>1, <3>1, LocalKeeps, Zenon
    <2>3. ASSUME NEW v \in {version, version'}, RefreshLayout(v)
          PROVE  StreamInv'
      <3>1. v \in Nat /\ version <= v /\ v <= version'
        BY <1>1, <2>1, <2>3
      <3> QED BY <2>1, <2>3, <3>1, RefreshLayoutKeeps, Zenon
    <2> QED BY <1>5, <2>2, <2>3, Zenon DEF RunCommand
  <1>6. CASE Query
    <2>1. /\ version' = version /\ baseline' = baseline /\ pc' = pc
          /\ shown' = shown /\ Leave({}) /\ queue' = queue
      BY <1>6, Zenon DEF Query, Serve, Leave, streamVars, clientVars
    <2> QED BY <1>1, <2>1, LocalKeeps
  <1>7. CASE RefreshEventState
    <2>1. InitializeEventState(version) /\ version' = version /\ UNCHANGED <<pc, shown>>
      BY <1>7, Zenon DEF RefreshEventState, Serve, clientVars
    <2> QED BY <1>1, <2>1, CompareKeeps
  <1> QED BY <1>2, <1>3, <1>4, <1>5, <1>6, <1>7, Zenon DEF EventLoop

\* The steps of handle_client().
LEMMA ClientKeeps ==
    ASSUME StreamInv, NEW c \in Clients,
           \/ ClientAsks(c) \/ ClientTicks(c) \/ ClientSubscribes(c)
           \/ ClientAnswered(c) \/ ClientRegisters(c) \/ ClientGreeted(c)
           \/ ClientCloses(c)
    PROVE  StreamInv'
  <1>1. /\ version \in Nat /\ baseline \in Nat /\ baseline <= version
        /\ pc \in [Clients -> Steps] /\ queue \in [Clients -> Seq(Message)]
        /\ told \in [Clients -> Nat] /\ shown \in [Clients -> Nat]
    BY Zenon DEF StreamInv, StreamTypes, Lagging
  <1>2. CASE ClientAsks(c)
    BY <1>2, MoveKeeps, Zenon DEF ClientAsks, AskEventLoop, Steps, Streaming, Awaiting
  <1>3. CASE ClientTicks(c)
    <2>1. SendTick({}) /\ UNCHANGED <<version, baseline, shown>> /\ pc' = pc
      BY <1>3, Zenon DEF ClientTicks
    <2> QED BY <1>1, <2>1, TickKeeps, Zenon
  <1>4. CASE ClientSubscribes(c)
    BY <1>4, MoveKeeps, Zenon
       DEF ClientSubscribes, AskEventLoop, Steps, Streaming, Awaiting
  <1>5. CASE ClientAnswered(c)
    BY <1>5, MoveKeeps, Zenon DEF ClientAnswered, Steps, Streaming
  <1>6. CASE ClientRegisters(c)
    <2>1. /\ pc[c] = "subscribing" /\ pc' = [pc EXCEPT ![c] = "greeting"]
          /\ streams' = streams \cup {c} /\ told' = [told EXCEPT ![c] = baseline]
          /\ UNCHANGED <<version, baseline, queue, signals, stalled, shown>>
      BY <1>6, Zenon DEF ClientRegisters
    <2>2. StreamTypes'
      BY <1>1, <2>1, Zenon DEF StreamInv, StreamTypes, Steps, Streaming
    <2>3. c \notin signals
      BY <2>1, Zenon DEF StreamInv, RegisteredExactly, Streaming
    <2>4. RegisteredExactly'
      BY <1>1, <2>1, <2>3 DEF StreamInv, RegisteredExactly, Streaming
    <2>5. NeverBlocks' /\ NothingMissed'
      BY <1>1, <2>1 DEF StreamInv, NeverBlocks, NothingMissed
    <2>6. \A d \in Clients : told[d] <= told'[d] /\ told'[d] <= baseline
      BY <1>1, <2>1 DEF StreamInv, Lagging
    <2>7. Lagging'
      BY <1>1, <2>1, <2>2, <2>6 DEF StreamInv, Lagging, StreamTypes
    <2>8. ASSUME NEW d \in Clients
          PROVE  Ordered(queue[d], shown[d], told'[d])
      <3>1. Ordered(queue[d], shown[d], told[d]) /\ queue[d] \in Seq(Message)
        BY <1>1, OrderPerClient, Zenon DEF StreamInv
      <3>2. told[d] \in Nat /\ told'[d] \in Nat /\ told[d] <= told'[d]
        BY <1>1, <2>1, <2>6, Zenon
      <3>3. shown[d] \in Nat
        BY <1>1, Zenon
      <3> QED BY <3>1, <3>2, <3>3, LaterOrdered, Zenon
    <2>9. EventsInOrder'
      BY <2>1, <2>8, OrderPerClientNext, Zenon
    <2> QED BY <2>2, <2>4, <2>5, <2>7, <2>9, Zenon DEF StreamInv
  <1>7. CASE ClientGreeted(c)
    BY <1>7, MoveKeeps, Zenon DEF ClientGreeted, Steps, Streaming
  <1>8. CASE ClientCloses(c)
    BY <1>8, CloseKeeps, Zenon DEF ClientCloses
  <1> QED BY <1>2, <1>3, <1>4, <1>5, <1>6, <1>7, <1>8, Zenon

\* An event leaves the channel, and is written or not.
LEMMA StreamEventKeeps ==
    ASSUME StreamInv, NEW c \in Clients, StreamEvent(c)
    PROVE  StreamInv'
  <1> DEFINE e == Head(queue[c])
             q == Tail(queue[c])
  <1>1. /\ pc[c] = "stream" /\ queue[c] /= <<>>
        /\ version' = version /\ baseline' = baseline
    BY Zenon DEF StreamEvent, Selects
  <1>2. /\ version \in Nat /\ pc \in [Clients -> Steps]
        /\ queue \in [Clients -> Seq(Message)]
        /\ told \in [Clients -> Nat] /\ shown \in [Clients -> Nat]
        /\ \A d \in Clients : shown[d] <= told[d]
    BY Zenon DEF StreamInv, StreamTypes, Lagging
  <1>3. \A d \in Clients : Ordered(queue[d], shown[d], told[d])
    BY OrderPerClient, Zenon DEF StreamInv
  <1>4. /\ Ordered(q, shown[c], told[c])
        /\ e.family = "tree" => Ordered(q, e.version, told[c]) /\ e.version <= told[c]
    BY <1>1, <1>2, <1>3, TailOrdered, Zenon
  <1>5. queue[c] \in Seq(Message)
    BY <1>2, Zenon
  <1>6. q \in Seq(Message) /\ e \in Message
    BY <1>1, <1>5
  <1>7. e.version \in Nat
    BY <1>6, Zenon DEF Message
  <1>8. CASE e.family \in subs[c]
    <2> DEFINE gone == Overflowing(c, 1)
    <2>1. /\ QueueMessagesLeaving(c, 1, q)
          /\ shown' = IF e.family = "tree" THEN [shown EXCEPT ![c] = e.version] ELSE shown
      BY <1>8, Zenon DEF StreamEvent
    <2> HIDE DEF e, q
    <2>2. gone = (IF TooBig(c, 1) THEN {c} ELSE {}) /\ gone \in SUBSET Clients
      BY Zenon DEF Overflowing
    <2>3. /\ Leave(gone)
          /\ pc' = [pc EXCEPT ![c] = IF TooBig(c, 1) THEN "closed" ELSE "stream"]
          /\ queue' = [queue EXCEPT ![c] = IF TooBig(c, 1) THEN <<>> ELSE q]
      BY <2>1, Zenon DEF QueueMessagesLeaving, QueueMessages
    <2> HIDE DEF gone
    <2>4. pc' \in [Clients -> Steps]
      BY <1>2, <2>3, Zenon DEF Steps, Streaming
    <2>5. \A d \in Clients : pc'[d] \in Streaming <=> pc[d] \in Streaming /\ d \notin gone
      BY <1>1, <1>2, <2>2, <2>3, Zenon DEF Streaming
    <2>6. queue' \in [Clients -> Seq(Message)]
      BY <1>2, <1>6, <2>3
    <2>7. shown' \in [Clients -> Nat] /\ \A d \in Clients : shown'[d] <= told[d]
      BY <1>2, <1>4, <1>7, <2>1, Zenon
    <2>8. Ordered(q, shown'[c], told[c])
      BY <1>2, <1>4, <2>1, Zenon
    <2>9. Ordered(<<>>, shown'[c], told[c])
      BY <1>2, <2>7, EmptyOrdered, Zenon
    <2>10. \A d \in Clients : Ordered(queue'[d], shown'[d], told[d])
      <3>1. queue'[c] = q \/ queue'[c] = <<>>
        BY <1>2, <2>3, Zenon
      <3>2. \A d \in Clients \ {c} : queue'[d] = queue[d] /\ shown'[d] = shown[d]
        BY <1>2, <2>1, <2>3, Zenon
      <3> QED BY <1>3, <2>8, <2>9, <3>1, <3>2, Zenon
    <2>11. version' \in Nat /\ version <= version'
      BY <1>1, <1>2
    <2> QED BY <1>1, <2>2, <2>3, <2>4, <2>5, <2>6, <2>7, <2>10, <2>11, LeaveKeeps, Zenon
  <1>9. CASE e.family \notin subs[c]
    <2>1. /\ queue' = [queue EXCEPT ![c] = q]
          /\ UNCHANGED <<streams, signals, told, stalled, pc, shown>>
      BY <1>9, Zenon DEF StreamEvent
    <2> HIDE DEF e, q
    <2>2. Leave({})
      BY <2>1, Zenon DEF Leave
    <2>3. queue' \in [Clients -> Seq(Message)]
      BY <1>2, <1>6, <2>1, Zenon
    <2>4. \A d \in Clients : Ordered(queue'[d], shown[d], told[d])
      BY <1>2, <1>3, <1>4, <2>1, Zenon
    <2>5. version' \in Nat /\ version <= version'
      BY <1>1, <1>2
    <2> QED BY <1>1, <1>2, <2>1, <2>2, <2>3, <2>4, <2>5, LeaveKeeps, Zenon
  <1> QED BY <1>8, <1>9, Zenon

\* The steps of handle_event_stream_client().
LEMMA StreamKeeps ==
    ASSUME StreamInv, NEW c \in Clients,
           \/ StreamDisconnected(c) \/ StreamWritten(c) \/ StreamEvent(c)
           \/ StreamHeader(c) \/ Payload(c) \/ StreamAnswered(c)
           \/ StreamSubscribed(c)
    PROVE  StreamInv'
  <1>1. pc \in [Clients -> Steps] /\ queue \in [Clients -> Seq(Message)]
        /\ version \in Nat
    BY Zenon DEF StreamInv, StreamTypes
  <1>2. CASE StreamDisconnected(c)
    BY <1>2, CloseKeeps, Zenon DEF StreamDisconnected
  <1>3. CASE StreamWritten(c)
    <2>1. /\ version' = version /\ baseline' = baseline /\ pc' = pc
          /\ shown' = shown /\ Leave({}) /\ queue' = queue
      BY <1>3, Zenon DEF StreamWritten, Leave, streamVars
    <2> QED BY <1>1, <2>1, LocalKeeps
  <1>4. CASE StreamEvent(c)
    BY <1>4, StreamEventKeeps, Zenon
  <1>5. CASE StreamHeader(c)
    BY <1>5, MoveKeeps, Zenon DEF StreamHeader, Selects, Steps, Streaming
  <1>6. CASE StreamAsks(c)
    BY <1>6, MoveKeeps, Zenon DEF StreamAsks, AskEventLoop, Steps, Streaming
  <1>7. CASE StreamSubscribes(c)
    BY <1>7, MoveKeeps, Zenon DEF StreamSubscribes, AskEventLoop, Steps, Streaming
  <1>8. CASE StreamReplies(c)
    <2>1. /\ pc[c] \in Streaming /\ QueueMessagesLeaving(c, 1, queue[c])
          /\ UNCHANGED <<version, baseline, shown>>
      BY <1>8, Zenon DEF StreamReplies, Streaming
    <2> QED BY <2>1, QueueKeeps, Zenon
  <1>9. CASE StreamTicks(c)
    <2> DEFINE gone == Overflowing(c, 1)
    <2>1. /\ SendTick(gone) /\ UNCHANGED <<version, baseline, shown>>
          /\ pc[c] = "payload"
          /\ pc' = [pc EXCEPT ![c] = IF TooBig(c, 1) THEN "closed" ELSE "stream"]
      BY <1>9, Zenon DEF StreamTicks, QueueMessages
    <2>2. gone = (IF TooBig(c, 1) THEN {c} ELSE {}) /\ gone \in SUBSET Clients
      BY Zenon DEF Overflowing
    <2> HIDE DEF gone
    <2>3. pc' \in [Clients -> Steps]
      BY <1>1, <2>1, Zenon DEF Steps, Streaming
    <2>4. \A d \in Clients : pc'[d] \in Streaming <=> pc[d] \in Streaming /\ d \notin gone
      BY <1>1, <2>1, <2>2, Zenon DEF Streaming
    <2> QED BY <2>1, <2>2, <2>3, <2>4, TickKeeps, Zenon
  <1>10. CASE StreamAnswered(c)
    <2>1. /\ pc[c] \in Streaming /\ QueueMessagesLeaving(c, 1, queue[c])
          /\ UNCHANGED <<version, baseline, shown>>
      BY <1>10, Zenon DEF StreamAnswered, Streaming
    <2> QED BY <2>1, QueueKeeps, Zenon
  <1>11. CASE StreamSubscribed(c)
    <2>1. pc[c] \in Streaming /\ UNCHANGED <<version, baseline, shown>>
      BY <1>11, Zenon DEF StreamSubscribed, Streaming
    <2>2. PICK families \in Subscriptions :
            QueueMessagesLeaving(c, IF "tick" \in families THEN 2 ELSE 1, queue[c])
      BY <1>11, Zenon DEF StreamSubscribed
    <2> QED BY <2>1, <2>2, QueueKeeps, Zenon
  <1> QED
    BY <1>2, <1>3, <1>4, <1>5, <1>6, <1>7, <1>8, <1>9, <1>10, <1>11, Zenon DEF Payload

\* The initial state: no streams, nothing compared.
LEMMA InitKeeps == Init => StreamInv
  <1> SUFFICES ASSUME Init PROVE StreamInv
    BY Zenon
  <1>1. <<>> \in Seq(Message)
    OBVIOUS
  <1>2. StreamTypes
    BY <1>1, Zenon DEF Init, StreamTypes, Steps
  <1>3. RegisteredExactly /\ NeverBlocks /\ NothingMissed
    BY Zenon DEF Init, RegisteredExactly, NeverBlocks, NothingMissed, Streaming
  <1>4. Lagging
    BY DEF Init, Lagging
  <1>5. \A c \in Clients : queue[c] = <<>> /\ shown[c] = 0 /\ told[c] = 0
    BY Zenon DEF Init
  <1>6. \A c \in Clients : Ordered(queue[c], shown[c], told[c])
    BY <1>5, EmptyOrdered, Zenon
  <1>7. EventsInOrder
    BY <1>6, OrderPerClient, Zenon
  <1> QED BY <1>2, <1>3, <1>4, <1>7, Zenon DEF StreamInv

\* Every step keeps the invariant.
LEMMA NextKeeps == StreamInv /\ [Next]_vars => StreamInv'
  <1> SUFFICES ASSUME StreamInv, [Next]_vars PROVE StreamInv'
    BY Zenon
  <1>1. CASE Change \/ DirectEvent \/ EventLoop
    BY <1>1, LoopKeeps, Zenon
  <1>2. ASSUME NEW c \in Clients,
               \/ ClientAsks(c) \/ ClientTicks(c) \/ ClientSubscribes(c)
               \/ ClientGreeted(c) \/ ClientCloses(c)
               \/ StreamWritten(c) \/ StreamHeader(c)
               \/ Poll(c) \/ Payload(c)
        PROVE  StreamInv'
    BY <1>2, ClientKeeps, StreamKeeps, Zenon DEF Poll
  <1>3. CASE UNCHANGED vars
    <2>1. /\ UNCHANGED <<version, baseline, streams, queue, signals, told, stalled>>
          /\ UNCHANGED <<pc, shown>>
      BY <1>3, Zenon DEF vars, streamVars, clientVars
    <2> QED BY <2>1, Zenon DEF StreamInv, StreamTypes, RegisteredExactly, NeverBlocks,
                        NothingMissed, Lagging, EventsInOrder, TreeEvents
  <1> QED BY <1>1, <1>2, <1>3, Zenon DEF Next

\* The invariant holds of every behaviour.
LEMMA StreamInvAlways == Spec => []StreamInv
  BY InitKeeps, NextKeeps, PTL DEF Spec

\* EventStreamRegistration and send_event_now(): event_streams has a sender for
\* exactly the subscribers that were not told to disconnect.
THEOREM RegistrationIsExact == Spec => []RegisteredExactly
  <1>1. StreamInv => RegisteredExactly
    BY Zenon DEF StreamInv
  <1> QED BY <1>1, StreamInvAlways, PTL

\* send_event_now(): `disconnect.send_blocking(())` always finds room, so that a
\* client that does not read cannot stop the compositor.
THEOREM EventLoopNeverBlocks == Spec => []NeverBlocks
  <1>1. StreamInv => NeverBlocks
    BY Zenon DEF StreamInv
  <1> QED BY <1>1, StreamInvAlways, PTL

\* ipc_initialize_event_state(): whoever causes a comparison, every subscriber
\* that stays is sent its events.
THEOREM NoEventIsMissed == Spec => []NothingMissed
  <1>1. StreamInv => NothingMissed
    BY Zenon DEF StreamInv
  <1> QED BY <1>1, StreamInvAlways, PTL

\* handle_event_stream_client(): a subscriber gets the events of comparisons in
\* the order of the changes, and once each.
THEOREM EventsStayInOrder == Spec => []EventsInOrder
  <1>1. StreamInv => EventsInOrder
    BY Zenon DEF StreamInv
  <1> QED BY <1>1, StreamInvAlways, PTL

-----------------------------------------------------------------------------
(* The size of a buffer.                                                   *)

\* A set of naturals has a least element.
LEMMA LeastNat ==
  ASSUME NEW T, T \subseteq Nat, T /= {}
  PROVE  \E n \in T : \A m \in T : n <= m
  <1> DEFINE R == {ss \in Nat \X Nat : ss[1] < ss[2]}
  <1>1. IsWellFoundedOn(R, Nat)
    BY NatLessThanWellFounded, Zenon DEF OpToRel
  <1>2. \E n \in T : \A m \in T : ~(<<m, n>> \in R)
    <2> HIDE DEF R
    <2> QED BY <1>1, WFMin, Zenon
  <1>3. PICK n \in T : \A m \in T : ~(<<m, n>> \in R)
    BY <1>2, Zenon
  <1>4. ASSUME NEW m \in T PROVE n <= m
    <2>1. m \in Nat /\ n \in Nat
      BY Zenon
    <2>2. <<m, n>> \in R <=> m < n
      BY <2>1, Zenon
    <2> HIDE DEF R
    <2> QED BY <1>3, <2>1, <2>2
  <1> QED BY <1>4, Zenon

\* A power of two counts the subsets of an interval.
LEMMA PowerCounts ==
  ASSUME NEW k \in Nat
  PROVE  /\ IsFiniteSet(SUBSET (1..k)) /\ Cardinality(SUBSET (1..k)) = 2^k
         /\ 2^k \in Nat
  <1>1. IsFiniteSet(1..k) /\ Cardinality(1..k) = k
    BY FS_Interval
  <1>2. IsFiniteSet(SUBSET (1..k)) /\ Cardinality(SUBSET (1..k)) = 2^k
    BY <1>1, FS_SUBSET, Zenon
  <1> QED BY <1>2, FS_CardinalityType, Zenon

\* There are more subsets of an interval than elements.
LEMMA PowerIsLarger ==
  ASSUME NEW k \in Nat
  PROVE  k < 2^k
  <1> DEFINE N == 1..k
             f == [i \in N |-> {i}]
  <1>0. IsFiniteSet(N) /\ Cardinality(N) = k
    BY FS_Interval
  <1>1. IsFiniteSet(SUBSET N) /\ Cardinality(SUBSET N) = 2^k /\ 2^k \in Nat
    BY PowerCounts, Zenon
  <1> HIDE DEF N
  <1>2. f \in Injection(N, SUBSET N)
    BY Zenon DEF Injection, IsInjective
  <1>3. f \notin Surjection(N, SUBSET N)
    <2>1. {} \in SUBSET N /\ \A i \in N : f[i] /= {}
      BY Zenon
    <2> QED BY <2>1, Zenon DEF Surjection
  <1>4. k <= 2^k /\ k /= 2^k
    <2> DEFINE P == SUBSET N
    <2> HIDE DEF f, P
    <2>1. f \in Injection(N, P) /\ f \notin Surjection(N, P) /\ IsFiniteSet(P)
      BY <1>1, <1>2, <1>3, Zenon DEF P
    <2>2. /\ Cardinality(N) <= Cardinality(P)
          /\ Cardinality(N) = Cardinality(P) <=> f \in Surjection(N, P)
      BY <2>1, FS_Injection, Zenon
    <2>3. Cardinality(P) = 2^k
      BY <1>1, Zenon DEF P
    <2> QED BY <1>0, <2>1, <2>2, <2>3, Zenon
  <1>5. PICK p \in Nat : p = 2^k
    BY <1>1, Zenon
  <1> QED BY <1>4, <1>5

\* A subset of 1..k+1 is one of 1..k, with k+1 or without it.
LEMMA PowerDoubles ==
  ASSUME NEW k \in Nat
  PROVE  2^(k + 1) = 2 * 2^k
  <1>1. PICK x \in Nat : x = k + 1
    OBVIOUS
  <1> DEFINE N == 1..k
             A == SUBSET N
             B == {S \cup {x} : S \in A}
             f == [S \in A |-> S \cup {x}]
  <1>2. /\ IsFiniteSet(A) /\ Cardinality(A) = 2^k /\ 2^k \in Nat
        /\ Cardinality(SUBSET (1..x)) = 2^x
    BY PowerCounts, Zenon
  <1>3. x \notin N /\ 1..x = N \cup {x}
    BY <1>1
  <1> HIDE DEF N
  <1>4. f \in Bijection(A, B)
    <2>1. f \in [A -> B] /\ \A T \in B : \E S \in A : f[S] = T
      BY Zenon
    <2>2. ASSUME NEW S \in A, NEW T \in A, f[S] = f[T] PROVE S = T
      <3>1. S \cup {x} = T \cup {x} /\ x \notin S /\ x \notin T
        BY <1>3, <2>2, Zenon
      <3> HIDE DEF A, f
      <3>2. S = (S \cup {x}) \ {x} /\ T = (T \cup {x}) \ {x}
        BY <3>1, Zenon
      <3> QED BY <3>1, <3>2, Zenon
    <2> HIDE DEF f, A, B
    <2> QED BY <2>1, <2>2, Zenon DEF Bijection, Injection, Surjection, IsInjective
  <1>5. IsFiniteSet(B) /\ Cardinality(B) = Cardinality(A)
    BY <1>2, <1>4, FS_Bijection, Zenon DEF ExistsBijection
  <1>6. A \cup B = SUBSET (N \cup {x}) /\ A \cap B = {}
    <2>1. ASSUME NEW S \in SUBSET (N \cup {x}), S \notin A PROVE S \in B
      <3>1. x \in S
        BY <2>1, Zenon
      <3>2. S \ {x} \in A /\ S = (S \ {x}) \cup {x}
        BY <3>1, Zenon
      <3> QED BY <3>2, Zenon
    <2>2. A \subseteq SUBSET (N \cup {x}) /\ B \subseteq SUBSET (N \cup {x})
      BY Zenon
    <2>3. A \cap B = {}
      BY <1>3, Zenon
    <2> QED BY <2>1, <2>2, <2>3, Zenon
  <1> HIDE DEF A, B
  <1>7. Cardinality(A \cup B) = Cardinality(A) + Cardinality(B) - Cardinality({})
    <2>1. IsFiniteSet(A) /\ IsFiniteSet(B)
      BY <1>2, <1>5, Zenon
    <2>2. Cardinality(A \cup B) = Cardinality(A) + Cardinality(B) - Cardinality(A \cap B)
      BY <2>1, FS_Union, Zenon
    <2> QED BY <1>6, <2>2, Zenon
  <1>8. 2^x = 2^k + 2^k - 0
    BY <1>2, <1>3, <1>5, <1>6, <1>7, FS_EmptySet, Zenon
  <1>9. PICK p \in Nat : p = 2^k
    BY <1>2, Zenon
  <1> QED BY <1>1, <1>8, <1>9

\* Doubling a size makes room, and stops as soon as there is.
LEMMA GrownFits ==
  ASSUME NEW s \in Nat \ {0}, NEW n \in Nat
  PROVE  Grown(s, n) \in Nat \ {0} /\ n < Grown(s, n)
  <1> DEFINE Fits == {k \in 0..n : s * 2^k > n}
  <1>1. n \in Fits
    <2>1. PICK p \in Nat : p = 2^n
      BY PowerCounts, Zenon
    <2>2. n < p
      BY <2>1, PowerIsLarger, Zenon
    <2>3. s * p > n
      BY <2>1, <2>2
    <2> QED BY <2>1, <2>3
  <1>2. PICK k \in Fits : \A m \in Fits : k <= m
    <2>1. Fits \subseteq Nat
      OBVIOUS
    <2> QED BY <1>1, <2>1, LeastNat, Zenon
  <1>3. k \in 0..n /\ s * 2^k > n
    BY <1>2, Zenon
  <1>4. PICK g : g = s * 2^k
    BY Zenon
  <1>5. g = s \/ g \div 2 <= n
    <2>1. CASE k = 0
      BY <1>4, <2>1
    <2>2. CASE k /= 0
      <3>1. PICK j \in Nat : k = j + 1 /\ j \in 0..n /\ ~(k <= j)
        BY <1>3, <2>2
      <3>2. ~(s * 2^j > n)
        BY <1>2, <3>1, Zenon
      <3>3. PICK p \in Nat : p = 2^j
        BY PowerCounts, Zenon
      <3>4. g = s * (2 * p)
        BY <1>4, <3>1, <3>3, PowerDoubles, Zenon
      <3>5. PICK d \in Nat : d = s * p
        BY <3>3
      <3>6. g = 2 * d
        BY <3>3, <3>4, <3>5
      <3>7. d <= n
        BY <3>2, <3>3, <3>5
      <3> QED BY <3>6, <3>7
    <2> QED BY <2>1, <2>2, Zenon
  <1>6. g > n /\ g \in {s * 2^m : m \in 0..n}
    BY <1>3, <1>4, Zenon
  <1>7. /\ Grown(s, n) \in {s * 2^m : m \in 0..n}
        /\ Grown(s, n) > n
    <2> HIDE DEF Fits
    <2> QED BY <1>5, <1>6, Zenon DEF Grown
  <1>8. PICK m \in 0..n : Grown(s, n) = s * 2^m
    BY <1>7, Zenon
  <1>9. PICK p \in Nat : p = 2^m
    <2>1. m \in Nat
      BY <1>8
    <2> QED BY <2>1, PowerCounts, Zenon
  <1> QED BY <1>7, <1>8, <1>9

-----------------------------------------------------------------------------
(* Types, and the bound on the buffers.                                    *)

\* The conjuncts of TypeOK and BufferBounded, by what handlers leave alone.
TreeOK == version \in 1..MaxVersion /\ baseline \in 0..MaxVersion

ChannelOK ==
    /\ commands \in Seq([client : Clients, kind : Kinds])
    /\ replies \in SUBSET Clients

StreamOK ==
    /\ streams \in SUBSET Clients /\ signals \in SUBSET Clients
    /\ queue \in [Clients -> Seq(Events)]
    /\ \A c \in Clients : Len(queue[c]) <= QueueCap
    /\ told \in [Clients -> 0..MaxVersion]
    /\ stalled \in BOOLEAN

FutureOK ==
    /\ pc \in [Clients -> Steps]
    /\ buffered \in [Clients -> Nat] /\ size \in [Clients -> Nat \ {0}]
    /\ BufferBounded

HistoryOK ==
    /\ subs \in [Clients -> SUBSET Families]
    /\ requests \in [Clients -> Nat]
    /\ shown \in [Clients -> 0..MaxVersion]

BufferInv == TreeOK /\ ChannelOK /\ StreamOK /\ FutureOK /\ HistoryOK

\* A variable that is left alone keeps its type.
LEMMA UnchangedOK ==
    ASSUME BufferInv
    PROVE  /\ UNCHANGED <<version, baseline>> => TreeOK'
           /\ UNCHANGED channelVars => ChannelOK'
           /\ UNCHANGED streamVars => StreamOK'
           /\ UNCHANGED <<pc, buffered, size>> => FutureOK'
           /\ UNCHANGED <<subs, requests, shown>> => HistoryOK'
  <1>1. UNCHANGED <<version, baseline>> => TreeOK'
    BY Zenon DEF BufferInv, TreeOK
  <1>2. UNCHANGED channelVars => ChannelOK'
    BY Zenon DEF BufferInv, ChannelOK, channelVars
  <1>3. UNCHANGED streamVars => StreamOK'
    BY Zenon DEF BufferInv, StreamOK, streamVars
  <1>4. UNCHANGED <<pc, buffered, size>> => FutureOK'
    BY Zenon DEF BufferInv, FutureOK, BufferBounded
  <1>5. UNCHANGED <<subs, requests, shown>> => HistoryOK'
    BY Zenon DEF BufferInv, HistoryOK
  <1> QED BY <1>1, <1>2, <1>3, <1>4, <1>5, Zenon

\* try_send() fills no channel beyond its capacity.
LEMMA SendOK ==
    ASSUME BufferInv, NEW S \in SUBSET streams, NEW e \in Events,
           NEW gone \in SUBSET Clients, Send(S, e, gone)
    PROVE  StreamOK'
  <1> DEFINE sent == {c \in S : Len(queue[c]) < QueueCap}
             full == S \ sent
  <1>1. /\ queue' = [c \in Clients |-> IF c \in gone THEN <<>>
                                       ELSE IF c \in sent THEN Append(queue[c], e)
                                       ELSE queue[c]]
        /\ told' = [c \in Clients |-> IF c \in sent /\ e.family = "tree"
                                      THEN e.version ELSE told[c]]
        /\ streams' = streams \ (full \cup gone)
        /\ signals' = (signals \cup full) \ gone
        /\ stalled' = (stalled \/ full \cap signals /= {})
    BY Zenon DEF Send
  <1>2. /\ streams \subseteq Clients /\ signals \subseteq Clients
        /\ queue \in [Clients -> Seq(Events)]
        /\ \A c \in Clients : Len(queue[c]) <= QueueCap
        /\ told \in [Clients -> 0..MaxVersion]
    BY Zenon DEF BufferInv, StreamOK
  <1>3. full \subseteq Clients /\ \A c \in sent : Len(queue[c]) < QueueCap
    BY <1>2, Zenon
  <1>4. e.version \in 1..MaxVersion /\ MaxVersion \in Nat /\ QueueCap \in Nat
    BY StreamConstants, Zenon DEF Events
  <1> HIDE DEF sent, full
  <1>5. streams' \in SUBSET Clients /\ signals' \in SUBSET Clients /\ stalled' \in BOOLEAN
    BY <1>1, <1>2, <1>3, Zenon
  <1>6. told' \in [Clients -> 0..MaxVersion]
    <2>1. e.version \in 0..MaxVersion
      BY <1>4
    <2> QED BY <1>1, <1>2, <2>1, Zenon
  <1>7. ASSUME NEW c \in Clients
        PROVE  queue'[c] \in Seq(Events) /\ Len(queue'[c]) <= QueueCap
    <2>1. /\ queue[c] \in Seq(Events) /\ Len(queue[c]) <= QueueCap
          /\ queue'[c] \in {<<>>, queue[c], Append(queue[c], e)}
          /\ queue'[c] = Append(queue[c], e) => c \in sent \/ queue'[c] \in {<<>>, queue[c]}
      BY <1>1, <1>2, Zenon
    <2>2. CASE queue'[c] = <<>>
      BY <1>4, <2>2
    <2>3. CASE queue'[c] = queue[c]
      BY <2>1, <2>3, Zenon
    <2>4. CASE queue'[c] = Append(queue[c], e) /\ c \in sent
      <3>1. Len(queue[c]) < QueueCap
        BY <1>3, <2>4, Zenon
      <3>2. Append(queue[c], e) \in Seq(Events) /\ Len(Append(queue[c], e)) = Len(queue[c]) + 1
        BY <2>1
      <3> QED BY <1>4, <2>1, <2>4, <3>1, <3>2
    <2> QED BY <2>1, <2>2, <2>3, <2>4, Zenon
  <1>8. queue' \in [Clients -> Seq(Events)]
    <2>1. queue' = [c \in Clients |-> queue'[c]]
      BY <1>1, Zenon
    <2> QED BY <1>7, <2>1, Zenon
  <1> QED BY <1>5, <1>6, <1>7, <1>8, Zenon DEF StreamOK

\* A future that ends, or takes events, leaves no channel fuller.
LEMMA LeaveOK ==
    ASSUME BufferInv, NEW gone, Leave(gone), NEW c \in Clients, NEW q \in Seq(Events),
           Len(q) <= QueueCap, queue' = [queue EXCEPT ![c] = q]
    PROVE  StreamOK'
  <1>1. /\ streams' = streams \ gone /\ signals' = signals \ gone
        /\ told' = told /\ stalled' = stalled
    BY Zenon DEF Leave
  <1>2. /\ streams \subseteq Clients /\ signals \subseteq Clients
        /\ queue \in [Clients -> Seq(Events)]
        /\ \A d \in Clients : Len(queue[d]) <= QueueCap
        /\ told \in [Clients -> 0..MaxVersion] /\ stalled \in BOOLEAN
    BY Zenon DEF BufferInv, StreamOK
  <1>3. queue' \in [Clients -> Seq(Events)]
    BY <1>2, Zenon
  <1>4. ASSUME NEW d \in Clients PROVE Len(queue'[d]) <= QueueCap
    <2>1. queue'[d] = IF d = c THEN q ELSE queue[d]
      BY <1>2, Zenon
    <2> QED BY <1>2, <2>1, Zenon
  <1> QED BY <1>1, <1>2, <1>3, <1>4, Zenon DEF StreamOK

\* The reply or event that is written fits the buffer, or the future ends.
LEMMA QueueMessagesOK ==
    ASSUME BufferInv, NEW c \in Clients, NEW n \in Nat, QueueMessages(c, n)
    PROVE  FutureOK'
  <1> DEFINE g == Grown(size[c], buffered[c] + n)
  <1>1. /\ pc \in [Clients -> Steps]
        /\ buffered \in [Clients -> Nat] /\ size \in [Clients -> Nat \ {0}]
        /\ \A d \in Clients :
             pc[d] /= "closed" => buffered[d] < size[d] /\ size[d] <= MaxSize
    BY Zenon DEF BufferInv, FutureOK, BufferBounded
  <1>2. /\ size' = [size EXCEPT ![c] = g]
        /\ buffered' = [buffered EXCEPT ![c] = IF TooBig(c, n) THEN 0 ELSE @ + n]
        /\ pc' = [pc EXCEPT ![c] = IF TooBig(c, n) THEN "closed" ELSE "stream"]
        /\ TooBig(c, n) <=> g > MaxSize
    BY Zenon DEF QueueMessages, TooBig
  <1>3. PICK b \in Nat : b = buffered[c] + n
    BY <1>1
  <1>4. g \in Nat \ {0} /\ b < g
    BY <1>1, <1>3, GrownFits, Zenon
  <1> HIDE DEF g
  <1>5. "closed" \in Steps /\ "stream" \in Steps /\ MaxSize \in Nat
    BY StreamConstants, Zenon DEF Steps, Streaming
  <1>6. pc' \in [Clients -> Steps] /\ size' \in [Clients -> Nat \ {0}]
    BY <1>1, <1>2, <1>4, <1>5, Zenon
  <1>7. buffered' \in [Clients -> Nat]
    BY <1>1, <1>2, <1>3, Zenon
  <1>8. ASSUME NEW d \in Clients, pc'[d] /= "closed"
        PROVE  buffered'[d] < size'[d] /\ size'[d] <= MaxSize
    <2>1. CASE d = c
      <3>1. ~TooBig(c, n)
        BY <1>1, <1>2, <1>8, <2>1, Zenon
      <3>2. buffered'[d] = b /\ size'[d] = g
        BY <1>1, <1>2, <1>3, <2>1, <3>1, Zenon
      <3> QED BY <1>2, <1>4, <1>5, <3>1, <3>2
    <2>2. CASE d /= c
      BY <1>1, <1>2, <1>8, <2>2, Zenon
    <2> QED BY <2>1, <2>2, Zenon
  <1> QED BY <1>6, <1>7, <1>8, Zenon DEF FutureOK, BufferBounded

\* The same where the future may also take an event.
LEMMA QueueLeavingOK ==
    ASSUME BufferInv, NEW c \in Clients, NEW n \in Nat, NEW q \in Seq(Events),
           Len(q) <= QueueCap, QueueMessagesLeaving(c, n, q)
    PROVE  StreamOK' /\ FutureOK'
  <1>1. /\ QueueMessages(c, n) /\ Leave(Overflowing(c, n))
        /\ queue' = [queue EXCEPT ![c] = IF TooBig(c, n) THEN <<>> ELSE q]
    BY Zenon DEF QueueMessagesLeaving
  <1>2. PICK r : r = IF TooBig(c, n) THEN <<>> ELSE q
    BY Zenon
  <1>3. r \in Seq(Events) /\ Len(r) <= QueueCap
    BY <1>2, StreamConstants
  <1>4. queue' = [queue EXCEPT ![c] = r]
    BY <1>1, <1>2, Zenon
  <1> QED BY <1>1, <1>3, <1>4, LeaveOK, QueueMessagesOK, Zenon

\* The comparison of trees.
LEMMA CompareOK ==
    ASSUME BufferInv, NEW v \in 1..MaxVersion,
           InitializeEventState(v) \/ RefreshLayout(v)
    PROVE  baseline' \in 0..MaxVersion /\ StreamOK'
  <1>1. \/ baseline' \in {v, baseline} /\ UNCHANGED streamVars
        \/ baseline' = v /\ SendEventNow(Event("tree", v))
    BY Zenon DEF InitializeEventState, RefreshLayout
  <1>2. v \in 0..MaxVersion
    BY StreamConstants
  <1>3. baseline' \in 0..MaxVersion
    BY <1>1, <1>2, Zenon DEF BufferInv, TreeOK
  <1>4. CASE UNCHANGED streamVars
    BY <1>3, <1>4, UnchangedOK, Zenon
  <1>5. CASE SendEventNow(Event("tree", v))
    <2>1. Event("tree", v) \in Events /\ {} \in SUBSET Clients
      BY Zenon DEF Event, Events, Families
    <2> QED BY <1>3, <1>5, <2>1, SendOK, Zenon DEF SendEventNow
  <1> QED BY <1>1, <1>3, <1>4, <1>5, Zenon

\* An event that is not of a comparison.
LEMMA DirectOK ==
    ASSUME BufferInv, NEW gone \in SUBSET Clients,
           SendTick(gone) \/ SendEventNow(Event("other", 1))
    PROVE  StreamOK'
  <1>1. 1 \in 1..MaxVersion
    BY StreamConstants
  <1>2. /\ Event("tick", 1) \in Events /\ Event("other", 1) \in Events
        /\ {} \in SUBSET Clients
    BY <1>1, Zenon DEF Event, Events, Families
  <1> QED BY <1>2, SendOK, Zenon DEF SendTick, SendEventNow

\* A request is served, and its reply sent.
LEMMA ServeOK ==
    ASSUME BufferInv, NEW kind, Serve(kind)
    PROVE  ChannelOK' /\ FutureOK' /\ HistoryOK'
  <1> DEFINE R == [client : Clients, kind : Kinds]
  <1>1. commands /= <<>> /\ commands \in Seq(R)
    BY Zenon DEF BufferInv, ChannelOK, Serve
  <1>2. Head(commands) \in R /\ Tail(commands) \in Seq(R)
    <2> HIDE DEF R
    <2> QED BY <1>1
  <1>3. Head(commands).client \in Clients
    BY <1>2, Zenon
  <1>4. ChannelOK'
    BY <1>2, <1>3, Zenon DEF BufferInv, ChannelOK, Serve
  <1>5. UNCHANGED <<pc, buffered, size>> /\ UNCHANGED <<subs, requests, shown>>
    BY Zenon DEF Serve, clientVars
  <1> QED BY <1>4, <1>5, UnchangedOK, Zenon

\* The event loop.
LEMMA LoopOK ==
    ASSUME BufferInv, Change \/ DirectEvent \/ EventLoop
    PROVE  BufferInv'
  <1>1. version \in 1..MaxVersion /\ baseline \in 0..MaxVersion /\ MaxVersion \in Nat
    BY StreamConstants, Zenon DEF BufferInv, TreeOK
  <1>2. UNCHANGED clientVars =>
          UNCHANGED <<pc, buffered, size>> /\ UNCHANGED <<subs, requests, shown>>
    BY Zenon DEF clientVars
  <1>3. CASE Change
    <2>1. /\ version' \in 1..MaxVersion /\ baseline' = baseline
          /\ UNCHANGED streamVars /\ UNCHANGED channelVars /\ UNCHANGED clientVars
      BY <1>1, <1>3 DEF Change
    <2> QED BY <1>1, <1>2, <2>1, UnchangedOK, Zenon DEF BufferInv, TreeOK
  <1>4. CASE DirectEvent
    <2>1. /\ SendEventNow(Event("other", 1)) /\ UNCHANGED <<version, baseline>>
          /\ UNCHANGED channelVars /\ UNCHANGED clientVars
      BY <1>4, Zenon DEF DirectEvent
    <2>2. StreamOK'
      BY <2>1, DirectOK, Zenon
    <2> QED BY <1>2, <2>1, <2>2, UnchangedOK, Zenon DEF BufferInv
  <1>5. CASE Refresh
    <2>1. /\ RefreshLayout(version) /\ version' = version
          /\ UNCHANGED channelVars /\ UNCHANGED clientVars
      BY <1>5, Zenon DEF Refresh
    <2>2. baseline' \in 0..MaxVersion /\ StreamOK'
      BY <1>1, <2>1, CompareOK, Zenon
    <2>3. TreeOK'
      BY <1>1, <2>1, <2>2, Zenon DEF TreeOK
    <2> QED BY <1>2, <2>1, <2>2, <2>3, UnchangedOK, Zenon DEF BufferInv
  <1>6. CASE RunCommand
    <2>1. /\ Serve("Command") /\ version' \in {version, version + 1} /\ version' <= MaxVersion
          /\ \/ UNCHANGED baseline /\ UNCHANGED streamVars
             \/ \E v \in {version, version'} : RefreshLayout(v)
      BY <1>6, Zenon DEF RunCommand
    <2>2. version' \in 1..MaxVersion
      BY <1>1, <2>1
    <2>3. baseline' \in 0..MaxVersion /\ StreamOK'
      BY <1>1, <2>1, <2>2, CompareOK, UnchangedOK, Zenon
    <2>4. TreeOK'
      BY <2>2, <2>3, Zenon DEF TreeOK
    <2> QED BY <2>1, <2>3, <2>4, ServeOK, Zenon DEF BufferInv
  <1>7. CASE Query
    <2>1. /\ Serve("Query") /\ UNCHANGED <<version, baseline>> /\ UNCHANGED streamVars
      BY <1>7, Zenon DEF Query
    <2> QED BY <2>1, ServeOK, UnchangedOK, Zenon DEF BufferInv
  <1>8. CASE RefreshEventState
    <2>1. /\ Serve("RefreshEventState") /\ InitializeEventState(version)
          /\ version' = version
      BY <1>8, Zenon DEF RefreshEventState
    <2>2. baseline' \in 0..MaxVersion /\ StreamOK'
      BY <1>1, <2>1, CompareOK, Zenon
    <2>3. TreeOK'
      BY <1>1, <2>1, <2>2, Zenon DEF TreeOK
    <2> QED BY <2>1, <2>2, <2>3, ServeOK, Zenon DEF BufferInv
  <1> QED BY <1>3, <1>4, <1>5, <1>6, <1>7, <1>8, Zenon DEF EventLoop

\* A request to the event loop, or its reply.
LEMMA AskOK ==
    ASSUME BufferInv, NEW c \in Clients,
           \/ TakeReply(c)
           \/ \E kind \in Kinds, step \in Awaiting : AskEventLoop(c, kind, step)
    PROVE  ChannelOK'
  <1>1. commands \in Seq([client : Clients, kind : Kinds]) /\ replies \in SUBSET Clients
    BY Zenon DEF BufferInv, ChannelOK
  <1>2. CASE TakeReply(c)
    BY <1>1, <1>2, Zenon DEF TakeReply, ChannelOK
  <1>3. ASSUME NEW kind \in Kinds, NEW step, AskEventLoop(c, kind, step)
        PROVE  ChannelOK'
    <2>1. [client |-> c, kind |-> kind] \in [client : Clients, kind : Kinds]
      BY Zenon
    <2>2. Append(commands, [client |-> c, kind |-> kind]) \in Seq([client : Clients, kind : Kinds])
      BY <1>1, <2>1
    <2> QED BY <1>1, <1>3, <2>2, Zenon DEF AskEventLoop, ChannelOK
  <1> QED BY <1>2, <1>3, Zenon

\* A future that goes on, with no more in its buffer.
LEMMA StepOK ==
    ASSUME BufferInv, NEW c \in Clients, pc[c] /= "closed", NEW step \in Steps,
           pc' = [pc EXCEPT ![c] = step], UNCHANGED size,
           UNCHANGED buffered \/ (step = "closed" /\ buffered' = [buffered EXCEPT ![c] = 0])
    PROVE  FutureOK'
  <1>1. /\ pc \in [Clients -> Steps]
        /\ buffered \in [Clients -> Nat] /\ size \in [Clients -> Nat \ {0}]
        /\ \A d \in Clients :
             pc[d] /= "closed" => buffered[d] < size[d] /\ size[d] <= MaxSize
    BY Zenon DEF BufferInv, FutureOK, BufferBounded
  <1>2. pc' \in [Clients -> Steps]
    BY <1>1, Zenon
  <1>3. buffered' \in [Clients -> Nat]
    BY <1>1
  <1>4. ASSUME NEW d \in Clients, pc'[d] /= "closed"
        PROVE  buffered'[d] < size'[d] /\ size'[d] <= MaxSize
    <2>1. pc[d] /= "closed" /\ buffered'[d] = buffered[d]
      BY <1>1, <1>4, Zenon
    <2> QED BY <1>1, <2>1, Zenon
  <1> QED BY <1>1, <1>2, <1>3, <1>4, Zenon DEF FutureOK, BufferBounded

\* Requests are counted.
LEMMA RequestOK ==
    ASSUME BufferInv, NEW c \in Clients, Request(c), UNCHANGED <<subs, shown>>
    PROVE  HistoryOK'
  <1>1. requests \in [Clients -> Nat]
    BY Zenon DEF BufferInv, HistoryOK
  <1>2. requests' \in [Clients -> Nat]
    BY <1>1 DEF Request
  <1> QED BY <1>2, Zenon DEF BufferInv, HistoryOK

\* A future that ends drops its channels and its buffer.
LEMMA CloseOK ==
    ASSUME BufferInv, NEW c \in Clients, pc[c] /= "closed", Leave({c}),
           queue' = [queue EXCEPT ![c] = <<>>], pc' = [pc EXCEPT ![c] = "closed"],
           buffered' = [buffered EXCEPT ![c] = 0],
           UNCHANGED <<version, baseline, channelVars, subs, size, requests, shown>>
    PROVE  BufferInv'
  <1>1. /\ UNCHANGED <<version, baseline>> /\ UNCHANGED channelVars
        /\ UNCHANGED <<subs, requests, shown>> /\ size' = size
    BY Zenon
  <1>2. <<>> \in Seq(Events) /\ Len(<<>>) <= QueueCap /\ "closed" \in Steps
    BY StreamConstants DEF Steps
  <1>3. StreamOK'
    BY <1>2, LeaveOK, Zenon
  <1>4. FutureOK'
    BY <1>1, <1>2, StepOK, Zenon
  <1> QED BY <1>1, <1>3, <1>4, UnchangedOK, Zenon DEF BufferInv

\* What the client takes makes room.
LEMMA WrittenOK ==
    ASSUME BufferInv, NEW c \in Clients, StreamWritten(c)
    PROVE  BufferInv'
  <1>1. /\ UNCHANGED <<version, baseline>> /\ UNCHANGED streamVars /\ UNCHANGED channelVars
        /\ UNCHANGED <<subs, requests, shown>> /\ pc' = pc /\ size' = size
    BY Zenon DEF StreamWritten
  <1>2. /\ pc \in [Clients -> Steps]
        /\ buffered \in [Clients -> Nat] /\ size \in [Clients -> Nat \ {0}]
        /\ \A d \in Clients :
             pc[d] /= "closed" => buffered[d] < size[d] /\ size[d] <= MaxSize
    BY Zenon DEF BufferInv, FutureOK, BufferBounded
  <1>3. PICK n \in 1..buffered[c] : buffered' = [buffered EXCEPT ![c] = @ - n]
    BY Zenon DEF StreamWritten
  <1>4. buffered' \in [Clients -> Nat] /\ \A d \in Clients : buffered'[d] <= buffered[d]
    BY <1>2, <1>3
  <1>5. ASSUME NEW d \in Clients, pc'[d] /= "closed"
        PROVE  buffered'[d] < size'[d] /\ size'[d] <= MaxSize
    BY <1>1, <1>2, <1>4, <1>5
  <1>6. FutureOK'
    BY <1>1, <1>2, <1>4, <1>5, Zenon DEF FutureOK, BufferBounded
  <1> QED BY <1>1, <1>6, UnchangedOK, Zenon DEF BufferInv

\* An event is taken from the channel.
LEMMA TakeEventOK ==
    ASSUME BufferInv, NEW c \in Clients, StreamEvent(c)
    PROVE  BufferInv'
  <1>1. /\ queue \in [Clients -> Seq(Events)] /\ queue[c] \in Seq(Events)
        /\ Len(queue[c]) <= QueueCap /\ queue[c] /= <<>>
        /\ UNCHANGED <<version, baseline>> /\ UNCHANGED channelVars /\ UNCHANGED <<subs, requests>>
    BY Zenon DEF BufferInv, StreamOK, StreamEvent
  <1>2. PICK e, q : e = Head(queue[c]) /\ q = Tail(queue[c])
    BY Zenon
  <1>3. e \in Events /\ q \in Seq(Events) /\ Len(q) <= QueueCap
    <2> HIDE DEF Events
    <2> QED BY <1>1, <1>2, StreamConstants
  <1>4. e.version \in 0..MaxVersion /\ 1 \in Nat
    BY <1>3, StreamConstants DEF Events
  <1>5. \/ /\ QueueMessagesLeaving(c, 1, q)
           /\ shown' = IF e.family = "tree" THEN [shown EXCEPT ![c] = e.version] ELSE shown
        \/ /\ queue' = [queue EXCEPT ![c] = q]
           /\ UNCHANGED <<streams, signals, told, stalled>> /\ UNCHANGED <<pc, buffered, size>>
           /\ UNCHANGED shown
    BY <1>2, Zenon DEF StreamEvent
  <1>6. HistoryOK'
    BY <1>1, <1>4, <1>5, Zenon DEF BufferInv, HistoryOK
  <1>7. CASE QueueMessagesLeaving(c, 1, q)
    BY <1>1, <1>3, <1>4, <1>6, <1>7, QueueLeavingOK, UnchangedOK, Zenon DEF BufferInv
  <1>8. CASE /\ queue' = [queue EXCEPT ![c] = q]
             /\ UNCHANGED <<streams, signals, told, stalled>> /\ UNCHANGED <<pc, buffered, size>>
    <2>1. Leave({})
      BY <1>8, Zenon DEF Leave
    <2>2. StreamOK'
      BY <1>3, <1>8, <2>1, LeaveOK, Zenon
    <2> QED BY <1>1, <1>6, <1>8, <2>2, UnchangedOK, Zenon DEF BufferInv
  <1> QED BY <1>5, <1>7, <1>8, Zenon

\* handle_client().
LEMMA ClientOK ==
    ASSUME BufferInv, NEW c \in Clients,
           \/ ClientAsks(c) \/ ClientTicks(c) \/ ClientSubscribes(c)
           \/ ClientAnswered(c) \/ ClientRegisters(c)
           \/ ClientGreeted(c) \/ ClientCloses(c)
    PROVE  BufferInv'
  <1>1. /\ {"header", "asking", "subscribing", "greeting", "stream", "closed"} \subseteq Steps
        /\ "asking" \in Awaiting /\ "subscribing" \in Awaiting
        /\ {"Query", "Command", "RefreshEventState"} \subseteq Kinds
    BY Zenon DEF Steps, Streaming, Awaiting, Kinds
  <1>2. CASE ClientAsks(c)
    <2>1. /\ pc[c] /= "closed" /\ Request(c) /\ UNCHANGED <<version, baseline>>
          /\ UNCHANGED streamVars /\ UNCHANGED <<subs, shown>> /\ buffered' = buffered
          /\ size' = size
          /\ \E kind \in {"Query", "Command"} : AskEventLoop(c, kind, "asking")
      BY <1>2, Zenon DEF ClientAsks
    <2>2. ChannelOK' /\ pc' = [pc EXCEPT ![c] = "asking"]
      BY <1>1, <2>1, AskOK, Zenon DEF AskEventLoop
    <2>3. FutureOK'
      BY <1>1, <2>1, <2>2, StepOK, Zenon
    <2> QED BY <2>1, <2>2, <2>3, RequestOK, UnchangedOK, Zenon DEF BufferInv
  <1>3. CASE ClientTicks(c)
    <2>1. /\ Request(c) /\ SendTick({}) /\ UNCHANGED <<version, baseline>>
          /\ UNCHANGED channelVars /\ UNCHANGED <<pc, buffered, size>>
          /\ UNCHANGED <<subs, shown>>
      BY <1>3, Zenon DEF ClientTicks
    <2>2. {} \in SUBSET Clients
      BY Zenon
    <2> QED BY <2>1, <2>2, DirectOK, RequestOK, UnchangedOK, Zenon DEF BufferInv
  <1>4. CASE ClientSubscribes(c)
    <2>1. /\ pc[c] /= "closed" /\ Request(c) /\ UNCHANGED <<version, baseline>>
          /\ UNCHANGED streamVars /\ UNCHANGED <<subs, shown>> /\ buffered' = buffered
          /\ size' = size /\ AskEventLoop(c, "RefreshEventState", "subscribing")
      BY <1>4, Zenon DEF ClientSubscribes
    <2>2. ChannelOK' /\ pc' = [pc EXCEPT ![c] = "subscribing"]
      BY <1>1, <2>1, AskOK, Zenon DEF AskEventLoop
    <2>3. FutureOK'
      BY <1>1, <2>1, <2>2, StepOK, Zenon
    <2> QED BY <2>1, <2>2, <2>3, RequestOK, UnchangedOK, Zenon DEF BufferInv
  <1>5. CASE ClientAnswered(c)
    <2>1. /\ pc[c] /= "closed" /\ TakeReply(c) /\ UNCHANGED <<version, baseline>>
          /\ UNCHANGED streamVars /\ UNCHANGED <<subs, requests, shown>>
          /\ buffered' = buffered /\ size' = size /\ pc' = [pc EXCEPT ![c] = "header"]
      BY <1>5, Zenon DEF ClientAnswered
    <2>2. FutureOK'
      BY <1>1, <2>1, StepOK, Zenon
    <2> QED BY <2>1, <2>2, AskOK, UnchangedOK, Zenon DEF BufferInv
  <1>6. CASE ClientRegisters(c)
    <2>1. /\ pc[c] /= "closed" /\ TakeReply(c) /\ UNCHANGED <<version, baseline>>
          /\ streams' = streams \cup {c} /\ told' = [told EXCEPT ![c] = baseline]
          /\ UNCHANGED <<queue, signals, stalled>> /\ UNCHANGED <<requests, shown>>
          /\ buffered' = buffered /\ size' = size /\ pc' = [pc EXCEPT ![c] = "greeting"]
      BY <1>6, Zenon DEF ClientRegisters
    <2>2. FutureOK'
      BY <1>1, <2>1, StepOK, Zenon
    <2>3. PICK families \in Subscriptions : subs' = [subs EXCEPT ![c] = families]
      BY <1>6, Zenon DEF ClientRegisters
    <2>4. families \in SUBSET Families
      BY StreamConstants, Zenon
    <2>5. HistoryOK'
      BY <2>1, <2>3, <2>4, Zenon DEF BufferInv, HistoryOK
    <2>6. StreamOK'
      BY <2>1, Zenon DEF BufferInv, StreamOK, TreeOK
    <2> QED BY <2>1, <2>2, <2>5, <2>6, AskOK, UnchangedOK, Zenon DEF BufferInv
  <1>7. CASE ClientGreeted(c)
    <2>1. /\ pc[c] /= "closed" /\ UNCHANGED <<version, baseline>> /\ UNCHANGED streamVars
          /\ UNCHANGED channelVars /\ UNCHANGED <<subs, requests, shown>>
          /\ buffered' = buffered /\ size' = size /\ pc' = [pc EXCEPT ![c] = "stream"]
      BY <1>7, Zenon DEF ClientGreeted
    <2>2. FutureOK'
      BY <1>1, <2>1, StepOK, Zenon
    <2> QED BY <2>1, <2>2, UnchangedOK, Zenon DEF BufferInv
  <1>8. CASE ClientCloses(c)
    BY <1>1, <1>8, CloseOK, Zenon DEF ClientCloses
  <1> QED BY <1>2, <1>3, <1>4, <1>5, <1>6, <1>7, <1>8, Zenon

\* handle_event_stream_client().
LEMMA StreamClientOK ==
    ASSUME BufferInv, NEW c \in Clients,
           \/ StreamDisconnected(c) \/ StreamWritten(c) \/ StreamEvent(c)
           \/ StreamHeader(c) \/ StreamAnswered(c) \/ StreamSubscribed(c)
           \/ Payload(c)
    PROVE  BufferInv'
  <1>1. /\ {"stream", "payload", "streamAsking", "streamSubscribing", "closed"} \subseteq Steps
        /\ "streamAsking" \in Awaiting /\ "streamSubscribing" \in Awaiting
        /\ {"Query", "Command", "RefreshEventState"} \subseteq Kinds
        /\ 1 \in Nat /\ 2 \in Nat
    BY Zenon DEF Steps, Streaming, Awaiting, Kinds
  <1>2. queue \in [Clients -> Seq(Events)] /\ queue[c] \in Seq(Events) /\ Len(queue[c]) <= QueueCap
    BY Zenon DEF BufferInv, StreamOK
  <1>3. CASE StreamDisconnected(c)
    BY <1>1, <1>3, CloseOK, Zenon DEF StreamDisconnected
  <1>4. CASE StreamWritten(c)
    BY <1>4, WrittenOK, Zenon
  <1>5. CASE StreamEvent(c)
    BY <1>5, TakeEventOK, Zenon
  <1>6. CASE StreamHeader(c)
    <2>1. /\ pc[c] /= "closed" /\ Request(c) /\ UNCHANGED <<version, baseline>>
          /\ UNCHANGED streamVars /\ UNCHANGED channelVars /\ UNCHANGED <<subs, shown>>
          /\ buffered' = buffered /\ size' = size /\ pc' = [pc EXCEPT ![c] = "payload"]
      BY <1>6, Zenon DEF StreamHeader, Selects
    <2>2. FutureOK'
      BY <1>1, <2>1, StepOK, Zenon
    <2> QED BY <2>1, <2>2, RequestOK, UnchangedOK, Zenon DEF BufferInv
  <1>7. CASE StreamAnswered(c)
    <2>1. /\ TakeReply(c) /\ QueueMessagesLeaving(c, 1, queue[c])
          /\ UNCHANGED <<version, baseline>> /\ UNCHANGED <<subs, requests, shown>>
      BY <1>7, Zenon DEF StreamAnswered
    <2> QED BY <1>1, <1>2, <2>1, AskOK, QueueLeavingOK, UnchangedOK, Zenon DEF BufferInv
  <1>8. CASE StreamSubscribed(c)
    <2>1. /\ TakeReply(c) /\ UNCHANGED <<version, baseline>> /\ UNCHANGED <<requests, shown>>
      BY <1>8, Zenon DEF StreamSubscribed
    <2>2. PICK families \in Subscriptions :
            /\ subs' = [subs EXCEPT ![c] = @ \cup families]
            /\ QueueMessagesLeaving(c, IF "tick" \in families THEN 2 ELSE 1, queue[c])
      BY <1>8, Zenon DEF StreamSubscribed
    <2>3. StreamOK' /\ FutureOK'
      BY <1>1, <1>2, <2>2, QueueLeavingOK, Zenon
    <2>4. families \in SUBSET Families
      BY StreamConstants, Zenon
    <2>5. HistoryOK'
      BY <2>1, <2>2, <2>4, Zenon DEF BufferInv, HistoryOK
    <2> QED BY <2>1, <2>3, <2>5, AskOK, UnchangedOK, Zenon DEF BufferInv
  <1>9. CASE StreamAsks(c)
    <2>1. /\ pc[c] /= "closed" /\ UNCHANGED <<version, baseline>>
          /\ UNCHANGED streamVars /\ UNCHANGED <<subs, requests, shown>>
          /\ buffered' = buffered /\ size' = size
          /\ \E kind \in {"Query", "Command"} : AskEventLoop(c, kind, "streamAsking")
      BY <1>9, Zenon DEF StreamAsks
    <2>2. ChannelOK' /\ pc' = [pc EXCEPT ![c] = "streamAsking"]
      BY <1>1, <2>1, AskOK, Zenon DEF AskEventLoop
    <2>3. FutureOK'
      BY <1>1, <2>1, <2>2, StepOK, Zenon
    <2> QED BY <2>1, <2>2, <2>3, UnchangedOK, Zenon DEF BufferInv
  <1>10. CASE StreamSubscribes(c)
    <2>1. /\ pc[c] /= "closed" /\ UNCHANGED <<version, baseline>>
          /\ UNCHANGED streamVars /\ UNCHANGED <<subs, requests, shown>>
          /\ buffered' = buffered /\ size' = size
          /\ AskEventLoop(c, "RefreshEventState", "streamSubscribing")
      BY <1>10, Zenon DEF StreamSubscribes
    <2>2. ChannelOK' /\ pc' = [pc EXCEPT ![c] = "streamSubscribing"]
      BY <1>1, <2>1, AskOK, Zenon DEF AskEventLoop
    <2>3. FutureOK'
      BY <1>1, <2>1, <2>2, StepOK, Zenon
    <2> QED BY <2>1, <2>2, <2>3, UnchangedOK, Zenon DEF BufferInv
  <1>11. CASE StreamReplies(c)
    <2>1. /\ QueueMessagesLeaving(c, 1, queue[c]) /\ UNCHANGED <<version, baseline>>
          /\ UNCHANGED channelVars /\ UNCHANGED <<subs, requests, shown>>
      BY <1>11, Zenon DEF StreamReplies
    <2> QED BY <1>1, <1>2, <2>1, QueueLeavingOK, UnchangedOK, Zenon DEF BufferInv
  <1>12. CASE StreamTicks(c)
    <2>1. /\ SendTick(Overflowing(c, 1)) /\ QueueMessages(c, 1)
          /\ UNCHANGED <<version, baseline>> /\ UNCHANGED channelVars
          /\ UNCHANGED <<subs, requests, shown>>
      BY <1>12, Zenon DEF StreamTicks
    <2>2. Overflowing(c, 1) \in SUBSET Clients
      BY Zenon DEF Overflowing
    <2> QED BY <1>1, <2>1, <2>2, DirectOK, QueueMessagesOK, UnchangedOK, Zenon DEF BufferInv
  <1> QED BY <1>3, <1>4, <1>5, <1>6, <1>7, <1>8, <1>9, <1>10, <1>11, <1>12, Zenon DEF Payload

\* The initial state: empty channels and buffers.
LEMMA InitOK == Init => BufferInv
  <1> SUFFICES ASSUME Init PROVE BufferInv
    BY Zenon
  <1>1. TreeOK /\ ChannelOK
    BY StreamConstants DEF Init, TreeOK, ChannelOK
  <1>2. StreamOK
    <2>1. <<>> \in Seq(Events) /\ Len(<<>>) <= QueueCap /\ 0 \in 0..MaxVersion
      BY StreamConstants
    <2> QED BY <2>1, Zenon DEF Init, StreamOK
  <1>3. FutureOK
    <2>1. "header" \in Steps /\ 0 \in Nat /\ InitialSize \in Nat \ {0}
          /\ 0 < InitialSize /\ InitialSize <= MaxSize
      BY StreamConstants DEF Steps
    <2> QED BY <2>1, Zenon DEF Init, FutureOK, BufferBounded
  <1>4. HistoryOK
    <2>1. 0 \in 0..MaxVersion /\ 0 \in Nat
      BY StreamConstants
    <2> QED BY <2>1, Zenon DEF Init, HistoryOK
  <1> QED BY <1>1, <1>2, <1>3, <1>4, Zenon DEF BufferInv

\* Every step keeps the types and the bound.
LEMMA NextOK == BufferInv /\ [Next]_vars => BufferInv'
  <1> SUFFICES ASSUME BufferInv, [Next]_vars PROVE BufferInv'
    BY Zenon
  <1>1. CASE UNCHANGED vars
    <2>1. /\ UNCHANGED <<version, baseline>> /\ UNCHANGED streamVars
          /\ UNCHANGED channelVars /\ UNCHANGED <<pc, buffered, size>>
          /\ UNCHANGED <<subs, requests, shown>>
      BY <1>1, Zenon DEF vars, clientVars
    <2> QED BY <2>1, UnchangedOK, Zenon DEF BufferInv
  <1> QED BY <1>1, LoopOK, ClientOK, StreamClientOK, Zenon DEF Next, Poll

\* The types and the bound hold of every behaviour.
LEMMA BufferInvAlways == Spec => []BufferInv
  BY InitOK, NextOK, PTL DEF Spec

\* queue_ipc_message(): whatever clients do and however little they read, the
\* buffer of a connection stays below its size, and that within
\* MAX_WRITE_BUFFER_SIZE.
THEOREM BuffersAreBounded == Spec => []BufferBounded
  <1>1. BufferInv => BufferBounded
    BY Zenon DEF BufferInv, FutureOK
  <1> QED BY <1>1, BufferInvAlways, PTL

\* Type correctness; in particular no channel of events ever holds more than its
\* capacity.
THEOREM StreamTypesCorrect == Spec => []TypeOK
  <1>1. BufferInv => TypeOK
    BY Zenon DEF BufferInv, TreeOK, ChannelOK, StreamOK, FutureOK, HistoryOK, TypeOK
  <1> QED BY <1>1, BufferInvAlways, PTL
=============================================================================
