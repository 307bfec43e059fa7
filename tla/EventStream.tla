----------------------------- MODULE EventStream -----------------------------
(***************************************************************************)
(* The IPC server.  Each connection is a future on the event loop: it      *)
(* reads requests, has the event loop answer those that need the state of  *)
(* the compositor, and after SUBSCRIBE also receives events through a      *)
(* bounded channel.  Events are found by comparing the tree with the one   *)
(* of the previous comparison.  A client that does not keep up is          *)
(* disconnected; it must neither stop the compositor nor lose an event     *)
(* silently.                                                               *)
(***************************************************************************)
EXTENDS Integers, Sequences

CONSTANTS
    Clients,        \* Connections, each used once.
    QueueCap,       \* Capacity of the channel of events.
    InitialSize,    \* INITIAL_WRITE_BUFFER_SIZE, in messages.
    MaxSize,        \* MAX_WRITE_BUFFER_SIZE, in messages.
    MaxVersion,     \* Bound on the changes of the tree.
    MaxRequests,    \* Bound on the requests of each client.
    Subscriptions   \* What a SUBSCRIBE can ask for: sets of families.

\* Families of events: those found by comparing trees (window, workspace), those
\* a client sends, and those that handlers send (mode, binding, output, input).
Families == {"tree", "tick", "other"}

ASSUME StreamConstants ==
    /\ QueueCap \in Nat \ {0}
    /\ InitialSize \in Nat \ {0} /\ MaxSize \in Nat /\ InitialSize <= MaxSize
    /\ MaxVersion \in Nat \ {0} /\ MaxRequests \in [Clients -> Nat]
    /\ Subscriptions \subseteq SUBSET Families

Kinds == {"Command", "Query", "RefreshEventState"}

VARIABLES
    version,    \* The live tree: the number of changes so far.
    baseline,   \* event_baseline_tree and event_stream_state; 0 is none.
    streams,    \* The clients of event_streams.
    queue,      \* The channel of events of each.
    signals,    \* Clients with a message in their disconnect channel.
    commands,   \* The channel of requests to the event loop.
    replies,    \* Clients with a message in their reply channel.
    pc,         \* Where the future of the client is.
    subs,       \* Subscriptions of the client.
    buffered,   \* Length of write_buffer.
    size,       \* write_buffer_size.
    requests,   \* Number of requests made.
    told,       \* History: the tree the client was last sent events up to.
    shown,      \* History: the tree of the last such event it was written.
    stalled     \* Whether a send_blocking() of the event loop found no room.

streamVars == <<streams, queue, signals, told, stalled>>
channelVars == <<commands, replies>>
clientVars == <<pc, subs, buffered, size, requests, shown>>
vars == <<version, baseline, streamVars, channelVars, clientVars>>

\* handle_client(): reading, awaiting an answer, awaiting the comparison, writing
\* the reply to SUBSCRIBE.  handle_event_stream_client(): at the select, reading
\* a payload, awaiting an answer, awaiting the comparison.
Streaming == {"greeting", "stream", "payload", "streamAsking", "streamSubscribing"}
Awaiting == {"asking", "subscribing", "streamAsking", "streamSubscribing"}
Steps == {"header", "closed"} \cup Streaming \cup Awaiting

Init ==
    /\ version = 1
    /\ baseline = 0
    /\ streams = {}
    /\ queue = [c \in Clients |-> <<>>]
    /\ signals = {}
    /\ commands = <<>>
    /\ replies = {}
    /\ pc = [c \in Clients |-> "header"]
    /\ subs = [c \in Clients |-> {}]
    /\ buffered = [c \in Clients |-> 0]
    /\ size = [c \in Clients |-> InitialSize]
    /\ requests = [c \in Clients |-> 0]
    /\ told = [c \in Clients |-> 0]
    /\ shown = [c \in Clients |-> 0]
    /\ stalled = FALSE

-----------------------------------------------------------------------------
(* Events.                                                                 *)

\* Only the events of a comparison tell of a version; that of the others is 1.
Event(family, v) == [family |-> family, version |-> v]

\* Mutant: a client with a full channel misses the event and stays.
SendSkippingFull(S, e, gone) ==
    LET sent == {c \in S : Len(queue[c]) < QueueCap}
    IN
    /\ queue' = [c \in Clients |-> IF c \in gone THEN <<>>
                                   ELSE IF c \in sent THEN Append(queue[c], e)
                                   ELSE queue[c]]
    /\ told' = [c \in Clients |-> IF c \in sent /\ e.family = "tree"
                                  THEN e.version ELSE told[c]]
    /\ streams' = streams \ gone
    /\ signals' = signals \ gone
    /\ UNCHANGED stalled

\* Mutant: a client with a full channel is told to disconnect, and stays.
SendKeepingFull(S, e, gone) ==
    LET sent == {c \in S : Len(queue[c]) < QueueCap}
        full == S \ sent
    IN
    /\ queue' = [c \in Clients |-> IF c \in gone THEN <<>>
                                   ELSE IF c \in sent THEN Append(queue[c], e)
                                   ELSE queue[c]]
    /\ told' = [c \in Clients |-> IF c \in sent /\ e.family = "tree"
                                  THEN e.version ELSE told[c]]
    /\ streams' = streams \ gone
    /\ signals' = (signals \cup full) \ gone
    /\ stalled' = (stalled \/ full \cap signals /= {})

\* Mutant: the channels are unbounded.
SendUnbounded(S, e, gone) ==
    /\ queue' = [c \in Clients |-> IF c \in gone THEN <<>>
                                   ELSE IF c \in S THEN Append(queue[c], e)
                                   ELSE queue[c]]
    /\ told' = [c \in Clients |-> IF c \in S /\ e.family = "tree"
                                  THEN e.version ELSE told[c]]
    /\ streams' = streams \ gone
    /\ signals' = signals \ gone
    /\ UNCHANGED stalled

\* try_send() of e to each of S, all of them streams; those that have no room are
\* removed, and sent a message to disconnect.  The clients of `gone` close in the
\* same step, after that.
Send(S, e, gone) ==
    LET sent == {c \in S : Len(queue[c]) < QueueCap}
        full == S \ sent
    IN
    /\ queue' = [c \in Clients |-> IF c \in gone THEN <<>>
                                   ELSE IF c \in sent THEN Append(queue[c], e)
                                   ELSE queue[c]]
    /\ told' = [c \in Clients |-> IF c \in sent /\ e.family = "tree"
                                  THEN e.version ELSE told[c]]
    /\ streams' = streams \ (full \cup gone)
    /\ signals' = (signals \cup full) \ gone
    /\ stalled' = (stalled \/ full \cap signals /= {})

\* IpcServer::send_event_now().
SendEventNow(e) == Send(streams, e, {})

\* MessageType::SendTick: only to streams whose `tick` is set, which the client's
\* future keeps equal to what its subscriptions say.
SendTick(gone) ==
    Send({c \in streams : "tick" \in subs[c]}, Event("tick", 1), gone)

\* Mutant: the comparison serves only the client that asked for it.
InitializeEventStateQuietly(v) ==
    /\ baseline' = v
    /\ UNCHANGED streamVars

\* Mutant: an event although nothing changed.
InitializeEventStateAlways(v) ==
    /\ baseline' = v
    /\ SendEventNow(Event("tree", v))

\* State::ipc_initialize_event_state() when v is the live tree.
InitializeEventState(v) ==
    /\ baseline' = v
    /\ IF v = baseline THEN UNCHANGED streamVars
       ELSE SendEventNow(Event("tree", v))

\* State::ipc_refresh_layout().
RefreshLayout(v) ==
    IF streams = {} THEN UNCHANGED <<baseline, streamVars>>
    ELSE InitializeEventState(v)

-----------------------------------------------------------------------------
(* The event loop.                                                         *)

\* A handler that changes the tree.
Change ==
    /\ version < MaxVersion
    /\ version' = version + 1
    /\ UNCHANGED <<baseline, streamVars, channelVars, clientVars>>

\* A handler that sends an event itself.
DirectEvent ==
    /\ SendEventNow(Event("other", 1))
    /\ UNCHANGED <<version, baseline, channelVars, clientVars>>

\* The comparison of State::refresh(), at the end of each dispatch.
Refresh ==
    /\ RefreshLayout(version)
    /\ UNCHANGED <<version, channelVars, clientVars>>

\* Mutant: the reply is not sent.
ServeSilently(kind) ==
    /\ commands /= <<>>
    /\ Head(commands).kind = kind
    /\ commands' = Tail(commands)
    /\ UNCHANGED <<replies, clientVars>>

\* Take the oldest request, and answer it.
Serve(kind) ==
    /\ commands /= <<>>
    /\ Head(commands).kind = kind
    /\ commands' = Tail(commands)
    /\ replies' = replies \cup {Head(commands).client}
    /\ UNCHANGED clientVars

\* command::execute(): the tree may change, and trees may be compared before or
\* after that.  The events are held back until the command is done.
RunCommand ==
    /\ Serve("Command")
    /\ version' \in {version, version + 1} /\ version' <= MaxVersion
    /\ \/ UNCHANGED <<baseline, streamVars>>
       \/ \E v \in {version, version'} : RefreshLayout(v)

Query ==
    /\ Serve("Query")
    /\ UNCHANGED <<version, baseline, streamVars>>

RefreshEventState ==
    /\ Serve("RefreshEventState")
    /\ InitializeEventState(version)
    /\ UNCHANGED version

-----------------------------------------------------------------------------
(* Connections.                                                            *)

Request(c) ==
    /\ requests[c] < MaxRequests[c]
    /\ requests' = [requests EXCEPT ![c] = @ + 1]

\* ask_event_loop(), refresh_event_state(): up to the await.
AskEventLoop(c, kind, step) ==
    /\ commands' = Append(commands, [client |-> c, kind |-> kind])
    /\ pc' = [pc EXCEPT ![c] = step]
    /\ UNCHANGED replies

\* After the await.
TakeReply(c) ==
    /\ c \in replies
    /\ replies' = replies \ {c}
    /\ UNCHANGED commands

\* Mutant: no EventStreamRegistration, so that the sender stays.
LeaveRegistered(gone) ==
    /\ signals' = signals \ gone
    /\ UNCHANGED <<streams, told, stalled>>

\* The EventStreamRegistration of a future that ends, and its channels, are dropped.
Leave(gone) ==
    /\ streams' = streams \ gone
    /\ signals' = signals \ gone
    /\ UNCHANGED <<told, stalled>>

\* handle_client(): a query or a command.
ClientAsks(c) ==
    /\ pc[c] = "header"
    /\ Request(c)
    /\ \E kind \in {"Query", "Command"} : AskEventLoop(c, kind, "asking")
    /\ UNCHANGED <<version, baseline, streamVars, subs, buffered, size, shown>>

ClientTicks(c) ==
    /\ pc[c] = "header"
    /\ Request(c)
    /\ SendTick({})
    /\ UNCHANGED <<version, baseline, channelVars, pc, subs, buffered, size, shown>>

\* SUBSCRIBE: trees are compared first, so that the next comparison starts here.
ClientSubscribes(c) ==
    /\ pc[c] = "header"
    /\ Request(c)
    /\ AskEventLoop(c, "RefreshEventState", "subscribing")
    /\ UNCHANGED <<version, baseline, streamVars, subs, buffered, size, shown>>

ClientAnswered(c) ==
    /\ pc[c] = "asking"
    /\ TakeReply(c)
    /\ pc' = [pc EXCEPT ![c] = "header"]
    /\ UNCHANGED <<version, baseline, streamVars, subs, buffered, size, requests,
                   shown>>

\* The rest of SUBSCRIBE, until the reply is to be written.
ClientRegisters(c) ==
    /\ pc[c] = "subscribing"
    /\ TakeReply(c)
    /\ streams' = streams \cup {c}
    /\ \E families \in Subscriptions : subs' = [subs EXCEPT ![c] = families]
    /\ told' = [told EXCEPT ![c] = baseline]
    /\ pc' = [pc EXCEPT ![c] = "greeting"]
    /\ UNCHANGED <<version, baseline, queue, signals, stalled, buffered, size,
                   requests, shown>>

\* The client has taken the reply, and the first tick event.
ClientGreeted(c) ==
    /\ pc[c] = "greeting"
    /\ pc' = [pc EXCEPT ![c] = "stream"]
    /\ UNCHANGED <<version, baseline, streamVars, channelVars, subs, buffered,
                   size, requests, shown>>

\* End of file, the close sentinel, an error, or a header that is refused.  A
\* future that awaits the event loop does not notice.
ClientCloses(c) ==
    /\ pc[c] \notin Awaiting \cup {"closed"}
    /\ Leave({c})
    /\ queue' = [queue EXCEPT ![c] = <<>>]
    /\ pc' = [pc EXCEPT ![c] = "closed"]
    /\ buffered' = [buffered EXCEPT ![c] = 0]
    /\ UNCHANGED <<version, baseline, channelVars, subs, size, requests, shown>>

-----------------------------------------------------------------------------
(* handle_event_stream_client().  Its select_biased! looks at the          *)
(* disconnect channel first, and nothing looks at it elsewhere.            *)

\* What write_buffer_size becomes when n messages are to fit: doubled as needed.
Grown(s, n) ==
    CHOOSE g \in {s * 2^k : k \in 0..n} : g > n /\ (g = s \/ g \div 2 <= n)

\* Mutant: the size is not compared with the limit.
TooBigNever(c, n) == FALSE

TooBig(c, n) == Grown(size[c], buffered[c] + n) > MaxSize

Overflowing(c, n) == IF TooBig(c, n) THEN {c} ELSE {}

\* queue_ipc_message(), n times.  If the buffer gets too big, the future ends.
QueueMessages(c, n) ==
    /\ size' = [size EXCEPT ![c] = Grown(@, buffered[c] + n)]
    /\ buffered' = [buffered EXCEPT ![c] = IF TooBig(c, n) THEN 0 ELSE @ + n]
    /\ pc' = [pc EXCEPT ![c] = IF TooBig(c, n) THEN "closed" ELSE "stream"]

\* queue_ipc_message() where q is what is left in the channel of events.
QueueMessagesLeaving(c, n, q) ==
    /\ QueueMessages(c, n)
    /\ Leave(Overflowing(c, n))
    /\ queue' = [queue EXCEPT ![c] = IF TooBig(c, n) THEN <<>> ELSE q]

Selects(c) == pc[c] = "stream" /\ c \notin signals

\* Mutant: the disconnect channel is looked at when there are no events.
StreamDisconnectedWhenIdle(c) ==
    /\ pc[c] = "stream" /\ c \in signals /\ queue[c] = <<>>
    /\ Leave({c})
    /\ pc' = [pc EXCEPT ![c] = "closed"]
    /\ buffered' = [buffered EXCEPT ![c] = 0]
    /\ UNCHANGED <<version, baseline, queue, channelVars, subs, size, requests,
                   shown>>

\* `disconnect.recv()`.
StreamDisconnected(c) ==
    /\ pc[c] = "stream" /\ c \in signals
    /\ Leave({c})
    /\ queue' = [queue EXCEPT ![c] = <<>>]
    /\ pc' = [pc EXCEPT ![c] = "closed"]
    /\ buffered' = [buffered EXCEPT ![c] = 0]
    /\ UNCHANGED <<version, baseline, channelVars, subs, size, requests, shown>>

\* StreamInput::Written.
StreamWritten(c) ==
    /\ Selects(c)
    /\ \E n \in 1..buffered[c] : buffered' = [buffered EXCEPT ![c] = @ - n]
    /\ UNCHANGED <<version, baseline, streamVars, channelVars, pc, subs, size,
                   requests, shown>>

\* StreamInput::Event: written if the client has subscribed to it by now.
StreamEvent(c) ==
    /\ Selects(c)
    /\ queue[c] /= <<>>
    /\ LET e == Head(queue[c])
       IN \/ /\ e.family \in subs[c]
             /\ QueueMessagesLeaving(c, 1, Tail(queue[c]))
             /\ shown' = IF e.family = "tree"
                         THEN [shown EXCEPT ![c] = e.version] ELSE shown
          \/ /\ e.family \notin subs[c]
             /\ queue' = [queue EXCEPT ![c] = Tail(@)]
             /\ UNCHANGED <<streams, signals, told, stalled, pc, buffered, size,
                            shown>>
    /\ UNCHANGED <<version, baseline, channelVars, subs, requests>>

\* StreamInput::Read of a whole header.  The payload is awaited.
StreamHeader(c) ==
    /\ Selects(c)
    /\ Request(c)
    /\ pc' = [pc EXCEPT ![c] = "payload"]
    /\ UNCHANGED <<version, baseline, streamVars, channelVars, subs, buffered,
                   size, shown>>

StreamAsks(c) ==
    /\ pc[c] = "payload"
    /\ \E kind \in {"Query", "Command"} : AskEventLoop(c, kind, "streamAsking")
    /\ UNCHANGED <<version, baseline, streamVars, subs, buffered, size, requests,
                   shown>>

StreamSubscribes(c) ==
    /\ pc[c] = "payload"
    /\ AskEventLoop(c, "RefreshEventState", "streamSubscribing")
    /\ UNCHANGED <<version, baseline, streamVars, subs, buffered, size, requests,
                   shown>>

\* A request that is answered at once, or refused.
StreamReplies(c) ==
    /\ pc[c] = "payload"
    /\ QueueMessagesLeaving(c, 1, queue[c])
    /\ UNCHANGED <<version, baseline, channelVars, subs, requests, shown>>

\* The client may be among those that the tick finds with a full channel.
StreamTicks(c) ==
    /\ pc[c] = "payload"
    /\ SendTick(Overflowing(c, 1))
    /\ QueueMessages(c, 1)
    /\ UNCHANGED <<version, baseline, channelVars, subs, requests, shown>>

StreamAnswered(c) ==
    /\ pc[c] = "streamAsking"
    /\ TakeReply(c)
    /\ QueueMessagesLeaving(c, 1, queue[c])
    /\ UNCHANGED <<version, baseline, subs, requests, shown>>

\* The rest of a further SUBSCRIBE: the reply, and the first tick event.
StreamSubscribed(c) ==
    /\ pc[c] = "streamSubscribing"
    /\ TakeReply(c)
    /\ \E families \in Subscriptions :
        /\ subs' = [subs EXCEPT ![c] = @ \cup families]
        /\ QueueMessagesLeaving(c, IF "tick" \in families THEN 2 ELSE 1, queue[c])
    /\ UNCHANGED <<version, baseline, requests, shown>>

-----------------------------------------------------------------------------

EventLoop == Refresh \/ RunCommand \/ Query \/ RefreshEventState

\* What the future of a client does once the event loop polls it.
Poll(c) ==
    \/ ClientAnswered(c) \/ ClientRegisters(c) \/ StreamDisconnected(c)
    \/ StreamEvent(c) \/ StreamAnswered(c) \/ StreamSubscribed(c)

\* The client sends the payload it announced.
Payload(c) ==
    StreamAsks(c) \/ StreamSubscribes(c) \/ StreamReplies(c) \/ StreamTicks(c)

Next ==
    \/ Change \/ DirectEvent \/ EventLoop
    \/ \E c \in Clients :
        \/ ClientAsks(c) \/ ClientTicks(c) \/ ClientSubscribes(c)
        \/ ClientGreeted(c) \/ ClientCloses(c)
        \/ StreamWritten(c) \/ StreamHeader(c)
        \/ Poll(c) \/ Payload(c)

Spec == Init /\ [][Next]_vars

\* The event loop runs, takes what is in the channel of commands and polls futures;
\* clients take the reply to SUBSCRIBE and finish the requests they begin.  They need
\* not read anything else.  Joining actions in one condition asks no more than a
\* condition of each: the head of the channel, or the step of the client, says which
\* of them is enabled, and until it is taken none of the others can be.
Fairness ==
    /\ WF_vars(Refresh)
    /\ WF_vars(RunCommand \/ Query \/ RefreshEventState)
    /\ \A c \in Clients : WF_vars(Poll(c)) /\ WF_vars(Payload(c) \/ ClientGreeted(c))

FairSpec == Spec /\ Fairness

-----------------------------------------------------------------------------
(* Properties.                                                             *)

Events == [family : Families, version : 1..MaxVersion]

\* Every variable has its type: channels hold no more than their capacity.
TypeOK ==
    /\ version \in 1..MaxVersion
    /\ baseline \in 0..MaxVersion
    /\ streams \in SUBSET Clients /\ signals \in SUBSET Clients
    /\ queue \in [Clients -> Seq(Events)]
    /\ \A c \in Clients : Len(queue[c]) <= QueueCap
    /\ commands \in Seq([client : Clients, kind : Kinds])
    /\ replies \in SUBSET Clients
    /\ pc \in [Clients -> Steps]
    /\ subs \in [Clients -> SUBSET Families]
    /\ buffered \in [Clients -> Nat] /\ size \in [Clients -> Nat \ {0}]
    /\ requests \in [Clients -> Nat]
    /\ told \in [Clients -> 0..MaxVersion] /\ shown \in [Clients -> 0..MaxVersion]
    /\ stalled \in BOOLEAN

\* event_streams has a sender for exactly the futures that run a subscription and
\* were not told to disconnect: no sender outlives its client, and none that was
\* removed for its full channel is without the message to disconnect.
RegisteredExactly ==
    /\ streams = {c \in Clients : pc[c] \in Streaming} \ signals
    /\ \A c \in signals : pc[c] \in Streaming

\* The event loop never blocks in `disconnect.send_blocking(())`: a channel of
\* one message is enough because the sender is removed when it is used.
NeverBlocks == ~stalled

\* A subscriber has been sent the events of every comparison made since it
\* subscribed, those made on behalf of other clients included.
NothingMissed == \A c \in streams : told[c] = baseline

TreeEvents(c) == {i \in 1..Len(queue[c]) : queue[c][i].family = "tree"}

\* The events of comparisons reach a client in the order of the changes and once
\* each: those in its channel are newer than the last one it was written, and no
\* newer than what it was told.
EventsInOrder ==
    \A c \in Clients :
        /\ \A i \in TreeEvents(c) : shown[c] < queue[c][i].version
                                    /\ queue[c][i].version <= told[c]
        /\ \A i, j \in TreeEvents(c) :
            i < j => queue[c][i].version < queue[c][j].version

\* The buffer of a client is smaller than its nominal size, which is within the
\* limit: the buffer is bounded although the client need not read.
BufferBounded ==
    \A c \in Clients :
        pc[c] /= "closed" => buffered[c] < size[c] /\ size[c] <= MaxSize

\* A change of the tree which was not compared when the client subscribed is
\* written to it in the end, or the client is disconnected.
ChangeIsShown ==
    \A c \in Clients, v \in 2..MaxVersion :
        (c \in streams /\ "tree" \in subs[c] /\ told[c] < v /\ v <= version)
            ~> (shown[c] >= v \/ pc[c] = "closed")

\* A client whose channel was full is disconnected, if it does finish the request
\* it has begun.
OverflowDisconnects == \A c \in Clients : c \in signals ~> pc[c] = "closed"

\* Each request to the event loop is answered, and its future goes on.
RequestAnswered == \A c \in Clients : pc[c] \in Awaiting ~> pc[c] \notin Awaiting
=============================================================================
