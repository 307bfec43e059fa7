# A TLA+ model of swayward

swayward is an i3/sway compatible Wayland compositor. This directory holds TLA+
modules for parts of it, the TLC configurations that check them on small
instances, and TLAPS proofs for every size of instance.

## The system and its parts

The compositor is one thread around a calloop event loop. Between two polls it
runs the handlers of what is ready (Wayland requests, DRM events, timers, IPC
commands), one after another, and then `State::refresh_and_flush_clients()`,
which refreshes derived state and redraws every output that asked for it. What
is concurrent is the outside: the kernel, clients, timers, users, and a few
helper threads (IPC clients, the configuration watcher, D-Bus).

| Part | Code | Module |
|---|---|---|
| Redraw loop | `backend/tty.rs`, `swayward/render.rs`, `swayward/outputs.rs`, `utils/vblank_throttle.rs` | `RedrawLoop` |
| Session lock | `swayward/lock.rs`, `handlers/`, `swayward/render.rs` | `SessionLock` (with `RedrawLoop`) |
| Transactions | `utils/transaction.rs`, `handlers/xdg_shell/configure.rs`, `window/mapped/`, `layout/tiling_tree/rendering.rs` | `Transactions` |
| IPC event stream | `ipc/server.rs`, `ipc/server/transport.rs`, `ipc/server/requests.rs`, `ipc/server/event_bridge/legacy.rs` | `EventStream` |
| Tiling tree | `layout/tiling_tree/` | `TilingTree`, and `WindowList`, which it implements |
| Workspaces, monitors, scratchpad | `layout/mod.rs`, `layout/monitor.rs`, `layout/sway_workspace.rs`, `layout/workspace_naming.rs`, `layout/scratchpad.rs`, `command/` | `Workspaces` |
| Window life cycle before mapping, window switcher, input, Xwayland, frame clock, protocols, D-Bus | see `PROJECT.json` | not modelled |
| Geometry, rendering, animation | `render_helpers/`, `animation/` | floating point and drawing, not modelled |

`PROJECT.json` lists every component, with the reason where one is left out. The
code is large (a compositor with its protocols, rendering and geometry), and most of
it is translation between formats or drawing. The modules cover the parts whose
correctness depends on the order of events or on long sequences of operations, which
is well under a third of the lines.

The modules meet at few places. The lock is composed with the redraw loop
(`SessionLock` extends `RedrawLoop`). A workspace of `Workspaces` has a set of windows
where the code has a tree; that the tree behaves like a collection of windows which
loses none is what `WindowList` says and `TilingTree` implements. `Transactions` and
`EventStream` take changes of the layout as arbitrary.

## RedrawLoop

Each output has a `RedrawState`. `queue_redraw()` asks for a redraw; the refresh
at the end of a dispatch redraws queued outputs; a submitted frame is followed by
a VBlank, and a render that submitted nothing by a timer that stands in for it.

| Variable | Code |
|---|---|
| `phase` | handlers run in "dispatch", redraws in "refresh" |
| `connected`, `redraw` | the keys of `output_state`, and `redraw_state` of each; `WaitingForVBlank { redraw_needed }` is two values |
| `estTimers` | live estimated VBlank timers (calloop sources), whether or not a `RedrawState` still holds their token |
| `flips` | frames the kernel has not presented (external) |
| `throttled`, `staleThrottle` | the timer of `VBlankThrottle`, and those that outlived their output |
| `animating` | `unfinished_animations_remain` |
| `poweredOff`, `monitorsActive`, `drmActive` | `output_power`, `monitors_active`, the session's hold on the device |
| `strays`, `owed`, `aborted` | a counter for a bound; a history variable (redraw asked for since the last one); an `unreachable!()` was reached |

Every handler is one action, with all of its queue_redraw() calls. What it does
not decide is a choice: damage, failure of a render, animation, which outputs a
hotplug moves.

Assumptions about the outside: the kernel delivers the VBlank of a queued frame;
an event for a CRTC whose surface is gone is a stray one; `clear()` succeeds;
connectors that changed during a VT switch are separate steps, which allows more
behaviours than the code has.

Runs:

- `redraw_throttle`: two outputs and early VBlanks, with liveness.
- `redraw_everything`: hotplug, power commands, DPMS, VT switches, early VBlanks, a
  stray one and throttle timers that outlive their output.
- `redraw_stray`: a way to the `unreachable!()` of `on_estimated_vblank_timer()`.
  `on_vblank()` takes an output out of `WaitingForEstimatedVBlank` without removing
  the timer. It needs a VBlank that no frame explains, which a comment there
  reports from the field. A throttle timer that survives unplugging is a second
  way: set `MaxStrayVBlanks` to 0, and `Hotplug` and `EarlyVBlanks` to TRUE. Only
  some drivers do either.

The invariants of the loop under hotplug are checked in `lock_hotplug`, whose
specification implements that of the loop.

Two outputs are enough for the interplay of one output's events with a hotplug
that redraws another; outputs share no other state of the loop. `MaxStrayVBlanks`
and `MaxStaleTimers` bound counters: one of each suffices for both violations.

## SessionLock

`SessionLock` extends `RedrawLoop`; each of its actions is an action of the loop
with its effect on the lock, or one that leaves the loop alone. `shown` is what
the output displays, as far as the lock cares: blank, the lock, or the session.
`lockRender` is what the compositor believes of it (`lock_render_state`).

Runs:

- `lock_hotplug`: two outputs that come and go, one client.
- `lock_liveness`: two clients that die and take over. Each request is answered, if
  the user stays on this VT from some time on, and only the client that holds the
  lock ends it. The full product of the two runs takes TLC longer than it is worth;
  the proofs cover it.
- `lock_power_off`: with `output power` commands it need not be. A client that
  locks again within the dispatch of its unlock finds `lock_render_state` still
  Locked, so that the retry timer gives up; if a VBlank then finds the output
  powered off, the queued redraw is dropped and nothing asks again until the
  output is powered on. The window is narrow.

`retries` is a set: two retry timers of one output have the effect of one. A
client that dies loses its surfaces, not the lock.

## Transactions

When a window is closed or goes fullscreen, the windows that change with it are
asked for their new sizes with clones of one `Transaction`. A window that commits
the size it was asked for gives up its clone; its commit waits in the surface's
queue until the last clone is dropped, or a deadline of 300 ms passes.

| Variable | Code |
|---|---|
| `wanted`, `other` | the pending state of the toplevel: its size, and whether anything else in it changed |
| `configures`, `acked`, `applied` | sizes of the configures sent (a serial is an index), the last one acked, the one of the current commit |
| `next`, `pending` | `transaction_for_next_configure`, `pending_transactions` |
| `queue` | commits that wait, with the transaction and the dmabuf fence that block each, and the clone that the fence's callback owns (external) |
| `fences` | clones owned by fences whose surface is gone |
| `completed`, `timers`, `expired` | `Inner::completed`, the deadlines registered, those that fired first |
| `notify`, `cleared` | `Inner::notifications`, and the channel that `notify_blocker_cleared()` drains |
| `closing` | transactions that a closing animation waits for |
| `asked` | history: which configure asked which window on behalf of which transaction |

A clone is not an object of the model: `Held` says where one can be, and a
transaction which an action leaves unheld is completed in that action, as its
`Drop` does. `Refresh` is the part of `State::refresh()` that wakes clients and
sends configures, followed by a frame.

Assumptions: each window belongs to a client of its own (a queue is per client in
the code); the fences of a surface are signalled in the order of its commits; the
layout is one tree whose sizes change in any way.

Runs:

- `txn_throttled`: two windows, one of them with fences, resized and closed while
  only sizes change. A frame shows all of a transaction or nothing of it; commits
  are applied and closing animations start if the event loop runs and deadlines
  expire, whatever clients and fences do.
- `txn_all`: with changes of other state, whose configures are not throttled.
- `txn_unthrottled`: the violation. A comment says that throttling keeps a window
  from being in two transactions; a configure for anything but a size is not
  throttled, so it can be.

Two transactions are the fewest that can supersede each other, three configures
the fewest that can be answered out of step with them, and a queue of two commits
the shortest in which one waits behind the other.

Not modelled: unmapping by a null buffer, `request_size_once()`, the debug flag
that disables transactions.

## EventStream

An IPC connection is a future on the event loop. It sends requests that need the
state of the compositor through a channel, and awaits the reply. After SUBSCRIBE it
also has a bounded channel of events. `State::ipc_initialize_event_state()` compares
the tree with a baseline that all clients share, sends what changed, and makes the
tree the baseline. A client whose channel is full is removed from `event_streams`
and told to disconnect; one whose write buffer gets too big ends by itself.

| Variable | Code |
|---|---|
| `version` | the layout, as the number of reportable changes so far |
| `baseline` | `event_baseline_tree` and `event_stream_state` |
| `streams`, `queue`, `signals` | `event_streams`, and the two channels of each |
| `commands`, `replies` | the channel of `CommandRequest`s, and the reply channels |
| `pc` | the await at which the future of a client is |
| `subs`, `buffered`, `size` | `subscriptions`, the length of `write_buffer`, `write_buffer_size` |
| `told`, `shown`, `stalled` | history: what a client was sent, what it was written, whether a blocking send found no room |

What one comparison finds is one event. In the code it can be several, but the first
that does not fit removes the client, so they are all sent or the client goes. A
message has length one. What a SUBSCRIBE asks for is chosen when the await ends,
since nothing depends on it before. Partial headers, and replies that `handle_client()`
gives without asking anyone, change no state.

Run `ipc_stream`: one client subscribes and goes on to make requests, another makes
one request of any kind. Channels hold two events and the buffer one message, so that
both overflow; three versions are the fewest for two events of comparisons to be in a
channel together. Each SUBSCRIBE asks for the tree and ticks, so the events that are
filtered out are the others. Requests are bounded, which liveness needs:
`select_biased!` prefers reading to writing, and a client that sends requests without
pause is not written its events.

A client that has sent a header and not its payload is not at the select. It is
written nothing, and stays connected after its channel overflowed. `OverflowDisconnects`
therefore assumes that clients finish the requests they begin.

## TilingTree and WindowList

The tiling tree of a workspace is an arena of nodes: windows, and splits with a
layout. `tree` holds the parents, the children and layouts of the splits, the focus
and the fullscreen node; `held` is a subtree that was detached, to float or to move
to another workspace. Each operation is an operator from a tree to a tree, with the
normalisation that ends it (`CompactTree`, `CollapseFrom`), and each action applies
one operation. The focus history is an arbitrary answer: where the code asks which
child had the focus last, the model takes any that could have. Between operations the
splits are renumbered in tree order, so that ids do not multiply states.

`WindowList` is what the layers above rely on: a list of windows to which one is
added, from which one is removed, which is rearranged, and from which a container
leaves with its windows in a row and comes back with them. `ImplementsWindowList` maps
the leaves of the tree, in order, to that list.

Run `tiling_tree`: three windows, two splits and three layouts, under every operation.
`CheckInvariants` is what `check_invariants()` asserts in debug builds. The other
invariants apply the operators to every reachable tree: laying out, flattening and
compacting keep windows in order (`LayoutKeepsOrder`) and the windows of the fullscreen
node on the screen (`LayoutKeepsFullscreen`); the commands that check the depth keep to
it (`DepthBound`); a directional move takes the focus along (`FocusFollowsMove`). Three windows are the fewest
for a pair of nested splits to be squashed next to a third child, and a depth of two
the least limit that the tree can exceed. `MaxSize` limits what decorates a tree. By
hand, `CheckInvariants` was checked on 56,772 states without `MaxSize`, and all six
properties on 23,743.

What the model shows about the code beyond the properties: directional moves are
outside the depth limit (`DepthBound` is therefore about the commands that do check
it), and detaching the whole root exceeds it by one; a LEFT or TOP drop on a child of
the root with `workspace_layout` tabbed or stacking reaches an `expect()` in
`add_tile_at_drop()`, which is a guard of the model; `focus_inactive_in()` never finds
a node, so that `finish_subtree_detach()` never refocuses; the fullscreen mode goes to
the parent in `squash()`, but not in `squash_for_move()`.

Not modelled: shares and interactive resizes, rectangles, titles, maximized windows,
swaps between two trees.

## Workspaces

`layout` is the `Layout`: `mons`, the outputs in order, the first being the primary
one; `homeless`, the workspaces while there is no output; `lastActive`
(`last_active_workspace_id`); `pad` and `padWins`, the scratchpad; and `declared`, the
workspaces of the configuration. A monitor has its workspaces, the order in which they
are reported to clients, the active one, the previous one by id and by name, and
whether a switch is animated. A workspace has an id, an identity (a name or a number),
its output of origin and its windows, the sticky ones among them.

An action is one command, handler or event with every call it makes: cleaning up and
destroying workspaces, sorting, carrying sticky windows along. `Canonical` renumbers
ids after each step, since they are only compared.

Run `workspaces`: two outputs, two windows, one number, one name that the configuration
may declare for the second output, at most three workspaces. `VerifyInvariants` is what
`Layout::verify_invariants()` and `verify_workspace_lifecycle()` assert; no two
workspaces have one name (`NamesUnique`); a workspace whose output is connected is on it
(`AtHome`); every window is in one place (`WindowsKept`). `MaxSize` bounds the sum
of what is unusual in a state rather than each part, so that every combination of a
few occurs; the next larger value (203,250 states) was checked by hand. Two outputs
are the fewest with a primary and another one, and three workspaces the fewest for one
to be active, one previous and one neither.

Seen while modelling, and outside the properties: `remove_output()` drops an
empty persistent workspace of the output that goes; an empty inactive workspace stays
after a move that was refused, while `docs/KNOWN_DEVIATIONS.md` says that only
persistent ones do; `scratchpad_windows` keeps the ids of
windows closed while shown; a workspace that was already named stays non-persistent
when a reload declares its name.

Left out: names with a number prefix, lists of outputs in assignments (one output per
declared name), floating geometry, interactive moves, the overview, the focus inside a
workspace (any window may be the focused one), sticky tiled windows.

## Fairness

The event loop runs (weak fairness of the refresh and its redraws), timers expire
and the kernel presents what it was given (strong fairness, because a handler is
enabled only between two refreshes and each dispatch serves every ready source).
For the lock, rendering does not fail forever. For transactions, deadlines expire.
For the event stream, futures that can go on are polled, and clients take the reply to
SUBSCRIBE and finish the requests they begin; they need not read. Otherwise users and
clients owe nothing.

## Proofs

Every theorem holds for all values of the constants that satisfy the assumptions of
its module (`ASSUME` in the module that declares them). Each is proved from an
inductive invariant. The invariants `Backed`, `ExpectedInv`, `LockInv`, `TxnInv`,
`FrameInv`, `StreamInv` and `BufferInv` were also checked with TLC, by hand, on the
instances of the runs (up to 547,955 states).

`RedrawLoopProofs`, for any set of outputs:

- `NoWaitInVain` (`AwaitedEventComes`) and `RedrawTypesCorrect` (`TypeOK`), under every
  driver behaviour the model has. The inductive invariant `Backed` adds that outputs
  which are not connected are Idle, because a hotplug must start from a known state.
- `TimerFindsItsState` (`TimerNeverUnexpected`), `FramesDoNotOverlap`
  (`OneFrameInFlight`) and `RequestsAreKept` (`RequestNotLost`), assuming `Calm` (no
  stray VBlanks, and no early VBlanks together with hotplug). The violation runs show
  that `Calm` is needed. The inductive invariant `ExpectedInv` adds that a live timer
  and the state that holds its token imply each other.

`SessionLockProofs`, for any outputs and lock clients:

- `LockImplementsRedrawLoop`: `LockSpec => Spec`. From it and the theorems of the
  loop, `TimerFindsItsStateUnderLock` and `RequestsAreKeptUnderLock`.
- `LockCovers` (`LockedIsCovered`), `DeadlineIsKept` (`DeadlineGuardsWait`),
  `ClientsKnowWhoHolds` (`AnswersAgree`), `LockTypesCorrect` (`LockTypeOK`), without
  `Calm`. The inductive invariant `LockInv` adds that an output recorded as Locked does
  not show the session while the session is locked or locking.
- `UnlockedByHolder`: the action property `OnlyHolderUnlocks`, from the same invariant.

`TransactionsProofs`, for any windows, fences and bounds:

- `NoReadyCommitSleeps` (`ReadyCommitIsWoken`), `NoWaitWithoutDeadline`
  (`WaitHasDeadline`), `TxnTypesCorrect` (`TypeOK`). The inductive invariant `TxnInv`
  adds that the client of a commit which is blocked by a transaction is among those to
  notify of it (`Told`), and that no clone is of a transaction that was not created yet
  (`Past`): so the transaction of the last window to close completes at once, without a
  deadline. That a queue has a first blocked commit, which `ReadyCount` chooses, is
  proved from the well-foundedness of the naturals.
- Lemmas about queues, which the frames need: running a queue applies a prefix of it and
  leaves a rest whose first commit is blocked (`RestIsBlocked`, `BlockerClearedRuns`),
  keeps it in order (`RunInOrder`) and keeps the commit that answers a configure, or
  has applied it (`RunAnswers`).

`FrameProofs`, `FrameCommitProofs` and `FrameTheorems`, for the same constants and
`~OtherChanges` (configures carry only sizes, the case that throttling covers;
`txn_unthrottled` shows that it is needed):

- `FramesAreConsistent` (`FrameIsConsistent`): no frame shows part of a transaction.
- `OneTransactionAtATime` (`OneTransactionInFlight`).

The argument: throttling keeps a window at most one configure behind (`InStep`), so the
answer to a configure is one commit. While the transaction of the configure is not
completed (`Waiting`), that commit is not applied: it was not sent yet, and the window
keeps the transaction for it, or it is in the queue, blocked by the transaction, unless
nothing else holds the transaction (`Sole`), in which case applying it completes the
transaction. Once the transaction is completed (`Ready`), the commit is applied or is
in the queue with no other blocker. Each configure that was asked for is in one of the
two cases (`Answered`), and `Steady` says so of all windows. When the refresh has
drained the cleared blockers, the commits that were ready have run, so the frame that
follows shows all of a transaction or none of it.
`FrameInv` joins these with `TxnInv`, with what was asked for (`Asks`) and with the
order in which transactions are created and expire (`Fresh`). `FrameProofs` has the
invariant and the handlers that leave queues alone, or run one; `FrameCommitProofs` the
commit, which appends to a queue and runs it; `FrameTheorems` the refresh and the
theorems.

`EventStreamProofs`, for any clients, capacities and bounds:

- `RegistrationIsExact` (`RegisteredExactly`), `EventLoopNeverBlocks` (`NeverBlocks`),
  `NoEventIsMissed` (`NothingMissed`) and `EventsStayInOrder` (`EventsInOrder`). They
  need each other: the blocking send finds room because a client that was told to
  disconnect is not in `event_streams`, and a new event is in order because the client
  was told of all before it. The inductive invariant `StreamInv` adds `Lagging`: what is
  shown, told, compared and live are each at most the next.
- `BuffersAreBounded` (`BufferBounded`) and `StreamTypesCorrect` (`TypeOK`), from the
  inductive invariant `BufferInv`, which is the two together. The size of a buffer is
  doubled until a message fits. That some power of two is large enough, and the first
  one no more than twice what is needed (`GrownFits`), is proved by counting: `2^k` is
  the number of subsets of `1..k` (`PowerCounts`), which are more than its elements
  (`PowerIsLarger`), and twice as many for one element more (`PowerDoubles`).

`WindowListProofs`, for any windows:

- `EachWindowOnce`: the list that the tiling tree implements never holds a window twice,
  in the tree or in the container that is away. The step from one list to the next is
  given by what was inserted, removed or taken out in a row; the lemmas say that each of
  these is a shuffle of positions, which keeps entries distinct.

Only model-checked:

- The liveness properties `RequestServed`, `LockCompletes`, `CommitIsApplied`,
  `ClosingStarts`, `ChangeIsShown`, `OverflowDisconnects` and `RequestAnswered`, which
  are out of the prover's reach.
- `TilingTree`: its operators are recursive (paths, depth-first order, collapsing), and
  what a recursive operator computes cannot be proved with this prover. So that the
  tree implements `WindowList` is checked on the small instance, and what follows from
  it is proved.
- `Workspaces`: its sequences are filtered, sorted and folded (`SelectSeq`, `SortSeq`,
  `FoldLeft`: destroying, sorting, and reloading the configuration), recursive in the
  same way, and every one of its properties depends on what they return.
