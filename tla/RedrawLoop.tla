----------------------------- MODULE RedrawLoop -----------------------------
(***************************************************************************)
(* The redraw loop of the TTY backend: the RedrawState machine of every    *)
(* output, driven by queue_redraw() calls, by the redraw pass at the end   *)
(* of an event loop dispatch, by VBlank events of the kernel, by the       *)
(* estimated VBlank timers and by the VBlank throttle, together with what  *)
(* turns outputs on and off: hotplug, `output power`, DPMS and VT switches.*)
(*                                                                         *)
(* The event loop is single threaded.  A handler runs in phase "dispatch"; *)
(* State::refresh_and_flush_clients() then redraws, in phase "refresh",    *)
(* every queued output before another handler can run.                     *)
(***************************************************************************)
EXTENDS Naturals, FiniteSets

CONSTANTS
    Outputs,          \* The connectors that can carry an output.
    Hotplug,          \* Whether connectors can be plugged and unplugged.
    PowerCommands,    \* Whether `output power` commands are issued.
    EarlyVBlanks,     \* Whether the driver delivers VBlanks too early.
    MaxStrayVBlanks,  \* How many VBlanks arrive for no submitted frame.
    MaxStaleTimers    \* Bound on the throttle timers a removed output leaves.

ASSUME RedrawConstants ==
    /\ Hotplug \in BOOLEAN
    /\ PowerCommands \in BOOLEAN
    /\ EarlyVBlanks \in BOOLEAN
    /\ MaxStrayVBlanks \in Nat
    /\ MaxStaleTimers \in Nat

VARIABLES
    phase,           \* Where the event loop is: "dispatch" or "refresh".
    connected,       \* The outputs in Swayward::output_state.
    redraw,          \* OutputState::redraw_state.
    estTimers,       \* Number of live estimated VBlank timers of the output.
    flips,           \* Outputs whose submitted frame awaits its VBlank.
    throttled,       \* Outputs whose VBlankThrottle holds back a VBlank.
    staleThrottle,   \* Throttle timers that outlived their output.
    animating,       \* Outputs with unfinished_animations_remain.
    poweredOff,      \* Connectors that Swayward::output_power maps to false.
    monitorsActive,  \* Swayward::monitors_active.
    drmActive,       \* Whether the session holds the DRM device.
    strays,          \* VBlanks that arrived for no submitted frame so far.
    owed,            \* Outputs with a redraw asked for since their last one.
    aborted          \* An unreachable!() was reached.

environment == <<flips, drmActive, strays>>
switches    == <<poweredOff, monitorsActive>>
redrawVars  == <<phase, connected, redraw, estTimers, flips, throttled,
                 staleThrottle, animating, poweredOff, monitorsActive,
                 drmActive, strays, owed, aborted>>

-----------------------------------------------------------------------------
(* RedrawState.  WaitingForVBlank { redraw_needed } is two states, and the *)
(* token of the last two is a live timer counted by estTimers.             *)

VBlankStates == {"WaitingForVBlank", "WaitingForVBlankRedrawNeeded"}
EstStates    == {"WaitingForEstimatedVBlank",
                 "WaitingForEstimatedVBlankAndQueued"}
QueuedStates == {"Queued", "WaitingForEstimatedVBlankAndQueued"}
RedrawStates == {"Idle", "Queued"} \cup VBlankStates \cup EstStates

\* A redraw request is on record: it is queued, or will be upon the VBlank.
RequestStates == QueuedStates \cup {"WaitingForVBlankRedrawNeeded"}

\* Mutants: a request made while a frame is in flight is dropped, or redraws
\* without waiting for the VBlank.
QueueRedrawDropped(s) ==
    CASE s = "Idle"                      -> "Queued"
      [] s = "WaitingForEstimatedVBlank" -> "WaitingForEstimatedVBlankAndQueued"
      [] OTHER                           -> s

QueueRedrawAtOnce(s) ==
    IF s \in EstStates THEN "WaitingForEstimatedVBlankAndQueued" ELSE "Queued"

\* RedrawState::queue_redraw().
QueueRedraw(s) ==
    CASE s = "Idle"                      -> "Queued"
      [] s = "WaitingForEstimatedVBlank" -> "WaitingForEstimatedVBlankAndQueued"
      [] s \in VBlankStates              -> "WaitingForVBlankRedrawNeeded"
      [] OTHER                           -> s

\* Swayward::queue_redraw() on every output of S.
QueueRedrawOn(S) ==
    /\ redraw' = [o \in Outputs |-> IF o \in S THEN QueueRedraw(redraw[o])
                                               ELSE redraw[o]]
    /\ owed' = owed \cup S

\* Mutants: a running timer is forgotten, or one is presumed to run.
StateOnSkippedForgets(s) == "Idle"
StateOnSkippedPresumes(s) == "WaitingForEstimatedVBlank"

\* The state after a render that submitted nothing: an estimated VBlank timer
\* that is already running is kept.
StateOnSkipped(s) ==
    IF s \in EstStates THEN "WaitingForEstimatedVBlank" ELSE "Idle"

\* queue_estimated_vblank_timer() leaves a running timer alone.
ArmEstimatedTimer(o) ==
    /\ redraw' = [redraw EXCEPT ![o] = "WaitingForEstimatedVBlank"]
    /\ estTimers' = [estTimers EXCEPT ![o] =
                        IF redraw[o] \in EstStates THEN @ ELSE @ + 1]

\* Mutant: removes a timer whether or not the state holds one.
DropEstimatedTimerAlways(o) ==
    estTimers' = [estTimers EXCEPT ![o] = @ - 1]

\* LoopHandle::remove() on the token that the state holds, if it holds one.
DropEstimatedTimer(o) ==
    estTimers' = [estTimers EXCEPT ![o] =
                     IF redraw[o] \in EstStates THEN @ - 1 ELSE @]

Active(o) == monitorsActive /\ o \notin poweredOff

-----------------------------------------------------------------------------
Init ==
    /\ phase = "dispatch"
    /\ connected \in SUBSET Outputs
    /\ Hotplug \/ connected = Outputs
    /\ redraw = [o \in Outputs |-> IF o \in connected THEN "Queued" ELSE "Idle"]
    /\ owed = connected
    /\ estTimers = [o \in Outputs |-> 0]
    /\ flips = {}
    /\ throttled = {}
    /\ staleThrottle = [o \in Outputs |-> 0]
    /\ animating = {}
    /\ poweredOff = {}
    /\ monitorsActive = TRUE
    /\ drmActive = TRUE
    /\ strays = 0
    /\ aborted = FALSE

-----------------------------------------------------------------------------
(* The end of a dispatch: refresh_and_flush_clients().                     *)

BeginRefresh ==
    /\ phase = "dispatch" /\ ~aborted
    /\ phase' = "refresh"
    /\ UNCHANGED <<connected, redraw, estTimers, throttled, staleThrottle,
                   animating, switches, environment, owed, aborted>>

\* redraw_queued_outputs() found no queued output.
EndRefresh ==
    /\ phase = "refresh"
    /\ \A o \in connected : redraw[o] \notin QueuedStates
    /\ phase' = "dispatch"
    /\ UNCHANGED <<connected, redraw, estTimers, throttled, staleThrottle,
                   animating, switches, environment, owed, aborted>>

\* What redraw() does whatever the render makes of it.
RedrawStarts(o) ==
    /\ phase = "refresh"
    /\ o \in connected
    /\ redraw[o] \in QueuedStates
    /\ owed' = owed \ {o}
    /\ IF Active(o) THEN animating' \in {animating \cup {o}, animating \ {o}}
                    ELSE UNCHANGED animating
    /\ UNCHANGED <<phase, connected, throttled, staleThrottle, switches,
                   drmActive, strays, aborted>>

\* The frame has damage and queue_frame() hands it to the kernel, which takes
\* one frame at a time.
RedrawSubmitted(o) ==
    /\ RedrawStarts(o)
    /\ Active(o) /\ drmActive /\ o \notin flips
    /\ redraw' = [redraw EXCEPT ![o] = "WaitingForVBlank"]
    /\ DropEstimatedTimer(o)
    /\ flips' = flips \cup {o}

\* The frame is empty, or render_frame() or queue_frame() fails: nothing was
\* handed over, and a timer stands in for the VBlank.
RedrawTimed(o) ==
    /\ RedrawStarts(o)
    /\ Active(o) /\ drmActive
    /\ ArmEstimatedTimer(o)
    /\ UNCHANGED flips

\* The output is off, the session is on another VT, or there is no renderer.
RedrawSkipped(o) ==
    /\ RedrawStarts(o)
    /\ redraw' = [redraw EXCEPT ![o] = StateOnSkipped(@)]
    /\ UNCHANGED <<estTimers, flips>>

-----------------------------------------------------------------------------
(* Handlers.                                                               *)

Handler == phase = "dispatch" /\ ~aborted /\ UNCHANGED phase

\* Tty::on_vblank(), for an event of the kernel or of a throttle timer.  Only
\* an event that comes early can be held back by VBlankThrottle::throttle(),
\* which drops the event it held back before.
OnVBlank(o, early) ==
    \/ /\ o \notin connected
       /\ UNCHANGED <<redraw, owed, throttled>>
    \/ /\ o \in connected \cap poweredOff
       /\ redraw' = [redraw EXCEPT ![o] = "Idle"]
       /\ UNCHANGED <<owed, throttled>>
    \/ /\ o \in connected \ poweredOff /\ early
       /\ throttled' = throttled \cup {o}
       /\ UNCHANGED <<redraw, owed>>
    \/ /\ o \in connected \ poweredOff
       /\ throttled' = throttled \ {o}
       /\ IF redraw[o] = "WaitingForVBlank" /\ o \notin animating
          THEN redraw' = [redraw EXCEPT ![o] = "Idle"] /\ UNCHANGED owed
          ELSE /\ redraw' = [redraw EXCEPT ![o] = QueueRedraw("Idle")]
               /\ owed' = owed \cup {o}

\* The VBlank of the submitted frame arrives.
VBlank(o) ==
    /\ Handler
    /\ o \in flips
    /\ flips' = flips \ {o}
    /\ OnVBlank(o, EarlyVBlanks)
    /\ UNCHANGED <<connected, estTimers, staleThrottle, animating, switches,
                   drmActive, strays, aborted>>

\* The kernel sends a VBlank that no submitted frame explains, or one for a
\* CRTC whose surface is gone.
StrayVBlank(o) ==
    /\ Handler
    /\ strays < MaxStrayVBlanks
    /\ strays' = strays + 1
    /\ OnVBlank(o, EarlyVBlanks)
    /\ UNCHANGED <<connected, estTimers, flips, staleThrottle, animating,
                   switches, drmActive, aborted>>

\* A throttle timer of the output fires; the time it waited makes sure that
\* its VBlank is not early any more.
ThrottleTimer(o) ==
    /\ Handler
    /\ o \in throttled \cap connected
    /\ IF o \notin poweredOff
       THEN OnVBlank(o, FALSE)
       ELSE /\ redraw' = [redraw EXCEPT ![o] = "Idle"]
            /\ throttled' = throttled \ {o}
            /\ UNCHANGED owed
    /\ UNCHANGED <<connected, estTimers, staleThrottle, animating, switches,
                   environment, aborted>>

\* A throttle timer made for an output that was removed since fires.  It names
\* the CRTC, not the output.
StaleThrottleTimer(o) ==
    /\ Handler
    /\ staleThrottle[o] > 0
    /\ staleThrottle' = [staleThrottle EXCEPT ![o] = @ - 1]
    /\ OnVBlank(o, EarlyVBlanks)
    /\ UNCHANGED <<connected, estTimers, animating, switches, environment,
                   aborted>>

\* Tty::on_estimated_vblank_timer().
EstimatedVBlankTimer(o) ==
    /\ Handler
    /\ estTimers[o] > 0
    /\ estTimers' = [estTimers EXCEPT ![o] = @ - 1]
    /\ CASE redraw[o] = "WaitingForEstimatedVBlankAndQueued" ->
              /\ redraw' = [redraw EXCEPT ![o] = "Queued"]
              /\ UNCHANGED <<owed, aborted>>
         [] redraw[o] = "WaitingForEstimatedVBlank" ->
              /\ redraw' = [redraw EXCEPT ![o] =
                               IF o \in animating THEN QueueRedraw("Idle")
                               ELSE "Idle"]
              /\ owed' = owed \cup ({o} \cap animating)
              /\ UNCHANGED aborted
         [] OTHER ->
              /\ aborted' = TRUE
              /\ redraw' = [redraw EXCEPT ![o] = "Idle"]
              /\ UNCHANGED owed
    /\ UNCHANGED <<connected, throttled, staleThrottle, animating, switches,
                   environment>>

\* Any of the handlers whose only effect on this state is queue_redraw()
\* on some outputs.
RequestRedraw(S) ==
    /\ Handler
    /\ S \subseteq connected
    /\ QueueRedrawOn(S)
    /\ UNCHANGED <<connected, estTimers, throttled, staleThrottle, animating,
                   switches, environment, aborted>>

\* The `output <o> power` command.
SetOutputPower(o, on) ==
    /\ Handler
    /\ PowerCommands
    /\ poweredOff' = IF on THEN poweredOff \ {o} ELSE poweredOff \cup {o}
    /\ QueueRedrawOn(IF on THEN {o} \cap connected ELSE {})
    /\ UNCHANGED <<connected, estTimers, throttled, staleThrottle, animating,
                   monitorsActive, environment, aborted>>

\* A configuration reload forgets the power commands.
ReloadConfig ==
    /\ Handler
    /\ poweredOff' = {}
    /\ QueueRedrawOn(connected)
    /\ UNCHANGED <<connected, estTimers, throttled, staleThrottle, animating,
                   monitorsActive, environment, aborted>>

DeactivateMonitors ==
    /\ Handler
    /\ monitorsActive
    /\ monitorsActive' = FALSE
    /\ UNCHANGED <<connected, redraw, estTimers, throttled, staleThrottle,
                   animating, poweredOff, environment, owed, aborted>>

ActivateMonitors ==
    /\ Handler
    /\ ~monitorsActive
    /\ monitorsActive' = TRUE
    /\ QueueRedrawOn(connected)
    /\ UNCHANGED <<connected, estTimers, throttled, staleThrottle, animating,
                   poweredOff, environment, aborted>>

\* SessionEvent::PauseSession: the user switches to another VT.
PauseSession ==
    /\ Handler
    /\ drmActive
    /\ drmActive' = FALSE
    /\ UNCHANGED <<connected, redraw, estTimers, throttled, staleThrottle,
                   animating, switches, flips, strays, owed, aborted>>

\* SessionEvent::ActivateSession; the connectors that changed meanwhile are
\* the steps of ConnectorConnected and ConnectorDisconnected.
ActivateSession ==
    /\ Handler
    /\ ~drmActive
    /\ drmActive' = TRUE
    /\ monitorsActive' = TRUE
    /\ QueueRedrawOn(connected)
    /\ UNCHANGED <<connected, estTimers, throttled, staleThrottle, animating,
                   poweredOff, flips, strays, aborted>>

\* Tty::connector_connected() and add_output(), which repositions the other
\* outputs and queues a redraw of those that moved.
ConnectorConnected(o, moved) ==
    /\ Handler
    /\ Hotplug
    /\ o \notin connected
    /\ moved \subseteq connected
    /\ connected' = connected \cup {o}
    /\ QueueRedrawOn(moved \cup {o})
    /\ UNCHANGED <<estTimers, throttled, staleThrottle, animating, switches,
                   environment, aborted>>

\* Tty::connector_disconnected() and remove_output().  The estimated VBlank
\* timer goes with the output; the throttle timer does not.
ConnectorDisconnected(o, moved) ==
    /\ Handler
    /\ Hotplug
    /\ o \in connected
    /\ moved \subseteq connected \ {o}
    /\ o \in throttled => staleThrottle[o] < MaxStaleTimers
    /\ connected' = connected \ {o}
    /\ redraw' = [p \in Outputs |->
                     IF p = o THEN "Idle"
                     ELSE IF p \in moved THEN QueueRedraw(redraw[p])
                     ELSE redraw[p]]
    /\ owed' = (owed \cup moved) \ {o}
    /\ estTimers' = [estTimers EXCEPT ![o] = 0]
    /\ flips' = flips \ {o}
    /\ animating' = animating \ {o}
    /\ throttled' = throttled \ {o}
    /\ staleThrottle' = [staleThrottle EXCEPT ![o] =
                            IF o \in throttled THEN @ + 1 ELSE @]
    /\ UNCHANGED <<switches, drmActive, strays, aborted>>

Redraw(o) == RedrawSubmitted(o) \/ RedrawTimed(o) \/ RedrawSkipped(o)

Next ==
    \/ BeginRefresh \/ EndRefresh
    \/ DeactivateMonitors \/ ActivateMonitors
    \/ PauseSession \/ ActivateSession
    \/ ReloadConfig
    \/ \E S \in SUBSET connected : RequestRedraw(S)
    \/ \E o \in Outputs :
        \/ Redraw(o)
        \/ VBlank(o) \/ StrayVBlank(o)
        \/ ThrottleTimer(o) \/ StaleThrottleTimer(o)
        \/ EstimatedVBlankTimer(o)
        \/ \E on \in BOOLEAN : SetOutputPower(o, on)
        \/ \E moved \in SUBSET connected :
            ConnectorConnected(o, moved) \/ ConnectorDisconnected(o, moved)

\* The event loop runs, timers expire and the kernel presents what it was
\* given; nothing else has to happen.  A handler is enabled only between two
\* refreshes, and every dispatch serves every source that is ready: hence SF.
Fairness ==
    /\ WF_redrawVars(BeginRefresh) /\ WF_redrawVars(EndRefresh)
    /\ \A o \in Outputs :
        /\ WF_redrawVars(Redraw(o))
        /\ SF_redrawVars(VBlank(o))
        /\ SF_redrawVars(ThrottleTimer(o))
        /\ SF_redrawVars(EstimatedVBlankTimer(o))

Spec == Init /\ [][Next]_redrawVars
FairSpec == Spec /\ Fairness

-----------------------------------------------------------------------------
\* The variables have the types of the fields they stand for.
TypeOK ==
    /\ phase \in {"dispatch", "refresh"}
    /\ connected \subseteq Outputs
    /\ redraw \in [Outputs -> RedrawStates]
    /\ estTimers \in [Outputs -> Nat]
    /\ flips \subseteq Outputs
    /\ throttled \subseteq Outputs
    /\ staleThrottle \in [Outputs -> Nat]
    /\ animating \subseteq Outputs
    /\ poweredOff \subseteq Outputs
    /\ monitorsActive \in BOOLEAN
    /\ drmActive \in BOOLEAN
    /\ strays \in Nat
    /\ owed \subseteq Outputs
    /\ aborted \in BOOLEAN

\* No output waits for an event that nobody will deliver: an output that waits
\* for a VBlank has a frame in the kernel or an event held back by the
\* throttle, and one that waits for an estimated VBlank has a live timer.
\* Whatever order VBlanks, power commands, VT switches and hotplug come in.
AwaitedEventComes ==
    \A o \in connected :
        /\ redraw[o] \in VBlankStates => o \in flips \cup throttled
        /\ redraw[o] \in EstStates => estTimers[o] > 0

\* on_estimated_vblank_timer() never finds the output in a state that it
\* declares unreachable!().
TimerNeverUnexpected == ~aborted

\* A frame is handed to the kernel only after it presented the previous one:
\* while a VBlank is owed, the output is in WaitingForVBlank, from which
\* nothing is rendered.
OneFrameInFlight ==
    \A o \in flips : redraw[o] \in VBlankStates

\* queue_redraw() is never forgotten: until redraw() runs, the request stays on
\* record across VBlanks, timers and renders.  (A VBlank on an output that is
\* powered off drops it; powering on asks again.)
RequestNotLost ==
    \A o \in (connected \cap owed) \ poweredOff : redraw[o] \in RequestStates

\* Every redraw request is served, unless the output goes away or is powered
\* off: the states of the redraw loop always lead back to redraw().
RequestServed ==
    \A o \in Outputs : o \in owed ~> (o \notin owed \/ o \in poweredOff)
=============================================================================
