----------------------------- MODULE SessionLock -----------------------------
(***************************************************************************)
(* The ext-session-lock protocol over the redraw loop.  A client that asks *)
(* for the lock is told `locked` only once no output shows the session.    *)
(* To get there the compositor waits up to a second for the client's lock  *)
(* surfaces, then redraws every output, and confirms when the last of them *)
(* rendered a locked frame.  Every action is an action of RedrawLoop with  *)
(* its effect on the lock, or an action that leaves the redraw loop alone. *)
(***************************************************************************)
EXTENDS RedrawLoop

CONSTANTS
    Lockers,    \* The ext_session_lock_v1 objects that clients create.
    NoLocker    \* Not one of them.

ASSUME LockConstants == NoLocker \notin Lockers

VARIABLES
    lockState,   \* Swayward::lock_state.
    locker,      \* The lock object that lock_state holds.
    deadlines,   \* Number of live deadline timers.
    lockRender,  \* Outputs whose lock_render_state is Locked.
    surfaces,    \* OutputState::lock_surface: "none", "created" or "mapped".
    retries,     \* Outputs with a live timer of ensure_lock_redraw().
    alive,       \* Lock objects whose client still exists.
    answer,      \* What the client of each lock object was told.
    shown        \* What each output displays: "blank", "lock" or "session".

requestVars == <<lockState, locker, answer>>
lockVars == <<lockState, locker, deadlines, lockRender, surfaces, retries,
              alive, answer, shown>>
vars == <<redrawVars, lockVars>>

\* Swayward::is_locked().
IsLocked == lockState \in {"Locking", "Locked"}

\* What render() draws.
Frame == IF IsLocked THEN "lock" ELSE "session"

LockInit ==
    /\ Init
    /\ lockState = "Unlocked"
    /\ locker = NoLocker
    /\ deadlines = 0
    /\ lockRender = {}
    /\ surfaces = [o \in Outputs |-> "none"]
    /\ retries = {}
    /\ alive = Lockers
    /\ answer = [l \in Lockers |-> "idle"]
    /\ shown = [o \in Outputs |-> "blank"]

-----------------------------------------------------------------------------
(* Steps that several handlers share.                                      *)

\* Mutant: the confirmation is dropped.
ConfirmSilently(l) ==
    /\ lockState' = "Locked"
    /\ locker' = l
    /\ UNCHANGED answer

\* SessionLocker::lock(): the client of l is told that the session is locked.
Confirm(l) ==
    /\ lockState' = "Locked"
    /\ locker' = l
    /\ answer' = [answer EXCEPT ![l] = "locked"]

\* A pending confirmation is sent if all of the outputs in `outs` rendered a
\* locked frame; `rendered` are the ones that did.
ConfirmIfCovered(outs, rendered) ==
    IF lockState = "Locking" /\ outs \subseteq rendered
    THEN Confirm(locker)
    ELSE UNCHANGED requestVars

\* Mutants: the deadline timer is removed twice, or not at all.
ContinueToLockingRemovesTwo(outs) ==
    /\ retries' = outs
    /\ deadlines' = deadlines - 2
    /\ IF outs = {}
       THEN Confirm(locker)
       ELSE lockState' = "Locking" /\ UNCHANGED <<locker, answer>>

ContinueToLockingKeepsDeadline(outs) ==
    /\ retries' = outs
    /\ UNCHANGED deadlines
    /\ IF outs = {}
       THEN Confirm(locker)
       ELSE lockState' = "Locking" /\ UNCHANGED <<locker, answer>>

\* continue_to_locking(), given the outputs there are.
ContinueToLocking(outs) ==
    /\ retries' = outs
    /\ deadlines' = deadlines - 1
    /\ IF outs = {}
       THEN Confirm(locker)
       ELSE lockState' = "Locking" /\ UNCHANGED <<locker, answer>>

\* maybe_continue_to_locking() goes on when every output has a mapped surface.
SurfacesReady(outs, surfs) ==
    lockState = "WaitingForSurfaces" /\ \A o \in outs : surfs[o] = "mapped"

-----------------------------------------------------------------------------
(* redraw() of one output.                                                 *)

\* The lock state after a redraw; lock_render_state follows the frame only
\* where one was rendered or nothing is displayed.
Rendered(o) ==
    /\ lockRender' = IF IsLocked THEN lockRender \cup {o} ELSE lockRender \ {o}
    /\ ConfirmIfCovered(connected, lockRender')

NotRendered(o) ==
    /\ UNCHANGED lockRender
    /\ ConfirmIfCovered(connected, lockRender)

\* A frame with damage is submitted.
RedrawFrame(o) ==
    /\ RedrawSubmitted(o)
    /\ Rendered(o)
    /\ shown' = [shown EXCEPT ![o] = Frame]
    /\ UNCHANGED <<deadlines, surfaces, retries, alive>>

\* The frame is the one displayed.
RedrawEmpty(o) ==
    /\ RedrawTimed(o)
    /\ shown[o] = Frame
    /\ Rendered(o)
    /\ UNCHANGED <<deadlines, surfaces, retries, alive, shown>>

\* The frame could not be rendered or queued.
RedrawError(o) ==
    /\ RedrawTimed(o)
    /\ NotRendered(o)
    /\ UNCHANGED <<deadlines, surfaces, retries, alive, shown>>

\* Mutant: an output that could not be rendered counts as locked.
RedrawNothingCounts(o) ==
    /\ RedrawSkipped(o)
    /\ Rendered(o)
    /\ UNCHANGED <<deadlines, surfaces, retries, alive, shown>>

\* There was nothing to render to.
RedrawNothing(o) ==
    /\ RedrawSkipped(o)
    /\ IF Active(o) THEN NotRendered(o) ELSE Rendered(o)
    /\ UNCHANGED <<deadlines, surfaces, retries, alive, shown>>

LockRedraw(o) ==
    RedrawFrame(o) \/ RedrawEmpty(o) \/ RedrawError(o) \/ RedrawNothing(o)

-----------------------------------------------------------------------------
(* Requests of the clients.                                                *)

\* The handler does not touch the redraw loop.
QuietHandler == Handler /\ UNCHANGED redrawVars

\* SessionLockHandler::lock().  A refused confirmation is dropped, which sends
\* `finished`.
Lock(l) ==
    /\ QuietHandler
    /\ l \in alive /\ answer[l] = "idle"
    /\ \/ /\ \/ lockState \in {"WaitingForSurfaces", "Locking"}
             \/ lockState = "Locked" /\ locker \in alive
          /\ answer' = [answer EXCEPT ![l] = "finished"]
          /\ UNCHANGED <<lockState, locker, deadlines>>
       \/ /\ lockState = "Locked" /\ locker \notin alive
          /\ Confirm(l)
          /\ UNCHANGED deadlines
       \/ /\ lockState = "Unlocked" /\ connected = {}
          /\ Confirm(l)
          /\ UNCHANGED deadlines
       \/ /\ lockState = "Unlocked" /\ connected /= {}
          /\ lockState' = "WaitingForSurfaces"
          /\ locker' = l
          /\ answer' = [answer EXCEPT ![l] = "waiting"]
          /\ deadlines' = deadlines + 1
    /\ UNCHANGED <<lockRender, surfaces, retries, alive, shown>>

\* SessionLockHandler::unlock(), which only the client that was told `locked`
\* can call; it also turns the monitors on.
Unlock(l) ==
    /\ l \in alive /\ answer[l] = "locked"
    /\ IF monitorsActive THEN RequestRedraw(connected) ELSE ActivateMonitors
    /\ lockState' = "Unlocked"
    /\ locker' = NoLocker
    /\ answer' = [k \in Lockers |-> IF k = l THEN "unlocked"
                                    ELSE IF answer[k] = "waiting" THEN "finished"
                                    ELSE answer[k]]
    /\ deadlines' = IF lockState = "WaitingForSurfaces" THEN deadlines - 1
                                                        ELSE deadlines
    /\ surfaces' = [o \in Outputs |-> "none"]
    /\ UNCHANGED <<lockRender, retries, alive, shown>>

\* SessionLockHandler::new_surface() for the current lock; a surface of any
\* other client or lock object is ignored.
NewLockSurface(o) ==
    /\ QuietHandler
    /\ lockState /= "Unlocked" /\ locker \in alive
    /\ o \in connected
    /\ surfaces' = [surfaces EXCEPT ![o] = "created"]
    /\ UNCHANGED <<requestVars, deadlines, lockRender, retries, alive, shown>>

\* A commit on a lock surface.
CommitLockSurface(o) ==
    /\ o \in connected /\ surfaces[o] /= "none" /\ locker \in alive
    /\ surfaces' = [surfaces EXCEPT ![o] = "mapped"]
    /\ \/ /\ SurfacesReady(connected, surfaces')
          /\ RequestRedraw(connected)
          /\ ContinueToLocking(connected)
       \/ /\ lockState = "WaitingForSurfaces"
          /\ ~SurfacesReady(connected, surfaces')
          /\ QuietHandler
          /\ UNCHANGED <<requestVars, deadlines, retries>>
       \/ /\ lockState /= "WaitingForSurfaces"
          /\ RequestRedraw({o})
          /\ UNCHANGED <<requestVars, deadlines, retries>>
    /\ UNCHANGED <<lockRender, alive, shown>>

\* Mutant: the session is unlocked when the client that locked it dies.
LockerDiesUnlocks(l) ==
    /\ l \in alive
    /\ alive' = alive \ {l}
    /\ IF l = locker /\ lockState = "Locked"
       THEN /\ RequestRedraw(connected)
            /\ lockState' = "Unlocked" /\ locker' = NoLocker
            /\ UNCHANGED answer
       ELSE QuietHandler /\ UNCHANGED requestVars
    /\ surfaces' = [o \in Outputs |-> "none"]
    /\ UNCHANGED <<deadlines, lockRender, retries, shown>>

\* The client of l exits; its surfaces are not mapped any more.
LockerDies(l) ==
    /\ QuietHandler
    /\ l \in alive
    /\ alive' = alive \ {l}
    /\ surfaces' = [o \in Outputs |-> IF l = locker /\ surfaces[o] = "mapped"
                                      THEN "created" ELSE surfaces[o]]
    /\ UNCHANGED <<requestVars, deadlines, lockRender, retries, shown>>

-----------------------------------------------------------------------------
(* Timers.                                                                 *)

\* The deadline of lock() expires; in any other state the call is an error and
\* changes nothing.
LockDeadline ==
    /\ deadlines > 0
    /\ \/ /\ lockState = "WaitingForSurfaces"
          /\ RequestRedraw(connected)
          /\ ContinueToLocking(connected)
       \/ /\ lockState /= "WaitingForSurfaces"
          /\ QuietHandler
          /\ deadlines' = deadlines - 1
          /\ UNCHANGED <<requestVars, retries>>
    /\ UNCHANGED <<lockRender, surfaces, alive, shown>>

\* Mutant: the retry timer fires once.
LockRetryOnce(o) ==
    /\ o \in retries
    /\ retries' = retries \ {o}
    /\ IF lockState = "Locking" /\ o \in connected \ lockRender
       THEN RequestRedraw({o})
       ELSE QuietHandler
    /\ UNCHANGED <<requestVars, deadlines, lockRender, surfaces, alive, shown>>

\* The timer of ensure_lock_redraw() asks again until the output is locked.
LockRetry(o) ==
    /\ o \in retries
    /\ IF lockState = "Locking" /\ o \in connected \ lockRender
       THEN RequestRedraw({o}) /\ UNCHANGED retries
       ELSE QuietHandler /\ retries' = retries \ {o}
    /\ UNCHANGED <<requestVars, deadlines, lockRender, surfaces, alive, shown>>

-----------------------------------------------------------------------------
(* The redraw loop's own actions and their effect on the lock.             *)

\* Clearing a CRTC detaches its framebuffer.
Blank(S) == [o \in Outputs |-> IF o \in S THEN "blank" ELSE shown[o]]

OutputAdded(o, moved) ==
    /\ ConnectorConnected(o, moved)
    /\ lockRender' = IF IsLocked THEN lockRender \cup {o} ELSE lockRender
    /\ UNCHANGED <<requestVars, deadlines, surfaces, retries, alive, shown>>

\* Fewer outputs to wait for may be what the lock was waiting for.
OutputRemoved(o, moved) ==
    /\ ConnectorDisconnected(o, moved)
    /\ lockRender' = lockRender \ {o}
    /\ surfaces' = [surfaces EXCEPT ![o] = "none"]
    /\ shown' = Blank({o})
    /\ \/ /\ SurfacesReady(connected', surfaces)
          /\ moved = connected'
          /\ ContinueToLocking(connected')
       \/ /\ ~SurfacesReady(connected', surfaces)
          /\ ConfirmIfCovered(connected', lockRender)
          /\ retries' = retries \ {o}
          /\ UNCHANGED deadlines
    /\ UNCHANGED alive

PowerOutput(o, on) ==
    /\ SetOutputPower(o, on)
    /\ shown' = IF on THEN shown ELSE Blank({o})
    /\ UNCHANGED <<requestVars, deadlines, lockRender, surfaces, retries, alive>>

MonitorsOff ==
    /\ DeactivateMonitors
    /\ shown' = Blank(Outputs)
    /\ UNCHANGED <<requestVars, deadlines, lockRender, surfaces, retries, alive>>

\* While another VT is in front, it owns the display.
SessionPaused ==
    /\ PauseSession
    /\ shown' = Blank(Outputs)
    /\ UNCHANGED <<requestVars, deadlines, lockRender, surfaces, retries, alive>>

\* The rest does not concern the lock.
RedrawLoopStep ==
    /\ \/ BeginRefresh \/ EndRefresh
       \/ ActivateMonitors \/ ActivateSession \/ ReloadConfig
       \/ \E o \in Outputs :
            \/ RequestRedraw({o})
            \/ VBlank(o) \/ StrayVBlank(o)
            \/ ThrottleTimer(o) \/ StaleThrottleTimer(o)
            \/ EstimatedVBlankTimer(o)
    /\ UNCHANGED lockVars

LockNext ==
    \/ RedrawLoopStep
    \/ MonitorsOff \/ SessionPaused
    \/ LockDeadline
    \/ \E l \in Lockers : Lock(l) \/ Unlock(l) \/ LockerDies(l)
    \/ \E o \in Outputs :
        \/ LockRedraw(o)
        \/ NewLockSurface(o) \/ CommitLockSurface(o)
        \/ LockRetry(o)
        \/ \E on \in BOOLEAN : PowerOutput(o, on)
        \/ \E moved \in SUBSET connected :
            OutputAdded(o, moved) \/ OutputRemoved(o, moved)

LockSpec == LockInit /\ [][LockNext]_vars

\* Besides the fairness of the redraw loop: timers expire, and rendering does
\* not fail forever.
LockFairness ==
    /\ WF_vars(BeginRefresh /\ UNCHANGED lockVars)
    /\ WF_vars(EndRefresh /\ UNCHANGED lockVars)
    /\ SF_vars(LockDeadline)
    /\ \A o \in Outputs :
        /\ WF_vars(LockRedraw(o))
        /\ SF_vars(RedrawFrame(o) \/ RedrawEmpty(o))
        /\ SF_vars(VBlank(o) /\ UNCHANGED lockVars)
        /\ SF_vars(ThrottleTimer(o) /\ UNCHANGED lockVars)
        /\ SF_vars(EstimatedVBlankTimer(o) /\ UNCHANGED lockVars)
        /\ SF_vars(LockRetry(o))

FairLockSpec == LockSpec /\ LockFairness

-----------------------------------------------------------------------------
\* The variables of the lock have the types of the fields they stand for.
LockTypeOK ==
    /\ TypeOK
    /\ lockState \in {"Unlocked", "WaitingForSurfaces", "Locking", "Locked"}
    /\ locker \in Lockers \cup {NoLocker}
    /\ deadlines \in Nat
    /\ lockRender \subseteq Outputs
    /\ surfaces \in [Outputs -> {"none", "created", "mapped"}]
    /\ retries \subseteq Outputs
    /\ alive \subseteq Lockers
    /\ answer \in [Lockers -> {"idle", "waiting", "locked", "finished",
                               "unlocked"}]
    /\ shown \in [Outputs -> {"blank", "lock", "session"}]

\* A client is told `locked` only when no output displays the session, and from
\* then on none does until that client unlocks: through hotplug, power and DPMS
\* changes, VT switches, failed renders and the death of the client.
LockedIsCovered ==
    lockState = "Locked" => \A o \in connected : shown[o] /= "session"

\* The deadline timer runs exactly while surfaces are awaited: a deadline of an
\* earlier request never cuts the wait of a later one short, and no request
\* waits for surfaces without one.
DeadlineGuardsWait ==
    deadlines = IF lockState = "WaitingForSurfaces" THEN 1 ELSE 0

\* Each client's view agrees with the compositor's: the client that waits is the
\* one whose request is in progress, and a live client that was told `locked`
\* holds the lock.
AnswersAgree ==
    \A l \in Lockers :
        /\ answer[l] = "waiting" <=>
             lockState \in {"WaitingForSurfaces", "Locking"} /\ locker = l
        /\ answer[l] = "locked" /\ l \in alive =>
             lockState = "Locked" /\ locker = l

\* A step never unlocks the session except on behalf of the client that holds
\* the lock; the death of that client leaves it locked.
OnlyHolderUnlocks ==
    [][lockState = "Locked" /\ lockState' /= "Locked" =>
          locker \in alive /\ answer[locker] = "locked"
          /\ answer'[locker] = "unlocked"]_vars

\* A lock request is always brought to an end, provided that the user at some
\* point stays on this VT: render failures, switches of VT before that and
\* outputs coming and going never leave the client without an answer.
LockCompletes ==
    <>[]drmActive =>
        (lockState \in {"WaitingForSurfaces", "Locking"} ~>
            lockState \in {"Locked", "Unlocked"})
=============================================================================
