------------------------- MODULE SessionLockProofs -------------------------
(***************************************************************************)
(* Invariance and refinement proofs for SessionLock, for every set of      *)
(* outputs and of lock objects.                                            *)
(***************************************************************************)
EXTENDS SessionLock, RedrawLoopProofs

\* The lock adds nothing to the redraw loop: each of its steps is a step of
\* RedrawLoop or leaves the redraw loop unchanged.
LEMMA LockStepRefines == [LockNext]_vars => [Next]_redrawVars
  <1> SUFFICES ASSUME [LockNext]_vars PROVE [Next]_redrawVars
    OBVIOUS
  <1>1. CASE RedrawLoopStep
    <2>1. ASSUME NEW o \in Outputs, RequestRedraw({o}) PROVE Next
      BY <2>1 DEF RequestRedraw, Next
    <2> QED BY <1>1, <2>1 DEF RedrawLoopStep, Next
  <1>2. CASE MonitorsOff \/ SessionPaused
    BY <1>2 DEF MonitorsOff, SessionPaused, Next
  <1>3. ASSUME NEW S \in SUBSET connected, RequestRedraw(S) PROVE Next
    BY <1>3 DEF Next
  <1>4. CASE LockDeadline
    BY <1>3, <1>4 DEF LockDeadline, QuietHandler
  <1>5. ASSUME NEW l \in Lockers, Lock(l) \/ Unlock(l) \/ LockerDies(l)
        PROVE  [Next]_redrawVars
    BY <1>3, <1>5 DEF Lock, Unlock, LockerDies, QuietHandler, Next
  <1>6. ASSUME NEW o \in Outputs, LockRedraw(o) PROVE Next
    BY <1>6 DEF LockRedraw, RedrawFrame, RedrawEmpty, RedrawError, RedrawNothing,
       Redraw, Next
  <1>7. ASSUME NEW o \in Outputs, NewLockSurface(o) \/ CommitLockSurface(o)
        PROVE  [Next]_redrawVars
    BY <1>3, <1>7 DEF NewLockSurface, CommitLockSurface, QuietHandler
  <1>8. ASSUME NEW o \in Outputs, LockRetry(o) PROVE [Next]_redrawVars
    BY <1>3, <1>8 DEF LockRetry, QuietHandler
  <1>9. ASSUME NEW o \in Outputs, NEW on \in BOOLEAN, PowerOutput(o, on)
        PROVE  Next
    BY <1>9 DEF PowerOutput, Next
  <1>10. ASSUME NEW o \in Outputs, NEW moved \in SUBSET connected,
                OutputAdded(o, moved) \/ OutputRemoved(o, moved)
         PROVE  Next
    BY <1>10 DEF OutputAdded, OutputRemoved, Next
  <1>11. CASE UNCHANGED vars
    BY <1>11 DEF vars
  <1> QED BY <1>1, <1>2, <1>4, <1>5, <1>6, <1>7, <1>8, <1>9, <1>10, <1>11
          DEF LockNext

\* The composition implements the redraw loop.
THEOREM LockImplementsRedrawLoop == LockSpec => Spec
  <1>1. LockInit => Init
    BY DEF LockInit
  <1> QED BY <1>1, LockStepRefines, PTL DEF LockSpec, Spec

-----------------------------------------------------------------------------
\* What the outputs display, and what the lock believes they display.
Covering ==
    /\ \A o \in Outputs : shown[o] = "session" => o \notin lockRender
    /\ lockState = "Locked" => connected \subseteq lockRender
    /\ \A o \in Outputs : ~Active(o) \/ o \notin connected => shown[o] = "blank"

\* Who holds or awaits the lock.
Holding ==
    /\ lockState /= "Unlocked" => locker \in Lockers
    /\ lockState = "Locked" => answer[locker] = "locked"
    /\ AnswersAgree

LockInv ==
    /\ Backed
    /\ LockTypeOK
    /\ Covering
    /\ DeadlineGuardsWait
    /\ Holding

LEMMA InitLockInv == LockInit => LockInv
  <1> SUFFICES ASSUME LockInit PROVE LockInv
    OBVIOUS
  <1>1. Backed
    BY InitBacked DEF LockInit
  <1>2. LockTypeOK
    BY <1>1 DEF LockInit, LockTypeOK, Backed
  <1>3. Covering /\ DeadlineGuardsWait /\ Holding
    BY LockConstants DEF LockInit, Covering, DeadlineGuardsWait, Holding,
       AnswersAgree
  <1> QED BY <1>1, <1>2, <1>3 DEF LockInv

-----------------------------------------------------------------------------
\* What the invariant of the lock needs to know of the redraw loop: which
\* outputs there are and which of them can display something.
Stage == <<connected, poweredOff, monitorsActive>>

\* The redraws of one output leave the stage alone.
LEMMA RedrawKeepsStage ==
  ASSUME NEW o \in Outputs, RedrawStarts(o)
  PROVE  UNCHANGED Stage /\ o \in connected
  BY DEF RedrawStarts, switches, Stage

\* queue_redraw() leaves the stage alone.
LEMMA RequestKeepsStage ==
  ASSUME NEW S, RequestRedraw(S)
  PROVE  UNCHANGED Stage
  BY DEF RequestRedraw, switches, Stage

LEMMA QuietKeepsStage == QuietHandler => UNCHANGED Stage
  BY DEF QuietHandler, redrawVars, Stage

\* Sending the confirmation preserves the invariant once all is covered.
LEMMA ConfirmHolds ==
  ASSUME LockInv, lockState = "Locking", Confirm(locker), UNCHANGED alive
  PROVE  /\ Holding'
         /\ locker' \in Lockers
         /\ answer' \in [Lockers -> {"idle", "waiting", "locked", "finished",
                                     "unlocked"}]
  BY DEF LockInv, LockTypeOK, Holding, AnswersAgree, Confirm

LEMMA RedrawLockInv ==
  ASSUME LockInv, Backed', NEW o \in Outputs, LockRedraw(o)
  PROVE  LockInv'
  <1>1. UNCHANGED Stage /\ o \in connected
    BY RedrawKeepsStage DEF LockRedraw, RedrawFrame, RedrawEmpty, RedrawError,
       RedrawNothing, RedrawSubmitted, RedrawTimed, RedrawSkipped
  <1>2. UNCHANGED <<deadlines, surfaces, retries, alive>>
    BY DEF LockRedraw, RedrawFrame, RedrawEmpty, RedrawError, RedrawNothing
  <1>3. /\ lockRender' \subseteq Outputs
        /\ ConfirmIfCovered(connected, lockRender')
        /\ shown' \in [Outputs -> {"blank", "lock", "session"}]
    BY DEF LockInv, LockTypeOK, LockRedraw, RedrawFrame, RedrawEmpty,
       RedrawError, RedrawNothing, Rendered, NotRendered, Frame
  <1>4. TypeOK'
    BY DEF Backed
  <1>5. CASE lockState = "Locking" /\ connected \subseteq lockRender'
    <2>1. Confirm(locker)
      BY <1>3, <1>5 DEF ConfirmIfCovered
    <2>2. Holding' /\ LockTypeOK'
      BY <1>2, <1>3, <1>4, <1>5, <2>1, ConfirmHolds
         DEF LockInv, LockTypeOK, Confirm
    <2>3. DeadlineGuardsWait'
      BY <1>2, <1>5, <2>1 DEF LockInv, DeadlineGuardsWait, Confirm
    <2>4. Covering'
      BY <1>1, <1>5, <2>1 DEF LockInv, LockTypeOK, Covering, Confirm, LockRedraw,
         RedrawFrame, RedrawEmpty, RedrawError, RedrawNothing, Rendered,
         NotRendered, Frame, IsLocked, Active, Stage, RedrawSubmitted
    <2> QED BY <2>2, <2>3, <2>4 DEF LockInv
  <1>6. CASE ~(lockState = "Locking" /\ connected \subseteq lockRender')
    <2>1. UNCHANGED requestVars
      BY <1>3, <1>6 DEF ConfirmIfCovered
    <2>2. Holding' /\ LockTypeOK' /\ DeadlineGuardsWait'
      BY <1>2, <1>3, <1>4, <2>1 DEF LockInv, LockTypeOK, Holding, AnswersAgree,
         DeadlineGuardsWait, requestVars
    <2>3. Covering'
      BY <1>1, <2>1 DEF LockInv, LockTypeOK, Covering, requestVars, LockRedraw,
         RedrawFrame, RedrawEmpty, RedrawError, RedrawNothing, Rendered,
         NotRendered, Frame, IsLocked, Active, Stage, RedrawSubmitted
    <2> QED BY <2>2, <2>3 DEF LockInv
  <1> QED BY <1>5, <1>6

\* The redraw loop's steps that do not concern the lock only ever turn outputs
\* on.
LEMMA OtherLockInv ==
  ASSUME LockInv, Backed', RedrawLoopStep
  PROVE  LockInv'
  <1>1. /\ connected' = connected
        /\ poweredOff' \subseteq poweredOff
        /\ monitorsActive => monitorsActive'
    <2>1. CASE BeginRefresh \/ EndRefresh
      BY <2>1 DEF BeginRefresh, EndRefresh, switches
    <2>2. CASE ActivateMonitors \/ ActivateSession \/ ReloadConfig
      BY <2>2 DEF ActivateMonitors, ActivateSession, ReloadConfig
    <2>3. ASSUME NEW o \in Outputs, RequestRedraw({o}) PROVE UNCHANGED Stage
      BY <2>3, RequestKeepsStage
    <2>4. ASSUME NEW o \in Outputs,
                 \/ VBlank(o) \/ StrayVBlank(o) \/ ThrottleTimer(o)
                 \/ StaleThrottleTimer(o) \/ EstimatedVBlankTimer(o)
          PROVE  UNCHANGED Stage
      BY <2>4 DEF VBlank, StrayVBlank, ThrottleTimer, StaleThrottleTimer,
         EstimatedVBlankTimer, switches, Stage
    <2> QED BY <2>1, <2>2, <2>3, <2>4 DEF RedrawLoopStep, Stage
  <1>2. UNCHANGED lockVars
    BY DEF RedrawLoopStep
  <1>3. LockTypeOK' /\ DeadlineGuardsWait' /\ Holding'
    BY <1>2 DEF LockInv, Backed, LockTypeOK, DeadlineGuardsWait, Holding,
       AnswersAgree, lockVars
  <1>4. Covering'
    BY <1>1, <1>2 DEF LockInv, Covering, lockVars, Active
  <1> QED BY <1>3, <1>4 DEF LockInv

LEMMA BlankingLockInv ==
  ASSUME LockInv, Backed',
         \/ MonitorsOff \/ SessionPaused
         \/ \E o \in Outputs, on \in BOOLEAN : PowerOutput(o, on)
  PROVE  LockInv'
  <1>1. UNCHANGED <<requestVars, deadlines, lockRender, surfaces, retries, alive>>
    BY DEF MonitorsOff, SessionPaused, PowerOutput
  <1>2. shown' \in [Outputs -> {"blank", "lock", "session"}]
    BY DEF LockInv, LockTypeOK, MonitorsOff, SessionPaused, PowerOutput, Blank
  <1>3. LockTypeOK' /\ DeadlineGuardsWait' /\ Holding'
    BY <1>1, <1>2 DEF LockInv, Backed, LockTypeOK, DeadlineGuardsWait, Holding,
       AnswersAgree, requestVars
  <1>4. Covering'
    <2>1. CASE MonitorsOff
      BY <1>1, <2>1 DEF LockInv, LockTypeOK, Covering, requestVars, MonitorsOff,
         Blank, DeactivateMonitors
    <2>2. CASE SessionPaused
      BY <1>1, <2>2 DEF LockInv, LockTypeOK, Covering, requestVars, Blank,
         SessionPaused, PauseSession
    <2>3. ASSUME NEW o \in Outputs, NEW on \in BOOLEAN, PowerOutput(o, on)
          PROVE  Covering'
      BY <1>1, <2>3 DEF LockInv, LockTypeOK, Covering, requestVars, Blank,
         PowerOutput, SetOutputPower, Active
    <2> QED BY <2>1, <2>2, <2>3
  <1> QED BY <1>3, <1>4 DEF LockInv

LEMMA ClientLockInv ==
  ASSUME LockInv, Backed', NEW l \in Lockers, Lock(l) \/ LockerDies(l)
  PROVE  LockInv'
  <1>1. UNCHANGED Stage /\ UNCHANGED <<lockRender, shown, retries>>
    BY QuietKeepsStage DEF Lock, LockerDies
  <1> USE DEF LockInv, LockTypeOK
  <1>2. CASE LockerDies(l)
    <2>1. LockTypeOK' /\ DeadlineGuardsWait' /\ Covering'
      BY <1>1, <1>2 DEF LockerDies, requestVars, DeadlineGuardsWait, Covering,
         Active, Stage, Backed
    <2>2. Holding'
      BY <1>2 DEF LockerDies, requestVars, Holding, AnswersAgree
    <2> QED BY <2>1, <2>2
  <1>3. CASE Lock(l)
    <2>1. LockTypeOK'
      <3>1. TypeOK' /\ LockTypeOK
        BY DEF Backed
      <3>2. UNCHANGED <<lockRender, surfaces, retries, alive, shown>>
        BY <1>3 DEF Lock
      <3>3. /\ lockState' \in {"Unlocked", "WaitingForSurfaces", "Locking", "Locked"}
            /\ locker' \in Lockers \cup {NoLocker}
            /\ deadlines' \in Nat
            /\ answer' \in [Lockers -> {"idle", "waiting", "locked", "finished",
                                        "unlocked"}]
        BY <1>3 DEF Lock, Confirm
      <3> HIDE DEF LockInv
      <3> QED BY <3>1, <3>2, <3>3
    <2>2. DeadlineGuardsWait'
      BY <1>3 DEF Lock, Confirm, DeadlineGuardsWait
    <2>3. Covering'
      BY <1>1, <1>3 DEF Lock, Confirm, Covering, Active, Stage
    <2>4. Holding'
      BY <1>3, LockConstants DEF Lock, Confirm, Holding, AnswersAgree
    <2> QED BY <2>1, <2>2, <2>3, <2>4
  <1> QED BY <1>2, <1>3

LEMMA UnlockLockInv ==
  ASSUME LockInv, Backed', NEW l \in Lockers, Unlock(l)
  PROVE  LockInv'
  <1> USE DEF LockInv, LockTypeOK
  <1>1. /\ connected' = connected
        /\ poweredOff' = poweredOff
        /\ monitorsActive => monitorsActive'
    BY RequestKeepsStage DEF Unlock, ActivateMonitors, Stage
  <1>2. lockState = "Locked" /\ locker = l
    BY DEF Unlock, Holding, AnswersAgree
  <1>3. LockTypeOK'
    BY DEF Unlock, Backed, DeadlineGuardsWait
  <1>4. DeadlineGuardsWait' /\ Covering'
    BY <1>1, <1>2 DEF Unlock, DeadlineGuardsWait, Covering, Active
  <1>5. Holding'
    BY <1>2 DEF Unlock, Holding, AnswersAgree
  <1> QED BY <1>3, <1>4, <1>5

\* Going on to lock keeps the invariant, whichever outputs remain.
LEMMA ContinueHolds ==
  ASSUME LockInv, lockState = "WaitingForSurfaces", UNCHANGED alive,
         NEW outs \in SUBSET Outputs, ContinueToLocking(outs)
  PROVE  /\ Holding'
         /\ retries' \subseteq Outputs
         /\ deadlines' = deadlines - 1
         /\ lockState' \in {"Locking", "Locked"}
         /\ lockState' = "Locked" => outs = {}
         /\ locker' \in Lockers
         /\ answer' \in [Lockers -> {"idle", "waiting", "locked", "finished",
                                     "unlocked"}]
  <1> USE DEF LockInv, LockTypeOK
  <1>1. CASE outs = {}
    BY <1>1 DEF ContinueToLocking, Confirm, Holding, AnswersAgree
  <1>2. CASE outs /= {}
    BY <1>2 DEF ContinueToLocking, Holding, AnswersAgree
  <1> QED BY <1>1, <1>2

LEMMA SurfaceLockInv ==
  ASSUME LockInv, Backed', NEW o \in Outputs,
         NewLockSurface(o) \/ CommitLockSurface(o)
  PROVE  LockInv'
  <1>1. UNCHANGED Stage /\ UNCHANGED <<lockRender, shown, alive>>
    BY QuietKeepsStage, RequestKeepsStage DEF NewLockSurface, CommitLockSurface
  <1>2. surfaces' \in [Outputs -> {"none", "created", "mapped"}]
    BY DEF LockInv, LockTypeOK, NewLockSurface, CommitLockSurface
  <1>3. CASE UNCHANGED <<requestVars, deadlines, retries>>
    BY <1>1, <1>2, <1>3 DEF LockInv, Backed, LockTypeOK, DeadlineGuardsWait,
       Holding, AnswersAgree, Covering, Active, Stage, requestVars
  <1>4. CASE /\ SurfacesReady(connected, surfaces')
             /\ ContinueToLocking(connected)
    <2>1. lockState = "WaitingForSurfaces" /\ connected \in SUBSET Outputs
      BY <1>4 DEF SurfacesReady, LockInv, Backed, TypeOK
    <2>2. /\ Holding'
          /\ retries' \subseteq Outputs
          /\ deadlines' = deadlines - 1
          /\ lockState' \in {"Locking", "Locked"}
          /\ lockState' = "Locked" => connected = {}
          /\ locker' \in Lockers
          /\ answer' \in [Lockers -> {"idle", "waiting", "locked", "finished",
                                      "unlocked"}]
      BY <1>1, <1>4, <2>1, ContinueHolds
    <2>3. LockTypeOK' /\ DeadlineGuardsWait'
      BY <1>1, <1>2, <1>4, <2>1, <2>2 DEF LockInv, Backed, LockTypeOK,
         DeadlineGuardsWait
    <2>4. Covering'
      BY <1>1, <2>2 DEF LockInv, Covering, Active, Stage
    <2> QED BY <2>2, <2>3, <2>4 DEF LockInv
  <1> QED BY <1>3, <1>4 DEF NewLockSurface, CommitLockSurface

LEMMA TimerLockInv ==
  ASSUME LockInv, Backed', LockDeadline \/ \E o \in Outputs : LockRetry(o)
  PROVE  LockInv'
  <1>1. UNCHANGED Stage /\ UNCHANGED <<lockRender, shown, alive, surfaces>>
    BY QuietKeepsStage, RequestKeepsStage DEF LockDeadline, LockRetry
  <1>2. CASE LockDeadline
    <2>1. /\ lockState = "WaitingForSurfaces"
          /\ ContinueToLocking(connected)
          /\ connected \in SUBSET Outputs
      BY <1>2 DEF LockDeadline, LockInv, Backed, TypeOK, DeadlineGuardsWait
    <2>2. /\ Holding'
          /\ retries' \subseteq Outputs
          /\ deadlines' = deadlines - 1
          /\ lockState' \in {"Locking", "Locked"}
          /\ lockState' = "Locked" => connected = {}
          /\ locker' \in Lockers
          /\ answer' \in [Lockers -> {"idle", "waiting", "locked", "finished",
                                      "unlocked"}]
      BY <1>1, <2>1, ContinueHolds
    <2>3. LockTypeOK' /\ DeadlineGuardsWait'
      <3>1. TypeOK' /\ LockTypeOK
        BY DEF LockInv, Backed
      <3>2. deadlines' = 0 /\ DeadlineGuardsWait'
        BY <2>1, <2>2 DEF LockInv, DeadlineGuardsWait
      <3> QED BY <1>1, <2>2, <3>1, <3>2 DEF LockTypeOK
    <2>4. Covering'
      BY <1>1, <2>2 DEF LockInv, Covering, Active, Stage
    <2> QED BY <2>2, <2>3, <2>4 DEF LockInv
  <1>3. CASE \E o \in Outputs : LockRetry(o)
    <2>1. /\ lockState' = lockState /\ locker' = locker /\ answer' = answer
          /\ deadlines' = deadlines /\ retries' \subseteq retries
      BY <1>3 DEF LockRetry, requestVars
    <2>2. LockTypeOK'
      BY <1>1, <2>1 DEF LockInv, Backed, LockTypeOK
    <2>3. DeadlineGuardsWait' /\ Holding'
      BY <1>1, <2>1, Zenon DEF LockInv, DeadlineGuardsWait, Holding, AnswersAgree
    <2>4. Covering'
      BY <1>1, <2>1, Zenon DEF LockInv, Covering, Active, Stage
    <2> QED BY <2>2, <2>3, <2>4, Zenon DEF LockInv
  <1> QED BY <1>2, <1>3

LEMMA HotplugLockInv ==
  ASSUME LockInv, Backed', NEW o \in Outputs, NEW moved,
         OutputAdded(o, moved) \/ OutputRemoved(o, moved)
  PROVE  LockInv'
  <1> USE DEF LockInv, LockTypeOK
  <1>1. CASE OutputAdded(o, moved)
    <2>1. /\ connected' = connected \cup {o}
          /\ UNCHANGED <<poweredOff, monitorsActive>>
      BY <1>1 DEF OutputAdded, ConnectorConnected, switches
    <2>2. LockTypeOK' /\ DeadlineGuardsWait' /\ Holding'
      BY <1>1 DEF OutputAdded, Backed, DeadlineGuardsWait, Holding, AnswersAgree,
         requestVars
    <2>3. o \notin connected
      BY <1>1 DEF OutputAdded, ConnectorConnected
    <2>4. Covering'
      BY <1>1, <2>1, <2>3 DEF OutputAdded, Covering, Active, IsLocked, requestVars
    <2> QED BY <2>2, <2>4
  <1>2. CASE OutputRemoved(o, moved)
    <2>1. /\ connected' = connected \ {o} /\ connected' \in SUBSET Outputs
          /\ UNCHANGED <<poweredOff, monitorsActive, alive>>
      BY <1>2 DEF OutputRemoved, ConnectorDisconnected, switches, Backed, TypeOK
    <2>2. /\ shown' = [shown EXCEPT ![o] = "blank"]
          /\ lockRender' = lockRender \ {o}
          /\ surfaces' \in [Outputs -> {"none", "created", "mapped"}]
      BY <1>2 DEF OutputRemoved, Blank
    <2>3. CASE /\ SurfacesReady(connected', surfaces)
               /\ ContinueToLocking(connected')
      <3>1. lockState = "WaitingForSurfaces"
        BY <2>3 DEF SurfacesReady
      <3>2. /\ Holding'
            /\ retries' \subseteq Outputs
            /\ deadlines' = deadlines - 1
            /\ lockState' \in {"Locking", "Locked"}
            /\ lockState' = "Locked" => connected' = {}
            /\ locker' \in Lockers
            /\ answer' \in [Lockers -> {"idle", "waiting", "locked", "finished",
                                        "unlocked"}]
        BY <2>1, <2>3, <3>1, ContinueHolds
      <3>3. deadlines' = 0 /\ DeadlineGuardsWait'
        BY <3>1, <3>2 DEF DeadlineGuardsWait
      <3>4. LockTypeOK'
        <4>1. TypeOK' /\ LockTypeOK
          BY DEF Backed
        <4> HIDE DEF LockInv
        <4> QED BY <2>1, <2>2, <3>2, <3>3, <4>1
      <3>5. Covering'
        BY <2>1, <2>2, <3>2 DEF Covering, Active
      <3> QED BY <3>2, <3>3, <3>4, <3>5
    <2>4. CASE /\ ConfirmIfCovered(connected', lockRender)
               /\ retries' = retries \ {o}
               /\ UNCHANGED deadlines
      <3>1. CASE lockState = "Locking" /\ connected' \subseteq lockRender
        <4>1. Confirm(locker)
          BY <2>4, <3>1 DEF ConfirmIfCovered
        <4>2. Holding' /\ LockTypeOK'
          BY <2>1, <2>2, <2>4, <3>1, <4>1, ConfirmHolds DEF Confirm, Backed
        <4>3. DeadlineGuardsWait' /\ Covering'
          BY <2>1, <2>2, <2>4, <3>1, <4>1 DEF Confirm, DeadlineGuardsWait,
             Covering, Active
        <4> QED BY <4>2, <4>3
      <3>2. CASE ~(lockState = "Locking" /\ connected' \subseteq lockRender)
        <4>1. UNCHANGED requestVars
          BY <2>4, <3>2 DEF ConfirmIfCovered
        <4>2. Holding' /\ LockTypeOK' /\ DeadlineGuardsWait'
          BY <2>1, <2>2, <2>4, <4>1 DEF Backed, Holding, AnswersAgree,
             DeadlineGuardsWait, requestVars
        <4>3. Covering'
          BY <2>1, <2>2, <4>1 DEF Covering, Active, requestVars
        <4> QED BY <4>2, <4>3
      <3> QED BY <3>1, <3>2
    <2> QED BY <1>2, <2>3, <2>4 DEF OutputRemoved
  <1> QED BY <1>1, <1>2

LEMMA NextLockInv == LockInv /\ [LockNext]_vars => LockInv'
  <1> SUFFICES ASSUME LockInv, [LockNext]_vars PROVE LockInv'
    OBVIOUS
  <1>1. Backed'
    BY LockStepRefines, NextBacked DEF LockInv
  <1>2. CASE UNCHANGED vars
    BY <1>1, <1>2 DEF vars, lockVars, redrawVars, LockInv, LockTypeOK, Covering,
       Active, DeadlineGuardsWait, Holding, AnswersAgree, Backed
  <1> QED BY <1>1, <1>2, OtherLockInv, BlankingLockInv, ClientLockInv,
             UnlockLockInv, SurfaceLockInv, TimerLockInv, HotplugLockInv,
             RedrawLockInv DEF LockNext

\* The invariant holds of every behaviour.
LEMMA LockInvAlways == LockSpec => []LockInv
  BY InitLockInv, NextLockInv, PTL DEF LockSpec

\* However many outputs and clients there are, a client is told `locked` only
\* over outputs that do not show the session, and none does until it is unlocked.
THEOREM LockCovers == LockSpec => []LockedIsCovered
  <1>1. LockInv => LockedIsCovered
    BY DEF LockInv, Covering, Holding, LockedIsCovered, Backed, TypeOK
  <1> QED BY <1>1, LockInvAlways, PTL

\* The deadline of a lock that waits for surfaces is there exactly as long as the
\* wait: lock() sets it, and what ends the wait cancels it.
THEOREM DeadlineIsKept == LockSpec => []DeadlineGuardsWait
  <1>1. LockInv => DeadlineGuardsWait
    BY DEF LockInv
  <1> QED BY <1>1, LockInvAlways, PTL

\* Clients and compositor agree on who holds the lock.
THEOREM ClientsKnowWhoHolds == LockSpec => []AnswersAgree
  <1>1. LockInv => AnswersAgree
    BY DEF LockInv, Holding
  <1> QED BY <1>1, LockInvAlways, PTL

\* Type correctness of the lock's state.
THEOREM LockTypesCorrect == LockSpec => []LockTypeOK
  <1>1. LockInv => LockTypeOK
    BY DEF LockInv
  <1> QED BY <1>1, LockInvAlways, PTL

\* Only the client that holds the lock unlocks the session.
THEOREM UnlockedByHolder == LockSpec => OnlyHolderUnlocks
  <1>1. LockInv /\ [LockNext]_vars =>
          [lockState = "Locked" /\ lockState' /= "Locked" =>
             locker \in alive /\ answer[locker] = "locked"
             /\ answer'[locker] = "unlocked"]_vars
    <2> SUFFICES ASSUME LockInv, LockNext, lockState = "Locked",
                        lockState' /= "Locked"
                 PROVE  locker \in alive /\ answer[locker] = "locked"
                        /\ answer'[locker] = "unlocked"
      OBVIOUS
    <2>1. PICK l \in Lockers : Unlock(l)
      BY DEF LockNext, RedrawLoopStep, MonitorsOff, SessionPaused, LockDeadline,
         Lock, LockerDies, LockRedraw, RedrawFrame, RedrawEmpty, RedrawError,
         RedrawNothing, Rendered, NotRendered, ConfirmIfCovered, NewLockSurface,
         CommitLockSurface, SurfacesReady, LockRetry, PowerOutput, OutputAdded,
         OutputRemoved, requestVars, lockVars, Confirm
    <2> QED BY <2>1 DEF LockInv, Holding, AnswersAgree, Unlock
  <1> QED BY <1>1, InitLockInv, NextLockInv, PTL DEF LockSpec, OnlyHolderUnlocks

\* With the lock, too, the timers of the redraw loop find the state they expect,
\* since what the lock does to an output is a step of the loop or none.
THEOREM TimerFindsItsStateUnderLock ==
  ASSUME Calm
  PROVE  LockSpec => []TimerNeverUnexpected
  BY LockImplementsRedrawLoop, TimerFindsItsState, PTL

\* And no redraw request is lost, those that the lock makes (swayward/lock.rs)
\* included.
THEOREM RequestsAreKeptUnderLock ==
  ASSUME Calm
  PROVE  LockSpec => []RequestNotLost
  BY LockImplementsRedrawLoop, RequestsAreKept, PTL
=============================================================================
