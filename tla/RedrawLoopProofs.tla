-------------------------- MODULE RedrawLoopProofs --------------------------
(***************************************************************************)
(* Invariance proofs for RedrawLoop, for every set of outputs.             *)
(***************************************************************************)
EXTENDS RedrawLoop, TLAPS

\* What every value of the constants guarantees.
Backed ==
    /\ TypeOK
    /\ AwaitedEventComes
    /\ \A o \in Outputs \ connected : redraw[o] = "Idle"

\* Every event source that the code expects and no other: no stray VBlanks,
\* and no throttle timer that can survive its output.
Calm == MaxStrayVBlanks = 0 /\ ~(Hotplug /\ EarlyVBlanks)

\* The inductive invariant behind the absence of unexpected events: each state
\* has exactly the events pending that it waits for.
Expected ==
    /\ ~aborted
    /\ strays = 0
    /\ \A o \in Outputs :
        /\ staleThrottle[o] = 0
        /\ o \in throttled => ~Hotplug /\ redraw[o] \in VBlankStates
        /\ o \in flips => redraw[o] \in VBlankStates /\ o \notin throttled
        /\ estTimers[o] = IF redraw[o] \in EstStates THEN 1 ELSE 0

ExpectedInv == Backed /\ Expected /\ RequestNotLost

-----------------------------------------------------------------------------
\* queue_redraw() keeps the kind of event an output waits for.
LEMMA QueueRedrawKeepsWait ==
  ASSUME NEW s \in RedrawStates
  PROVE  /\ QueueRedraw(s) \in RedrawStates
         /\ QueueRedraw(s) \in RequestStates
         /\ QueueRedraw(s) \in VBlankStates <=> s \in VBlankStates
         /\ QueueRedraw(s) \in EstStates <=> s \in EstStates
  BY DEF QueueRedraw, RedrawStates, VBlankStates, EstStates, RequestStates,
     QueuedStates

\* Queueing redraws keeps the event that every output waits for.
LEMMA QueueRedrawOnKeepsWait ==
  ASSUME TypeOK, NEW S, S \subseteq Outputs, QueueRedrawOn(S)
  PROVE  /\ redraw' \in [Outputs -> RedrawStates]
         /\ owed' = owed \cup S /\ owed' \subseteq Outputs
         /\ \A o \in Outputs :
              /\ redraw'[o] \in VBlankStates <=> redraw[o] \in VBlankStates
              /\ redraw'[o] \in EstStates <=> redraw[o] \in EstStates
              /\ o \in S => redraw'[o] \in RequestStates
              /\ o \notin S => redraw'[o] = redraw[o]
  <1>1. \A o \in Outputs : redraw[o] \in RedrawStates
    BY DEF TypeOK
  <1>2. owed' = owed \cup S /\ owed' \subseteq Outputs
    BY DEF TypeOK, QueueRedrawOn
  <1>3. redraw' \in [Outputs -> RedrawStates]
    BY <1>1, QueueRedrawKeepsWait DEF QueueRedrawOn
  <1>4. ASSUME NEW o \in Outputs
        PROVE  /\ redraw'[o] \in VBlankStates <=> redraw[o] \in VBlankStates
               /\ redraw'[o] \in EstStates <=> redraw[o] \in EstStates
               /\ o \in S => redraw'[o] \in RequestStates
               /\ o \notin S => redraw'[o] = redraw[o]
    BY <1>1, QueueRedrawKeepsWait DEF QueueRedrawOn
  <1> QED BY <1>2, <1>3, <1>4

-----------------------------------------------------------------------------
LEMMA InitBacked == Init => Backed
  <1> SUFFICES ASSUME Init PROVE Backed
    OBVIOUS
  <1>1. TypeOK
    BY DEF Init, TypeOK, RedrawStates
  <1>2. \A o \in Outputs : redraw[o] \in {"Idle", "Queued"}
    BY DEF Init
  <1>3. AwaitedEventComes
    BY <1>1, <1>2 DEF TypeOK, AwaitedEventComes, VBlankStates, EstStates
  <1>4. \A o \in Outputs \ connected : redraw[o] = "Idle"
    BY DEF Init
  <1> QED BY <1>1, <1>3, <1>4 DEF Backed

LEMMA NextBacked == Backed /\ [Next]_redrawVars => Backed'
  <1> SUFFICES ASSUME Backed, [Next]_redrawVars PROVE Backed'
    OBVIOUS
  <1> USE DEF Backed, TypeOK, AwaitedEventComes
  <1>1. CASE BeginRefresh \/ EndRefresh
    BY <1>1 DEF BeginRefresh, EndRefresh, switches, environment
  <1>2. CASE DeactivateMonitors \/ PauseSession
    BY <1>2 DEF DeactivateMonitors, PauseSession, Handler, switches, environment
  <1>3. CASE ActivateMonitors
    BY <1>3, QueueRedrawOnKeepsWait DEF ActivateMonitors, Handler, environment
  <1>4. CASE ActivateSession
    BY <1>4, QueueRedrawOnKeepsWait DEF ActivateSession, Handler
  <1>5. CASE ReloadConfig
    BY <1>5, QueueRedrawOnKeepsWait DEF ReloadConfig, Handler, environment
  <1>6. ASSUME NEW o \in Outputs, Redraw(o) PROVE Backed'
    <2>1. CASE RedrawSubmitted(o)
      BY <2>1 DEF RedrawSubmitted, RedrawStarts, DropEstimatedTimer, switches,
         RedrawStates, VBlankStates, EstStates, QueuedStates
    <2>2. CASE RedrawTimed(o)
      BY <2>2 DEF RedrawTimed, RedrawStarts, ArmEstimatedTimer, switches,
         RedrawStates, VBlankStates, EstStates, QueuedStates
    <2>3. CASE RedrawSkipped(o)
      BY <2>3 DEF RedrawSkipped, RedrawStarts, StateOnSkipped, switches,
         RedrawStates, VBlankStates, EstStates, QueuedStates
    <2> QED BY <1>6, <2>1, <2>2, <2>3 DEF Redraw
  <1>7. ASSUME NEW o \in Outputs, VBlank(o) PROVE Backed'
    BY <1>7 DEF VBlank, OnVBlank, QueueRedraw, Handler, switches,
       RedrawStates, VBlankStates, EstStates
  <1>8. ASSUME NEW o \in Outputs, StrayVBlank(o) PROVE Backed'
    BY <1>8 DEF StrayVBlank, OnVBlank, QueueRedraw, Handler, switches,
       RedrawStates, VBlankStates, EstStates
  <1>9. ASSUME NEW o \in Outputs, ThrottleTimer(o) PROVE Backed'
    BY <1>9 DEF ThrottleTimer, OnVBlank, QueueRedraw, Handler, switches,
       environment, RedrawStates, VBlankStates, EstStates
  <1>10. ASSUME NEW o \in Outputs, StaleThrottleTimer(o) PROVE Backed'
    BY <1>10 DEF StaleThrottleTimer, OnVBlank, QueueRedraw, Handler, switches,
       environment, RedrawStates, VBlankStates, EstStates
  <1>11. ASSUME NEW o \in Outputs, EstimatedVBlankTimer(o) PROVE Backed'
    <2> USE <1>11 DEF EstimatedVBlankTimer, QueueRedraw, Handler, switches,
                      environment, RedrawStates, VBlankStates, EstStates
    <2>1. CASE redraw[o] = "WaitingForEstimatedVBlankAndQueued"
      BY <2>1
    <2>2. CASE redraw[o] = "WaitingForEstimatedVBlank"
      BY <2>2
    <2>3. CASE redraw[o] \notin EstStates
      <3>1. /\ aborted' = TRUE
            /\ redraw' = [redraw EXCEPT ![o] = "Idle"]
            /\ UNCHANGED owed
        BY <2>3
      <3> QED BY <2>3, <3>1
    <2> QED BY <2>1, <2>2, <2>3
  <1>12. ASSUME NEW S, RequestRedraw(S) PROVE Backed'
    BY <1>12, QueueRedrawOnKeepsWait DEF RequestRedraw, Handler, switches,
       environment
  <1>13. ASSUME NEW o \in Outputs, NEW on \in BOOLEAN, SetOutputPower(o, on)
         PROVE  Backed'
    BY <1>13, QueueRedrawOnKeepsWait DEF SetOutputPower, Handler, environment
  <1>14. ASSUME NEW o \in Outputs, NEW moved, ConnectorConnected(o, moved)
         PROVE  Backed'
    BY <1>14, QueueRedrawOnKeepsWait DEF ConnectorConnected, Handler, switches,
       environment, VBlankStates, EstStates
  <1>15. ASSUME NEW o \in Outputs, NEW moved, ConnectorDisconnected(o, moved)
         PROVE  Backed'
    <2>1. /\ \A p \in Outputs : redraw[p] \in RedrawStates
          /\ redraw' = [p \in Outputs |->
                          IF p = o THEN "Idle"
                          ELSE IF p \in moved THEN QueueRedraw(redraw[p])
                          ELSE redraw[p]]
          /\ connected' = connected \ {o} /\ moved \subseteq connected
      BY <1>15 DEF ConnectorDisconnected, TypeOK
    <2>2. ASSUME NEW p \in Outputs
          PROVE  /\ redraw'[p] \in RedrawStates
                 /\ p = o => redraw'[p] = "Idle"
                 /\ p /= o =>
                      /\ redraw'[p] \in VBlankStates <=> redraw[p] \in VBlankStates
                      /\ redraw'[p] \in EstStates <=> redraw[p] \in EstStates
                      /\ p \notin connected => redraw'[p] = redraw[p]
      BY <2>1, QueueRedrawKeepsWait DEF RedrawStates
    <2>3. redraw' \in [Outputs -> RedrawStates]
      BY <2>1, <2>2
    <2> QED BY <1>15, <2>1, <2>2, <2>3 DEF ConnectorDisconnected, Handler, switches
  <1>16. CASE UNCHANGED redrawVars
    BY <1>16 DEF redrawVars
  <1> QED BY <1>1, <1>2, <1>3, <1>4, <1>5, <1>6, <1>7, <1>8, <1>9, <1>10,
             <1>11, <1>12, <1>13, <1>14, <1>15, <1>16 DEF Next

\* The invariant holds of every behaviour.
LEMMA BackedAlways == Spec => []Backed
  BY InitBacked, NextBacked, PTL DEF Spec

\* For all constants, including stray VBlanks and early ones: no output waits
\* for an event (a VBlank, a timer) that nobody will deliver.
THEOREM NoWaitInVain == Spec => []AwaitedEventComes
  <1>1. Backed => AwaitedEventComes
    BY DEF Backed
  <1> QED BY <1>1, BackedAlways, PTL

\* Type correctness: RedrawState and the frame callbacks of every output.
THEOREM RedrawTypesCorrect == Spec => []TypeOK
  <1>1. Backed => TypeOK
    BY DEF Backed
  <1> QED BY <1>1, BackedAlways, PTL

-----------------------------------------------------------------------------
LEMMA InitExpected == Init => ExpectedInv
  <1> SUFFICES ASSUME Init PROVE ExpectedInv
    OBVIOUS
  <1>1. Backed
    BY InitBacked
  <1>2. \A o \in Outputs : redraw[o] \in {"Idle", "Queued"}
    BY DEF Init
  <1>3. Expected
    BY <1>2 DEF Init, Expected, EstStates
  <1>4. RequestNotLost
    BY DEF Init, RequestNotLost, RequestStates, QueuedStates
  <1> QED BY <1>1, <1>3, <1>4 DEF ExpectedInv

LEMMA NextExpected ==
  ASSUME Calm, ExpectedInv, [Next]_redrawVars
  PROVE  Expected' /\ RequestNotLost'
  <1> USE DEF ExpectedInv, Backed, TypeOK, AwaitedEventComes, Expected,
              RequestNotLost
  <1>1. CASE BeginRefresh \/ EndRefresh
    BY <1>1 DEF BeginRefresh, EndRefresh, switches, environment
  <1>2. CASE DeactivateMonitors \/ PauseSession
    BY <1>2 DEF DeactivateMonitors, PauseSession, Handler, switches, environment
  <1>3. CASE ActivateMonitors
    BY <1>3, QueueRedrawOnKeepsWait DEF ActivateMonitors, Handler, environment
  <1>4. CASE ActivateSession
    BY <1>4, QueueRedrawOnKeepsWait DEF ActivateSession, Handler
  <1>5. CASE ReloadConfig
    BY <1>5, QueueRedrawOnKeepsWait DEF ReloadConfig, Handler, environment
  <1>6. ASSUME NEW o \in Outputs, Redraw(o) PROVE Expected' /\ RequestNotLost'
    <2>1. CASE RedrawSubmitted(o)
      BY <2>1 DEF RedrawSubmitted, RedrawStarts, DropEstimatedTimer, switches,
         RedrawStates, VBlankStates, EstStates, QueuedStates
    <2>2. CASE RedrawTimed(o)
      BY <2>2 DEF RedrawTimed, RedrawStarts, ArmEstimatedTimer, switches,
         RedrawStates, VBlankStates, EstStates, QueuedStates
    <2>3. CASE RedrawSkipped(o)
      BY <2>3 DEF RedrawSkipped, RedrawStarts, StateOnSkipped, switches,
         RedrawStates, VBlankStates, EstStates, QueuedStates
    <2> QED BY <1>6, <2>1, <2>2, <2>3 DEF Redraw
  <1> USE DEF Calm
  <1>7. ASSUME NEW o \in Outputs, VBlank(o) PROVE Expected' /\ RequestNotLost'
    BY <1>7 DEF VBlank, OnVBlank, QueueRedraw, Handler, switches,
       RedrawStates, VBlankStates, EstStates, RequestStates, QueuedStates
  <1>8. ASSUME NEW o \in Outputs, StrayVBlank(o) PROVE FALSE
    BY <1>8 DEF StrayVBlank
  <1>9. ASSUME NEW o \in Outputs, ThrottleTimer(o)
        PROVE  Expected' /\ RequestNotLost'
    BY <1>9 DEF ThrottleTimer, OnVBlank, QueueRedraw, Handler, switches,
       environment, RedrawStates, VBlankStates, EstStates, RequestStates,
       QueuedStates
  <1>10. ASSUME NEW o \in Outputs, StaleThrottleTimer(o) PROVE FALSE
    BY <1>10 DEF StaleThrottleTimer
  <1>11. ASSUME NEW o \in Outputs, EstimatedVBlankTimer(o)
         PROVE  Expected' /\ RequestNotLost'
    <2> USE <1>11 DEF EstimatedVBlankTimer, QueueRedraw, Handler, switches,
                      environment, RedrawStates, VBlankStates, EstStates,
                      RequestStates, QueuedStates
    <2>1. CASE redraw[o] = "WaitingForEstimatedVBlankAndQueued"
      BY <2>1
    <2>2. CASE redraw[o] = "WaitingForEstimatedVBlank"
      BY <2>2
    <2>3. redraw[o] \in EstStates
      OBVIOUS
    <2> QED BY <2>1, <2>2, <2>3
  <1>12. ASSUME NEW S, RequestRedraw(S)
         PROVE  Expected' /\ RequestNotLost'
    BY <1>12, QueueRedrawOnKeepsWait DEF RequestRedraw, Handler, switches,
       environment
  <1>13. ASSUME NEW o \in Outputs, NEW on \in BOOLEAN, SetOutputPower(o, on)
         PROVE  Expected' /\ RequestNotLost'
    <2> DEFINE S == IF on THEN {o} \cap connected ELSE {}
    <2>1. S \subseteq Outputs /\ QueueRedrawOn(S)
      BY <1>13 DEF SetOutputPower
    <2>2. owed' = owed \cup S
      BY <2>1, QueueRedrawOnKeepsWait
    <2>3. \A p \in poweredOff \ poweredOff' : p \in connected => p \in S
      BY <1>13 DEF SetOutputPower
    <2>4. /\ redraw' \in [Outputs -> RedrawStates]
          /\ \A p \in Outputs :
               /\ redraw'[p] \in VBlankStates <=> redraw[p] \in VBlankStates
               /\ redraw'[p] \in EstStates <=> redraw[p] \in EstStates
               /\ p \in S => redraw'[p] \in RequestStates
               /\ p \notin S => redraw'[p] = redraw[p]
      BY <2>1, QueueRedrawOnKeepsWait
    <2> HIDE DEF S
    <2>5. Expected'
      BY <1>13, <2>4 DEF SetOutputPower, Handler, environment
    <2>6. RequestNotLost'
      BY <1>13, <2>2, <2>3, <2>4 DEF SetOutputPower, Handler, environment
    <2> QED BY <2>5, <2>6
  <1>14. ASSUME NEW o \in Outputs, NEW moved, ConnectorConnected(o, moved)
         PROVE  Expected' /\ RequestNotLost'
    <2> DEFINE S == moved \cup {o}
    <2>1. S \subseteq Outputs /\ QueueRedrawOn(S)
      BY <1>14 DEF ConnectorConnected
    <2>2. /\ owed' = owed \cup S
          /\ \A p \in Outputs :
               /\ redraw'[p] \in VBlankStates <=> redraw[p] \in VBlankStates
               /\ redraw'[p] \in EstStates <=> redraw[p] \in EstStates
               /\ p \in S => redraw'[p] \in RequestStates
               /\ p \notin S => redraw'[p] = redraw[p]
      BY <2>1, QueueRedrawOnKeepsWait
    <2>3. o \in S
      OBVIOUS
    <2> HIDE DEF S
    <2>4. Expected'
      BY <1>14, <2>2 DEF ConnectorConnected, Handler, switches, environment
    <2>5. RequestNotLost'
      BY <1>14, <2>2, <2>3 DEF ConnectorConnected, Handler, switches
    <2> QED BY <2>4, <2>5
  <1>15. ASSUME NEW o \in Outputs, NEW moved, ConnectorDisconnected(o, moved)
         PROVE  Expected' /\ RequestNotLost'
    <2>1. \A p \in Outputs \ {o} :
            /\ redraw'[p] \in VBlankStates <=> redraw[p] \in VBlankStates
            /\ redraw'[p] \in EstStates <=> redraw[p] \in EstStates
            /\ p \in moved => redraw'[p] \in RequestStates
            /\ p \notin moved => redraw'[p] = redraw[p]
      BY <1>15, QueueRedrawKeepsWait DEF ConnectorDisconnected
    <2>2. redraw'[o] = "Idle"
      BY <1>15 DEF ConnectorDisconnected
    <2>3. Expected'
      BY <1>15, <2>1, <2>2 DEF ConnectorDisconnected, Handler, EstStates
    <2>4. RequestNotLost'
      BY <1>15, <2>1 DEF ConnectorDisconnected, Handler, switches
    <2> QED BY <2>3, <2>4
  <1>16. CASE UNCHANGED redrawVars
    BY <1>16 DEF redrawVars
  <1> QED BY <1>1, <1>2, <1>3, <1>4, <1>5, <1>6, <1>7, <1>8, <1>9, <1>10,
             <1>11, <1>12, <1>13, <1>14, <1>15, <1>16 DEF Next

\* When the kernel sends a VBlank exactly for each submitted frame, and unless
\* early VBlanks meet hotplug, the stronger invariant holds as well.
LEMMA ExpectedAlways ==
  ASSUME Calm
  PROVE  Spec => []ExpectedInv
  <1>1. ExpectedInv /\ [Next]_redrawVars => ExpectedInv'
    BY NextBacked, NextExpected DEF ExpectedInv
  <1> QED BY <1>1, InitExpected, PTL DEF Spec

\* Under that condition the unreachable!() arms of the estimated VBlank timer are
\* never reached, for any number of outputs.
THEOREM TimerFindsItsState ==
  ASSUME Calm
  PROVE  Spec => []TimerNeverUnexpected
  <1>1. ExpectedInv => TimerNeverUnexpected
    BY DEF ExpectedInv, Backed, TypeOK, Expected, TimerNeverUnexpected
  <1> QED BY <1>1, ExpectedAlways, PTL

\* And no frame is submitted while another one is in flight.
THEOREM FramesDoNotOverlap ==
  ASSUME Calm
  PROVE  Spec => []OneFrameInFlight
  <1>1. ExpectedInv => OneFrameInFlight
    BY DEF ExpectedInv, Backed, TypeOK, Expected, OneFrameInFlight
  <1> QED BY <1>1, ExpectedAlways, PTL

\* And queue_redraw() is never forgotten: until the output is drawn, its state
\* says that it will be.
THEOREM RequestsAreKept ==
  ASSUME Calm
  PROVE  Spec => []RequestNotLost
  <1>1. ExpectedInv => RequestNotLost
    BY DEF ExpectedInv
  <1> QED BY <1>1, ExpectedAlways, PTL
=============================================================================
