------------------------- MODULE ResidentRuntimeProofs -------------------------
(* Proofs about ResidentRuntime: whatever the frames, faults and timings, a   *)
(* latched stop reaches the arms, and no setpoint is sent after it or while    *)
(* nobody watches the arms, as long as the host asks for an anchor only        *)
(* between streams.                                                            *)
EXTENDS ResidentRuntime, TLAPS

\* Every request keeps the safety state one of the states of safety.c.
LEMMA SafetyTyped ==
    ASSUME NEW s \in Safety, NEW age, NEW healthy, NEW matches
    PROVE  /\ Booted \in Safety
           /\ OnHeartbeat(s) \in Safety
           /\ RequestArm(s, healthy, matches) \in Safety
           /\ RequestEnable(s, age) \in Safety
           /\ RequestHold(s) \in Safety
           /\ RequestDisable(s) \in Safety
           /\ ReportFault(s) \in Safety
           /\ ClearLatchedStop(s) \in Safety
           /\ SafetyTick(s, age) \in Safety
BY DEF Safety, Booted, OnHeartbeat, RequestArm, RequestEnable, RequestHold,
       RequestDisable, ReportFault, ClearLatchedStop, SafetyTick

\* Ages stay within what the model tells apart.
LEMMA OlderTyped ==
    ASSUME NEW age \in 0 .. Stale PROVE Older(age) \in 0 .. Stale
BY SafetyAssumption DEF Older, Stale

\* The type invariant in two parts: the flags, and the rest.
Flags ==
    /\ heard \in BOOLEAN /\ stopLatched \in BOOLEAN
    /\ configured \in BOOLEAN /\ rightActive \in BOOLEAN
    /\ primed \in BOOLEAN /\ anchorReady \in BOOLEAN
    /\ clockActive \in BOOLEAN /\ startPending \in BOOLEAN
    /\ stopPending \in BOOLEAN
    /\ feedbackDue \in BOOLEAN /\ settle \in BOOLEAN

Phases ==
    /\ loop \in {"frames", "watchdogs", "tracking", "executor"}
    /\ safety \in Safety
    /\ heartbeatAge \in 0 .. Stale /\ graceAge \in 0 .. Stale
    /\ torque \subseteq Arms
    /\ exec \in {"CLOSED", "PRIMING", "RUNNING", "HOLD", "SUCCEEDED", "ABORTED"}
    /\ tracking \in {"off", "idle", "pending"}
    /\ phase \in {"ready", "busy", "faulted"}
    /\ event \in {"none", "due", "missed"}

\* No step gives a flag another value than TRUE or FALSE.
LEMMA NextFlags ==
    ASSUME TypeOK, [Next]_vars PROVE Flags'
<1> USE DEF TypeOK, Flags, arms, stream, clock, feedback, host
<1>1. CASE Tick BY <1>1, OlderTyped DEF Tick
<1>2. CASE ControlTimer BY <1>2 DEF ControlTimer
<1>3. CASE DispatchEnds BY <1>3, ZenonT(40) DEF DispatchEnds
<1>4. CASE Heartbeat BY <1>4 DEF Heartbeat
<1>5. CASE PrepareShadow BY <1>5 DEF PrepareShadow
<1>6. CASE ArmRequest
  <2>1. configured' \in BOOLEAN /\ rightActive' \in BOOLEAN
    BY <1>6, Zenon DEF ArmRequest
  <2> QED BY <1>6, <2>1 DEF ArmRequest
<1>7. CASE Enable BY <1>7 DEF Enable
<1>8. CASE StreamOpen BY <1>8 DEF StreamOpen
<1>9. CASE StreamBatch BY <1>9, ZenonT(40) DEF StreamBatch
<1>10. CASE SafeStop
  BY <1>10 DEF SafeStop, PerformStop, TorqueOff, FaultIf
<1>11. CASE ClearFault BY <1>11, ZenonT(40) DEF ClearFault
<1>12. CASE Hold BY <1>12 DEF Hold
<1>13. CASE Disable
  <2>1. \E bad : /\ rightActive' = (RIGHT \in bad)
                 /\ stopLatched' = (stopLatched \/ bad # {})
    BY <1>13, Zenon DEF Disable
  <2>2. rightActive' \in BOOLEAN /\ stopLatched' \in BOOLEAN
    BY <2>1
  <2> QED BY <1>13, <2>2 DEF Disable, TorqueOff
<1>14. CASE RightArmDisable
  BY <1>14, ZenonT(40) DEF RightArmDisable, TorqueOff
<1>15. CASE RightArmOneShot BY <1>15 DEF RightArmOneShot, Arms
<1>16. CASE HostUartError BY <1>16 DEF HostUartError
<1>17. CASE FramesDone BY <1>17 DEF FramesDone
<1>18. CASE Watchdogs
  <2>1. CASE \E failed : PerformStop(failed)
    BY <2>1 DEF PerformStop
  <2>2. CASE \E txFault \in BOOLEAN :
                /\ stopLatched' = Latches(txFault)
                /\ UNCHANGED <<host, arms, stream, clock, stopPending, feedback>>
    BY <2>2, Zenon DEF Latches
  <2> QED BY <1>18, <2>1, <2>2 DEF Watchdogs
<1>19. CASE PollStops BY <1>19 DEF PollStops, RequestStop
<1>20. CASE Poll BY <1>20 DEF Poll
<1>21. CASE RequestFails BY <1>21 DEF RequestFails, RequestStop
<1>22. CASE SettleEnds BY <1>22 DEF SettleEnds
<1>23. CASE SettleFails BY <1>23 DEF SettleFails, RequestStop
<1>24. CASE NoTracking BY <1>24 DEF NoTracking
<1>25. CASE NoControlEvent BY <1>25 DEF NoControlEvent
<1>26. CASE ControlLate BY <1>26 DEF ControlLate, TakeEvent, RequestStop
<1>27. CASE ControlStartFails
  BY <1>27 DEF ControlStartFails, TakeEvent, RequestStop
<1>28. CASE ControlStepFails
  BY <1>28 DEF ControlStepFails, TakeEvent, RequestStop, AnchorUsed
<1>29. CASE ControlLaunchFails
  BY <1>29 DEF ControlLaunchFails, TakeEvent, RequestStop, AnchorUsed
<1>30. CASE ControlLaunch
  BY <1>30 DEF ControlLaunch, TakeEvent, AnchorUsed
<1>31. CASE Reset BY <1>31 DEF Reset
<1>32. CASE UNCHANGED vars BY <1>32 DEF vars
<1> QED
  BY <1>1, <1>2, <1>3, <1>4, <1>5, <1>6, <1>7, <1>8, <1>9, <1>10, <1>11,
     <1>12, <1>13, <1>14, <1>15, <1>16, <1>17, <1>18, <1>19, <1>20, <1>21,
     <1>22, <1>23, <1>24, <1>25, <1>26, <1>27, <1>28, <1>29, <1>30, <1>31,
     <1>32
  DEF Next, Interrupt, Frame, Service, TrackingService, ExecutorService

\* A step leaves the rest its type.
LEMMA NextPhases ==
    ASSUME TypeOK, [Next]_vars PROVE Phases'
<1> USE DEF TypeOK, Phases, arms, stream, clock, feedback, host
<1>a. 0 \in 0 .. Stale /\ Stale \in 0 .. Stale
  BY SafetyAssumption DEF Stale
<1>1. CASE Tick BY <1>1, OlderTyped DEF Tick
<1>2. CASE ControlTimer BY <1>2 DEF ControlTimer
<1>3. CASE DispatchEnds BY <1>3 DEF DispatchEnds
<1>4. CASE Heartbeat
  <2>1. heartbeatAge' \in 0 .. Stale BY <1>4, SafetyAssumption DEF Heartbeat, Stale
  <2> QED BY <1>4, <2>1, SafetyTyped DEF Heartbeat
<1>5. CASE PrepareShadow BY <1>5, SafetyTyped DEF PrepareShadow
<1>6. CASE ArmRequest
  <2>1. torque' \subseteq Arms /\ graceAge' \in 0 .. Stale
    BY <1>6, <1>a DEF ArmRequest
  <2>2. \E healthy, matches : safety' = RequestArm(safety, healthy, matches)
    BY <1>6, Zenon DEF ArmRequest
  <2>3. event' \in {"none", "due", "missed"}
    BY <1>6 DEF ArmRequest
  <2> QED BY <1>6, <2>1, <2>2, <2>3, SafetyTyped DEF ArmRequest
<1>7. CASE Enable BY <1>7, SafetyTyped DEF Enable
<1>8. CASE StreamOpen BY <1>8 DEF StreamOpen
<1>9. CASE StreamBatch BY <1>9 DEF StreamBatch
<1>10. CASE SafeStop
  BY <1>10, <1>a, SafetyTyped DEF SafeStop, PerformStop, TorqueOff, FaultIf
<1>11. CASE ClearFault BY <1>11, SafetyTyped DEF ClearFault
<1>12. CASE Hold BY <1>12, SafetyTyped DEF Hold
<1>13. CASE Disable
  BY <1>13, SafetyTyped DEF Disable, TorqueOff, FaultIf
<1>14. CASE RightArmDisable
  BY <1>14, SafetyTyped DEF RightArmDisable, TorqueOff
<1>15. CASE RightArmOneShot BY <1>15 DEF RightArmOneShot, Arms
<1>16. CASE HostUartError BY <1>16, SafetyTyped DEF HostUartError
<1>17. CASE FramesDone BY <1>17 DEF FramesDone
<1>18. CASE Watchdogs
  BY <1>18, <1>a, SafetyTyped
  DEF Watchdogs, PerformStop, TorqueOff, FaultIf, Ticked, Latches
<1>19. CASE PollStops BY <1>19 DEF PollStops, RequestStop
<1>20. CASE Poll BY <1>20 DEF Poll
<1>21. CASE RequestFails BY <1>21 DEF RequestFails, RequestStop
<1>22. CASE SettleEnds BY <1>22 DEF SettleEnds
<1>23. CASE SettleFails BY <1>23 DEF SettleFails, RequestStop
<1>24. CASE NoTracking BY <1>24 DEF NoTracking
<1>25. CASE NoControlEvent BY <1>25 DEF NoControlEvent
<1>26. CASE ControlLate BY <1>26 DEF ControlLate, TakeEvent, RequestStop
<1>27. CASE ControlStartFails
  BY <1>27 DEF ControlStartFails, TakeEvent, RequestStop
<1>28. CASE ControlStepFails
  BY <1>28 DEF ControlStepFails, TakeEvent, RequestStop, AnchorUsed
<1>29. CASE ControlLaunchFails
  BY <1>29 DEF ControlLaunchFails, TakeEvent, RequestStop, AnchorUsed
<1>30. CASE ControlLaunch
  BY <1>30 DEF ControlLaunch, TakeEvent, AnchorUsed
<1>31. CASE Reset BY <1>31, <1>a, SafetyTyped DEF Reset
<1>32. CASE UNCHANGED vars BY <1>32 DEF vars
<1> QED
  BY <1>1, <1>2, <1>3, <1>4, <1>5, <1>6, <1>7, <1>8, <1>9, <1>10, <1>11,
     <1>12, <1>13, <1>14, <1>15, <1>16, <1>17, <1>18, <1>19, <1>20, <1>21,
     <1>22, <1>23, <1>24, <1>25, <1>26, <1>27, <1>28, <1>29, <1>30, <1>31,
     <1>32
  DEF Next, Interrupt, Frame, Service, TrackingService, ExecutorService

\* Every variable of the main loop keeps its type, whatever the host sends.
THEOREM SpecTypeOK == Spec => []TypeOK
<1>1. Init => TypeOK
  <2>1. Booted \in Safety BY DEF Booted, Safety
  <2>2. Stale \in 0 .. Stale BY SafetyAssumption DEF Stale
  <2> QED BY <2>1, <2>2 DEF Init, TypeOK
<1>2. TypeOK <=> Flags /\ Phases
  BY DEF TypeOK, Flags, Phases
<1>3. TypeOK' <=> Flags' /\ Phases'
  BY DEF TypeOK, Flags, Phases
<1>4. TypeOK /\ [Next]_vars => TypeOK'
  BY <1>3, NextFlags, NextPhases
<1> QED BY <1>1, <1>4, PTL DEF Spec

-----------------------------------------------------------------------------
\* The control clock can only run into its stop: an event was missed, or the
\* dispatch has faulted.
Spent == event = "missed" \/ phase = "faulted"

\* A clock that is on and not spent belongs to a stream that is watched, and
\* that has used its anchor or is about to;
ClockIsWatched ==
    clockActive =>
        \/ Spent
        \/ rightActive /\ tracking # "off" /\ (startPending \/ ~anchorReady)

\* and if it is not in the ACTIVE state, a stop is latched: nothing that drops
\* the latch leaves the clock unspent.
ClockIsActive ==
    clockActive => Spent \/ stopLatched \/ safety.state = "ACTIVE"

\* A start that is pending has all that it needs.
StartIsReady ==
    startPending => clockActive /\ anchorReady /\ tracking # "off" /\ rightActive

\* The arms settle after the clock has been switched off.
SettlesStopped == settle => ~clockActive

\* A stop is requested together with a fault of the dispatch.
RequestFaults == stopPending => phase = "faulted"

IInv == /\ ClockIsWatched /\ ClockIsActive /\ StartIsReady /\ SettlesStopped /\ RequestFaults
        /\ LatchReachesArms

LEMMA InitIInv == Init => IInv
BY DEF Init, IInv, ClockIsWatched, ClockIsActive, StartIsReady, SettlesStopped,
       RequestFaults, LatchReachesArms

\* No step leaves the invariant, if PREPARE_SHADOW comes only between streams.
Rest == /\ ClockIsWatched /\ StartIsReady /\ SettlesStopped /\ RequestFaults
        /\ LatchReachesArms

LEMMA NextRest ==
    ASSUME Rest, [Next]_vars, ~PrepareInMotion
    PROVE  Rest'
<1> USE DEF Rest, ClockIsWatched, StartIsReady, SettlesStopped, RequestFaults,
            LatchReachesArms, Spent, arms, stream, clock, feedback, host
<1>1. CASE Tick BY <1>1 DEF Tick
<1>2. CASE ControlTimer BY <1>2 DEF ControlTimer
<1>3. CASE DispatchEnds BY <1>3 DEF DispatchEnds
<1>4. CASE Heartbeat BY <1>4 DEF Heartbeat
<1>5. CASE PrepareShadow BY <1>5 DEF PrepareShadow, RightBusTaken
<1>6. CASE ArmRequest BY <1>6 DEF ArmRequest, RightBusTaken
<1>7. CASE Enable BY <1>7 DEF Enable
<1>8. CASE StreamOpen BY <1>8 DEF StreamOpen
<1>9. CASE StreamBatch BY <1>9 DEF StreamBatch, OutputPermitted
<1>10. CASE SafeStop BY <1>10 DEF SafeStop, PerformStop, TorqueOff
<1>11. CASE ClearFault BY <1>11 DEF ClearFault
<1>12. CASE Hold BY <1>12 DEF Hold
<1>13. CASE Disable BY <1>13 DEF Disable, TorqueOff, RightBusTaken
<1>14. CASE RightArmDisable
  BY <1>14 DEF RightArmDisable, TorqueOff, RightBusTaken
<1>15. CASE RightArmOneShot
  <2>1. rightActive => rightActive'
    BY <1>15 DEF RightArmOneShot
  <2>2. /\ loop' = "frames"
        /\ event' = event \/ event' = "missed"
        /\ UNCHANGED <<clockActive, startPending, anchorReady, tracking, phase,
                       settle, stopPending>>
    BY <1>15 DEF RightArmOneShot
  <2> QED BY <2>1, <2>2
<1>16. CASE HostUartError BY <1>16 DEF HostUartError
<1>17. CASE FramesDone BY <1>17 DEF FramesDone
<1>18. CASE Watchdogs
  BY <1>18 DEF Watchdogs, PerformStop, TorqueOff, StopWanted, Latches,
               HeartbeatLost
<1>19. CASE PollStops BY <1>19 DEF PollStops, RequestStop
<1>20. CASE Poll BY <1>20 DEF Poll, MayRequest
<1>21. CASE RequestFails BY <1>21 DEF RequestFails, RequestStop
<1>22. CASE SettleEnds BY <1>22 DEF SettleEnds
<1>23. CASE SettleFails BY <1>23 DEF SettleFails, RequestStop, MayRequest
<1>24. CASE NoTracking BY <1>24 DEF NoTracking
<1>25. CASE NoControlEvent BY <1>25 DEF NoControlEvent
<1>26. CASE ControlLate BY <1>26 DEF ControlLate, TakeEvent, RequestStop
<1>27. CASE ControlStartFails
  BY <1>27 DEF ControlStartFails, TakeEvent, RequestStop
<1>28. CASE ControlStepFails
  BY <1>28 DEF ControlStepFails, TakeEvent, RequestStop, AnchorUsed
<1>29. CASE ControlLaunchFails
  BY <1>29 DEF ControlLaunchFails, TakeEvent, RequestStop, AnchorUsed
<1>30. CASE ControlLaunch
  BY <1>30 DEF ControlLaunch, TakeEvent, Ready, Steps, AnchorUsed
<1>31. CASE Reset BY <1>31 DEF Reset
<1>32. CASE UNCHANGED vars BY <1>32 DEF vars
<1> QED
  BY <1>1, <1>2, <1>3, <1>4, <1>5, <1>6, <1>7, <1>8, <1>9, <1>10, <1>11,
     <1>12, <1>13, <1>14, <1>15, <1>16, <1>17, <1>18, <1>19, <1>20, <1>21,
     <1>22, <1>23, <1>24, <1>25, <1>26, <1>27, <1>28, <1>29, <1>30, <1>31,
     <1>32
  DEF Next, Interrupt, Frame, Service, TrackingService, ExecutorService

\* The same for the ACTIVE state of a running clock.
LEMMA NextActive ==
    ASSUME TypeOK, Rest, ClockIsActive, [Next]_vars, ~PrepareInMotion
    PROVE  ClockIsActive'
<1> USE DEF ClockIsActive, Spent, arms, stream, clock, feedback, host
<1>1. CASE Tick BY <1>1 DEF Tick
<1>2. CASE ControlTimer BY <1>2 DEF ControlTimer
<1>3. CASE DispatchEnds BY <1>3 DEF DispatchEnds
<1>4. CASE Heartbeat BY <1>4 DEF Heartbeat, OnHeartbeat, TypeOK, Safety
<1>5. CASE PrepareShadow BY <1>5 DEF PrepareShadow
<1>6. CASE ArmRequest BY <1>6 DEF ArmRequest, RequestArm, TypeOK, Safety
<1>7. CASE Enable BY <1>7 DEF Enable, RequestEnable, TypeOK, Safety
<1>8. CASE StreamOpen BY <1>8 DEF StreamOpen
<1>9. CASE StreamBatch BY <1>9 DEF StreamBatch, OutputPermitted, AcceptsSetpoint
<1>10. CASE SafeStop BY <1>10 DEF SafeStop, PerformStop, TorqueOff
<1>11. CASE ClearFault BY <1>11 DEF ClearFault
<1>12. CASE Hold BY <1>12 DEF Hold
<1>13. CASE Disable BY <1>13 DEF Disable, TorqueOff
<1>14. CASE RightArmDisable BY <1>14 DEF RightArmDisable, TorqueOff
<1>15. CASE RightArmOneShot BY <1>15 DEF RightArmOneShot
<1>16. CASE HostUartError BY <1>16 DEF HostUartError
<1>17. CASE FramesDone BY <1>17 DEF FramesDone
<1>18. CASE Watchdogs
  BY <1>18 DEF Watchdogs, PerformStop, TorqueOff, Latches, Ticked,
                      SafetyTick, RequestHold, AcceptsSetpoint, TypeOK, Safety
<1>19. CASE PollStops BY <1>19 DEF PollStops, RequestStop
<1>20. CASE Poll BY <1>20 DEF Poll
<1>21. CASE RequestFails BY <1>21 DEF RequestFails, RequestStop
<1>22. CASE SettleEnds BY <1>22 DEF SettleEnds
<1>23. CASE SettleFails BY <1>23 DEF SettleFails, RequestStop
<1>24. CASE NoTracking BY <1>24 DEF NoTracking
<1>25. CASE NoControlEvent BY <1>25 DEF NoControlEvent
<1>26. CASE ControlLate BY <1>26 DEF ControlLate, TakeEvent, RequestStop
<1>27. CASE ControlStartFails
  BY <1>27 DEF ControlStartFails, TakeEvent, RequestStop
<1>28. CASE ControlStepFails BY <1>28 DEF ControlStepFails, TakeEvent, RequestStop
<1>29. CASE ControlLaunchFails
  BY <1>29 DEF ControlLaunchFails, TakeEvent, RequestStop
<1>30. CASE ControlLaunch
  BY <1>30 DEF ControlLaunch, TakeEvent, Ready
<1>31. CASE Reset BY <1>31 DEF Reset
<1>32. CASE UNCHANGED vars BY <1>32 DEF vars
<1> QED
  BY <1>1, <1>2, <1>3, <1>4, <1>5, <1>6, <1>7, <1>8, <1>9, <1>10, <1>11,
     <1>12, <1>13, <1>14, <1>15, <1>16, <1>17, <1>18, <1>19, <1>20, <1>21,
     <1>22, <1>23, <1>24, <1>25, <1>26, <1>27, <1>28, <1>29, <1>30, <1>31,
     <1>32
  DEF Next, Interrupt, Frame, Service, TrackingService, ExecutorService

LEMMA NextIInv ==
    ASSUME TypeOK, IInv, [Next]_vars, ~PrepareInMotion
    PROVE  IInv'
<1>1. Rest /\ ClockIsActive BY DEF IInv, Rest
<1>2. Rest' BY <1>1, NextRest
<1>3. ClockIsActive' BY <1>1, NextActive
<1> QED BY <1>2, <1>3 DEF IInv, Rest

\* The invariant allows only launches that are watched, not stopped, and from
\* a fresh anchor.
LEMMA LaunchesAreSafe ==
    ASSUME IInv, Next, Launches
    PROVE  /\ ~stopLatched
           /\ safety.state = "ACTIVE"
           /\ rightActive /\ tracking # "off"
           /\ ~anchorReady' /\ (exec = "PRIMING" => anchorReady)
<1> USE DEF Launches
<1>1. ControlLaunch
  BY DEF Next, Interrupt, Frame, Service, TrackingService, ExecutorService,
         Tick, ControlTimer, DispatchEnds, Heartbeat, PrepareShadow,
         ArmRequest, Enable, StreamOpen, StreamBatch, SafeStop, ClearFault,
         Hold, Disable,
         RightArmDisable, RightArmOneShot, HostUartError, FramesDone,
         Watchdogs, PollStops, Poll, RequestFails, SettleEnds, SettleFails,
         NoTracking, NoControlEvent, ControlLate, ControlStartFails,
         ControlStepFails, ControlLaunchFails, RequestStop, Reset, feedback
<1>2. ~Spent /\ clockActive /\ loop = "executor"
  BY <1>1 DEF ControlLaunch, TakeEvent, Ready, Spent
<1>3. rightActive /\ tracking # "off" /\ (startPending \/ ~anchorReady)
  BY <1>2 DEF IInv, ClockIsWatched
<1>4. ~stopLatched
  BY <1>2, <1>3 DEF IInv, LatchReachesArms, RequestFaults, Spent
<1>5. ~anchorReady'
  BY <1>1, <1>3 DEF ControlLaunch, AnchorUsed
<1>6. exec = "PRIMING" => anchorReady
  BY <1>1 DEF ControlLaunch, Steps, IInv, StartIsReady
<1>7. safety.state = "ACTIVE" BY <1>2, <1>4 DEF IInv, ClockIsActive
<1> QED BY <1>3, <1>4, <1>5, <1>6, <1>7

-----------------------------------------------------------------------------
\* The invariant holds throughout, and with it LatchReachesArms.
LEMMA SpecIInv == ASSUME ~PrepareInMotion PROVE Spec => []IInv
<1>1. TypeOK /\ IInv /\ [Next]_vars => IInv' BY NextIInv
<1> QED BY InitIInv, SpecTypeOK, <1>1, PTL DEF Spec

\* A latched stop has reached the arms whenever the watchdogs have run
\* (BinaryControl_Service): they do not count as on and no start is pending.
THEOREM SpecLatchReachesArms ==
    ASSUME ~PrepareInMotion PROVE Spec => []LatchReachesArms
<1>1. IInv => LatchReachesArms BY DEF IInv
<1> QED BY SpecIInv, <1>1, PTL

\* After a stop is latched no setpoint is sent (Host_ServiceV2Executor).
THEOREM SpecStopEndsOutput ==
    ASSUME ~PrepareInMotion PROVE Spec => StopEndsOutput
<1>1. IInv /\ [Next]_vars => [Launches => ~stopLatched]_vars
  BY LaunchesAreSafe
<1> QED BY SpecIInv, <1>1, PTL DEF Spec, StopEndsOutput

\* No setpoint is sent outside the ACTIVE state, or to arms that the watchdog
\* and the tracking feedback do not watch.
THEOREM SpecOutputIsWatched ==
    ASSUME ~PrepareInMotion PROVE Spec => OutputIsWatched
<1>1. IInv /\ [Next]_vars =>
        [Launches => safety.state = "ACTIVE" /\ rightActive /\ tracking # "off"]_vars
  BY LaunchesAreSafe
<1> QED BY SpecIInv, <1>1, PTL DEF Spec, OutputIsWatched

\* An anchor starts one stream, and is gone before its first setpoint is out.
THEOREM SpecAnchorIsUsedOnce ==
    ASSUME ~PrepareInMotion PROVE Spec => AnchorIsUsedOnce
<1>1. IInv /\ [Next]_vars =>
        [Launches => ~anchorReady' /\ (exec = "PRIMING" => anchorReady)]_vars
  BY LaunchesAreSafe
<1> QED BY SpecIInv, <1>1, PTL DEF Spec, AnchorIsUsedOnce

-----------------------------------------------------------------------------
\* When both arms stop counting as on, torque is off on both or the FAULT state
\* is reported, whatever failed and whatever the host sends.
THEOREM SpecArmsGoOffTogether == Spec => ArmsGoOffTogether
<1> DEFINE A == configured /\ rightActive /\ ~configured' =>
                    torque' = {} \/ safety'.state = "FAULT" \/ Reset
<1>1. TypeOK /\ [Next]_vars => [A]_vars
  <2> SUFFICES ASSUME TypeOK, Next, ~Reset,
                      configured, rightActive, ~configured'
               PROVE  torque' = {} \/ safety'.state = "FAULT"
    OBVIOUS
  <2> USE DEF TypeOK
  <2>1. \A s \in Safety : ReportFault(s).state = "FAULT"
    BY DEF ReportFault, Safety
  <2>2. SafeStop \/ Watchdogs \/ PrepareShadow \/ Disable
    BY DEF Next, Interrupt, Frame, Service, TrackingService, ExecutorService,
           Tick, ControlTimer, DispatchEnds, Heartbeat, ArmRequest, Enable,
           StreamOpen, StreamBatch, ClearFault, Hold, RightArmDisable,
           RightArmOneShot, HostUartError, FramesDone, PollStops, Poll,
           RequestFails, SettleEnds, SettleFails, NoTracking, NoControlEvent,
           ControlLate, ControlStartFails, ControlStepFails,
           ControlLaunchFails, ControlLaunch, TakeEvent, arms
  <2>3. ASSUME NEW failed, NEW s \in Safety, PerformStop(failed),
               safety' = FaultIf(failed, s)
        PROVE  torque' = {} \/ safety'.state = "FAULT"
    BY <2>1, <2>3 DEF PerformStop, TorqueOff, FaultIf
  <2>4. CASE SafeStop BY <2>3, <2>4, SafetyTyped DEF SafeStop
  <2>5. CASE Watchdogs
    <3>1. PICK txFault \in BOOLEAN : StopWanted(txFault) /\
              \E failed \in SUBSET Arms :
                  PerformStop(failed) /\ safety' = FaultIf(failed, Ticked(txFault))
      BY <2>5 DEF Watchdogs, arms
    <3>2. Ticked(txFault) \in Safety BY SafetyTyped DEF Ticked
    <3> QED BY <2>3, <3>1, <3>2
  <2>6. CASE PrepareShadow
    <3>1. CASE anchorReady' BY <2>6, <3>1 DEF PrepareShadow
    <3>2. CASE ~anchorReady' BY <2>1, <2>6, <3>2 DEF PrepareShadow
    <3> QED BY <3>1, <3>2
  <2>7. CASE Disable
    <3>a. {LEFT} \cup (IF rightActive THEN {RIGHT} ELSE {}) = Arms BY DEF Arms
    <3>b. PICK bad : /\ bad \subseteq Arms
                     /\ TorqueOff(bad \cup (Arms \ Arms))
                     /\ safety' = FaultIf(bad, RequestDisable(safety))
      BY <2>7, <3>a DEF Disable
    <3>c. bad \cup (Arms \ Arms) = bad OBVIOUS
    <3>1. TorqueOff(bad) /\ safety' = FaultIf(bad, RequestDisable(safety))
      BY <3>b, <3>c
    <3>2. RequestDisable(safety) \in Safety BY SafetyTyped
    <3> QED BY <2>1, <3>1, <3>2 DEF TorqueOff, FaultIf
  <2> QED BY <2>2, <2>4, <2>5, <2>6, <2>7
<1> QED BY <1>1, SpecTypeOK, PTL DEF Spec, ArmsGoOffTogether

=============================================================================
