--------------------------- MODULE ResidentRuntime ---------------------------
(* The resident main loop of the bimanual firmware (binary_control.c): the   *)
(* host's frames, the watchdogs, the coordinated stop of both arms, and the  *)
(* services that run a stream on the control tick.                           *)
(*                                                                           *)
(* A pass of the loop (SingleArmApp_Process) handles the frames that arrived, *)
(* then runs the watchdogs, the tracking service and the executor service.   *)
(* The clock, TIM6 and the servo UARTs interrupt it anywhere.  The stream     *)
(* executor appears by its state only (StreamExecutor is its model), the      *)
(* paired dispatch by its phase (PairedCycle), the telemetry by its outcome.  *)
EXTENDS SafetyState

CONSTANTS
    LEFT, RIGHT,
    PrepareInMotion   \* may the host ask for a new anchor during a stream?

Arms == {LEFT, RIGHT}

ASSUME RuntimeAssumption == LEFT # RIGHT /\ PrepareInMotion \in BOOLEAN

VARIABLES
    loop,             \* the part of SingleArmApp_Process that runs next
    safety,           \* host_binary_safety
    heard,            \* host_binary_heartbeat_count # 0
    heartbeatAge,     \* time since host_binary_last_heartbeat_ms
    graceAge,         \* ... since host_bimanual_arm_watchdog_grace_started_ms
    stopLatched,      \* host_stop_latched
    configured,       \* host_binary_servos_configured
    rightActive,      \* host_right_arm_output_active
    torque,           \* arms on which a servo may hold torque
    exec,             \* host_v2_stream_executor.diagnostics.state
    primed,           \* the samples queued suffice to start
    anchorReady,      \* host_v2_shadow_anchor_ready
    clockActive,      \* host_v2_executor_clock_active
    startPending,     \* host_v2_executor_start_pending
    stopPending,      \* host_v2_coordinated_stop_pending
    tracking,         \* "off", "idle" or "pending": the tracking feedback
    feedbackDue,      \* a pair was sent since the last position request
    settle,           \* host_v2_terminal_settle_active
    phase,            \* the paired dispatch: "ready", "busy", "faulted"
    event             \* TIM6: "none", "due", or "missed" when not taken in time

host == <<heard, heartbeatAge, graceAge>>
arms == <<configured, rightActive, torque>>
stream == <<exec, primed, anchorReady>>
clock == <<clockActive, startPending, event>>
feedback == <<tracking, feedbackDue, settle>>
vars == <<loop, safety, heard, heartbeatAge, graceAge, stopLatched,
          configured, rightActive, torque, exec, primed, anchorReady,
          clockActive, startPending, stopPending, tracking, feedbackDue,
          settle, phase, event>>

-----------------------------------------------------------------------------
Stale == HeartbeatTimeout + 1

Older(age) == IF age = Stale THEN Stale ELSE age + 1

\* BinaryControl_Init; the counters of ages start at zero, long ago.
Init ==
    /\ loop = "frames" /\ safety = Booted
    /\ heard = FALSE /\ heartbeatAge = Stale /\ graceAge = Stale
    /\ stopLatched = FALSE
    /\ configured = FALSE /\ rightActive = FALSE /\ torque \in SUBSET Arms
    /\ exec = "CLOSED" /\ primed = FALSE /\ anchorReady = FALSE
    /\ clockActive = FALSE /\ startPending = FALSE /\ stopPending = FALSE
    /\ tracking = "off" /\ feedbackDue = FALSE /\ settle = FALSE
    /\ phase = "ready" /\ event = "none"

\* Torque is taken off both arms, synchronously: more than two control ticks
\* pass.  It may fail on some arms.
TorqueOff(failed) == torque' = torque \cap failed /\ event' = "missed"

\* RightServo_WriteData refuses while the telemetry owns the bus.
RightBusTaken == tracking # "off"

-----------------------------------------------------------------------------
(* Interrupts and time.                                                      *)

Tick ==
    /\ heartbeatAge' = Older(heartbeatAge) /\ graceAge' = Older(graceAge)
    /\ UNCHANGED <<loop, safety, heard, stopLatched, arms, stream, clock,
                   stopPending, feedback, phase>>

\* ControlTick_OnInterrupt
ControlTimer ==
    /\ event' = IF event = "none" THEN "due" ELSE "missed"
    /\ UNCHANGED <<loop, safety, host, stopLatched, arms, stream, clockActive,
                   startPending, stopPending, feedback, phase>>

\* The packets of a pair are out, or one failed.
DispatchEnds ==
    /\ phase = "busy"
    /\ \/ phase' = "ready" /\ feedbackDue' = TRUE
       \/ phase' = "faulted" /\ UNCHANGED feedbackDue
    /\ UNCHANGED <<loop, safety, host, stopLatched, arms, stream, clock,
                   stopPending, tracking, settle>>

-----------------------------------------------------------------------------
(* The two halves of a coordinated stop.                                     *)

\* Host_RequestV2CoordinatedStop, from a service.
RequestStop ==
    /\ phase' = "faulted" /\ stopPending' = TRUE
    /\ startPending' = FALSE /\ clockActive' = FALSE /\ stopLatched' = TRUE

\* Host_PerformV2CoordinatedStop, but for the dispatch and the safety state.
\* The executor and its clock are left as they are.
PerformStop(failed) ==
    /\ settle' = FALSE /\ tracking' = "off"
    /\ TorqueOff(failed)
    /\ configured' = FALSE /\ rightActive' = FALSE /\ graceAge' = Stale
    /\ stopPending' = FALSE /\ startPending' = FALSE /\ stopLatched' = TRUE
    /\ UNCHANGED <<clockActive, feedbackDue, stream, heard, heartbeatAge>>

\* Mutant: a torque-off that failed is not reported.
MutantFaultIgnored(failed, s) == s

FaultIf(failed, s) == IF failed # {} THEN ReportFault(s) ELSE s

-----------------------------------------------------------------------------
(* Frames.  HEARTBEAT carries the time its last byte arrived.                *)

Heartbeat ==
    /\ loop = "frames"
    /\ heard' = TRUE /\ safety' = OnHeartbeat(safety)
    /\ heartbeatAge' \in 0 .. heartbeatAge
    /\ UNCHANGED <<loop, graceAge, stopLatched, arms, stream, clock,
                   stopPending, feedback, phase>>

\* PREPARE_SHADOW: torque off, then the measured positions become the anchor.
\* The anchor is dropped, and the arms counted as off, before any check.
PrepareShadow ==
    /\ loop = "frames"
    /\ clockActive => PrepareInMotion
    /\ \E failed \in SUBSET Arms, readable \in BOOLEAN :
          LET inMotion == exec = "RUNNING" \/ clockActive
              tried == {a \in Arms :
                           IF a = LEFT THEN ~inMotion ELSE ~RightBusTaken}
              off == tried \ failed
          IN
          /\ torque' = torque \ off
          /\ event' = IF tried = {} THEN event ELSE "missed"
          /\ anchorReady' = (off = Arms /\ readable)
          /\ IF anchorReady'
             THEN UNCHANGED <<safety, stopLatched>>
             ELSE safety' = ReportFault(safety) /\ stopLatched' = TRUE
    /\ configured' = FALSE /\ rightActive' = FALSE
    /\ UNCHANGED <<loop, host, exec, primed, clockActive, startPending,
                   stopPending, feedback, phase>>

\* ARM_REQUEST: both arms are configured and powered, whatever the safety
\* state, before the request is judged.
ArmRequest ==
    /\ loop = "frames"
    /\ \E matches, healthy \in BOOLEAN :
          IF matches /\ ~configured
          THEN /\ event' = "missed"
               /\ healthy => ~RightBusTaken
               /\ configured' = healthy
               /\ torque' \in IF healthy THEN {Arms} ELSE SUBSET Arms
               /\ rightActive' = (healthy \/ rightActive)
               /\ graceAge' = IF healthy THEN 0 ELSE graceAge
               /\ safety' = RequestArm(safety, healthy, matches)
          ELSE /\ UNCHANGED <<arms, graceAge, event>>
               /\ safety' = RequestArm(safety, TRUE, matches)
    /\ UNCHANGED <<loop, heard, heartbeatAge, stopLatched, stream, clockActive,
                   startPending, stopPending, feedback, phase>>

Enable ==
    /\ loop = "frames"
    /\ safety' = RequestEnable(safety, heartbeatAge)
    /\ UNCHANGED <<loop, host, stopLatched, arms, stream, clock, stopPending,
                   feedback, phase>>

\* STREAM_OPEN; a refused one changes nothing.  The tracking feedback of the
\* last stream is not ended.
StreamOpen ==
    /\ loop = "frames" /\ exec # "RUNNING"
    /\ exec' = "PRIMING" /\ primed' = FALSE
    /\ clockActive' = FALSE /\ startPending' = FALSE /\ settle' = FALSE
    /\ UNCHANGED <<loop, safety, host, stopLatched, arms, anchorReady, event,
                   stopPending, tracking, feedbackDue, phase>>

\* What the runtime itself asks of a batch that the executor admitted.
OutputPermitted == configured /\ rightActive /\ AcceptsSetpoint(safety)

\* SETPOINT_BATCH or SPLICE.  The executor queues it first; a batch that
\* completes the minimum requests the start, if tracking feedback can begin.
StreamBatch ==
    /\ loop = "frames" /\ exec \in {"PRIMING", "RUNNING"}
    /\ primed' \in {primed, TRUE}
    /\ \/ /\ OutputPermitted /\ exec = "PRIMING" /\ primed'
          /\ anchorReady /\ tracking = "off"
          /\ tracking' = "idle" /\ feedbackDue' = FALSE /\ settle' = FALSE
          /\ event' = "none" /\ startPending' = TRUE /\ clockActive' = TRUE
       \/ UNCHANGED <<clock, feedback>>
    /\ UNCHANGED <<loop, safety, host, stopLatched, arms, exec, anchorReady,
                   stopPending, phase>>

\* SAFE_STOP: a stop without a fault, unless a pair is being sent.
SafeStop ==
    /\ loop = "frames"
    /\ \E failed \in SUBSET Arms :
          /\ PerformStop(failed)
          /\ safety' = FaultIf(failed, IF AcceptsSetpoint(safety)
                                       THEN RequestHold(safety) ELSE safety)
    /\ phase' = IF phase = "busy" THEN "faulted" ELSE phase
    /\ UNCHANGED loop

\* CLEAR_FAULT first reads the positions of the left arm, which takes longer
\* than two control ticks, also when a read fails.
ClearFault ==
    /\ loop = "frames" /\ stopLatched
    /\ \/ /\ stopLatched' = FALSE
          /\ safety' = IF safety.state = "FAULT" THEN ClearLatchedStop(safety)
                       ELSE IF safety.state # "SAFE_DISABLED"
                       THEN RequestDisable(safety) ELSE safety
       \/ UNCHANGED <<safety, stopLatched>>
    /\ event' = "missed"
    /\ UNCHANGED <<loop, host, arms, stream, clockActive, startPending,
                   stopPending, feedback, phase>>

Hold ==
    /\ loop = "frames" /\ AcceptsSetpoint(safety)
    /\ safety' = RequestHold(safety) /\ stopLatched' = TRUE
    /\ UNCHANGED <<loop, host, arms, stream, clock, stopPending, feedback, phase>>

\* DISABLE takes torque off the left arm, and off the right one if it is
\* counted as on.
Disable ==
    /\ loop = "frames"
    /\ \E failed \in SUBSET Arms :
          LET tried == {LEFT} \cup (IF rightActive THEN {RIGHT} ELSE {})
              bad == tried \cap (failed \cup IF RightBusTaken THEN {RIGHT} ELSE {})
          IN
          /\ TorqueOff(bad \cup (Arms \ tried))
          /\ configured' = FALSE
          /\ rightActive' = (RIGHT \in bad)
          /\ safety' = FaultIf(bad, RequestDisable(safety))
          /\ stopLatched' = (stopLatched \/ bad # {})
    /\ UNCHANGED <<loop, host, stream, clockActive, startPending, stopPending,
                   feedback, phase>>

RightArmDisable ==
    /\ loop = "frames"
    /\ \/ /\ ~RightBusTaken
          /\ TorqueOff(Arms \ {RIGHT}) /\ rightActive' = FALSE
          /\ UNCHANGED <<safety, stopLatched>>
       \/ /\ safety' = ReportFault(safety) /\ stopLatched' = TRUE
          /\ event' \in {event, "missed"}
          /\ UNCHANGED <<torque, rightActive>>
    /\ UNCHANGED <<loop, host, configured, stream, clockActive, startPending,
                   stopPending, feedback, phase>>

\* RIGHT_ARM_JOG_ONCE, ..._TORQUE_ENABLE_ONCE, ..._CONFIGURE_ONCE: one servo
\* of the right arm may be powered; only an operation that got through to it
\* makes the arm count as on.
RightArmOneShot ==
    /\ loop = "frames"
    /\ safety.state = "SAFE_DISABLED" /\ ~stopLatched
    /\ heard /\ heartbeatAge <= HeartbeatTimeout
    /\ torque' = torque \cup {RIGHT}
    /\ rightActive' \in {rightActive, TRUE}
    /\ event' \in {event, "missed"}
    /\ UNCHANGED <<loop, safety, host, stopLatched, configured, stream,
                   clockActive, startPending, stopPending, feedback, phase>>

\* A receive fault of the host's UART (BinaryControl_HandleHostUartError).
HostUartError ==
    /\ loop = "frames"
    /\ safety' = IF AcceptsSetpoint(safety) THEN RequestHold(safety) ELSE safety
    /\ stopLatched' = TRUE
    /\ UNCHANGED <<loop, host, arms, stream, clock, stopPending, feedback, phase>>

\* The bytes of a burst are handled; BinaryControl_Service begins.
FramesDone ==
    /\ loop = "frames" /\ loop' = "watchdogs"
    /\ UNCHANGED <<safety, host, stopLatched, arms, stream, clock, stopPending,
                   feedback, phase>>

-----------------------------------------------------------------------------
(* BinaryControl_Service.                                                    *)

\* Mutant: only a host that was never heard counts as lost.
MutantHeartbeatLostUnheard == rightActive /\ ~heard

\* No heartbeat within the timeout, nor within it after arming.
HeartbeatLost ==
    /\ rightActive
    /\ ~heard \/ (graceAge = Stale /\ heartbeatAge = Stale)

\* The safety state after a transmit fault, if any, and the safety tick.
Ticked(txFault) ==
    SafetyTick(IF txFault /\ AcceptsSetpoint(safety)
               THEN RequestHold(safety) ELSE safety, heartbeatAge)

\* A stop is latched by a transmit fault, a stale heartbeat, or a hold.
Latches(txFault) ==
    stopLatched \/ txFault \/ Ticked(txFault).state = "HOLD"

\* Mutant: a latched stop does not stop arms that are powered.
MutantStopWanted(txFault) == stopPending \/ phase = "faulted" \/ HeartbeatLost

StopWanted(txFault) ==
    \/ stopPending \/ phase = "faulted"
    \/ HeartbeatLost
    \/ Latches(txFault) /\ rightActive

Watchdogs ==
    /\ loop = "watchdogs" /\ loop' = "tracking"
    /\ \E txFault \in BOOLEAN :
          IF StopWanted(txFault)
          THEN \E failed \in SUBSET Arms :
                  /\ PerformStop(failed)
                  /\ safety' = FaultIf(failed, Ticked(txFault))
                  /\ phase' = "faulted"
          ELSE /\ safety' = Ticked(txFault)
               /\ stopLatched' = Latches(txFault)
               /\ UNCHANGED <<host, arms, stream, clock, stopPending, feedback,
                              phase>>

\* Host_ServiceV2TrackingFeedback.  A request that is out is polled; a third
\* failure in a row, a tracking error or a stream that is not running ends the
\* motion.
PollStops ==
    /\ loop = "tracking" /\ loop' = "executor"
    /\ tracking = "pending" /\ tracking' = "idle"
    /\ exec' \in {exec} \cup
          (IF exec \in {"RUNNING", "SUCCEEDED"} THEN {"ABORTED"} ELSE {})
    /\ RequestStop
    /\ UNCHANGED <<safety, host, arms, primed, anchorReady, event, feedbackDue,
                   settle>>

MayRequest ==
    /\ phase = "ready" /\ exec \in {"RUNNING", "SUCCEEDED"}
    /\ settle \/ feedbackDue

\* The poll leaves the request out, or ends it; then the next one is made.
Poll ==
    /\ loop = "tracking" /\ loop' = "executor"
    /\ tracking # "off"
    /\ \/ tracking = "pending" /\ UNCHANGED <<tracking, feedbackDue>>
       \/ ~MayRequest /\ tracking' = "idle" /\ UNCHANGED feedbackDue
       \/ MayRequest /\ tracking' = "pending"
          /\ feedbackDue' = (settle /\ feedbackDue)
    /\ UNCHANGED <<safety, host, stopLatched, arms, stream, clock, stopPending,
                   settle, phase>>

RequestFails ==
    /\ loop = "tracking" /\ loop' = "executor"
    /\ tracking # "off" /\ MayRequest
    /\ tracking' \in {"off", "idle"}
    /\ RequestStop
    /\ UNCHANGED <<safety, host, arms, stream, event, feedbackDue, settle>>

\* Twelve positions in a row were at the target: what was measured becomes
\* the anchor of the next stream, and the tracking feedback ends.
SettleEnds ==
    /\ loop = "tracking" /\ loop' = "executor"
    /\ tracking # "off" /\ settle /\ phase = "ready"
    /\ anchorReady' = TRUE /\ settle' = FALSE /\ tracking' = "off"
    /\ UNCHANGED <<safety, host, stopLatched, arms, exec, primed, clock,
                   stopPending, feedbackDue, phase>>

\* The arms did not settle in time, or a position was never measured.
SettleFails ==
    /\ loop = "tracking" /\ loop' = "executor"
    /\ tracking # "off" /\ settle
    /\ tracking' \in {tracking, "idle", IF MayRequest THEN "pending" ELSE "idle"}
    /\ RequestStop
    /\ UNCHANGED <<safety, host, arms, stream, event, feedbackDue, settle>>

NoTracking ==
    /\ loop = "tracking" /\ loop' = "executor" /\ tracking = "off"
    /\ UNCHANGED <<safety, host, stopLatched, arms, stream, clock, stopPending,
                   feedback, phase>>

\* Host_ServiceV2Executor takes the control event, if the clock is on.
NoControlEvent ==
    /\ loop = "executor" /\ loop' = "frames"
    /\ ~clockActive \/ event = "none"
    /\ UNCHANGED <<safety, host, stopLatched, arms, stream, clock, stopPending,
                   feedback, phase>>

TakeEvent ==
    /\ loop = "executor" /\ loop' = "frames"
    /\ clockActive /\ event # "none" /\ event' = "none"
    /\ UNCHANGED <<safety, host, arms, primed, tracking, feedbackDue>>

\* Mutant: a control event that was missed is not asked about.
MutantReadyIgnoresMissed == phase = "ready" /\ tracking # "pending"

\* The last event was taken in time, and everything it started is over.
Ready == event = "due" /\ phase = "ready" /\ tracking # "pending"

ControlLate ==
    /\ TakeEvent /\ ~Ready
    /\ RequestStop
    /\ UNCHANGED <<exec, anchorReady, settle>>

\* start() judges the anchor; it uses it up when it accepts it.
ControlStartFails ==
    /\ TakeEvent /\ Ready /\ startPending
    /\ RequestStop
    /\ UNCHANGED <<exec, anchorReady, settle>>

\* The stream runs, or starts now.
Steps == IF startPending THEN exec = "PRIMING" /\ primed ELSE exec = "RUNNING"

\* Mutant: the anchor can be used again.
MutantAnchorKept == UNCHANGED anchorReady

AnchorUsed == anchorReady' = (anchorReady /\ ~startPending)

\* step() ends the stream for safety.
ControlStepFails ==
    /\ TakeEvent /\ Ready
    /\ IF Steps THEN exec' \in {"HOLD", "ABORTED"} ELSE UNCHANGED exec
    /\ AnchorUsed /\ RequestStop
    /\ UNCHANGED settle

\* The output exists, but is out of the servos' range or not sent.
ControlLaunchFails ==
    /\ TakeEvent /\ Ready /\ Steps
    /\ exec' \in {"RUNNING", "SUCCEEDED"}
    /\ AnchorUsed /\ RequestStop
    /\ UNCHANGED settle

\* The output is sent to both arms.  The last one begins the settling.
ControlLaunch ==
    /\ TakeEvent /\ Ready /\ Steps
    /\ exec' \in {"RUNNING", "SUCCEEDED"}
    /\ AnchorUsed
    /\ phase' = "busy" /\ startPending' = FALSE
    /\ clockActive' = (exec' = "RUNNING")
    /\ settle' = (settle \/ exec' = "SUCCEEDED")
    /\ UNCHANGED <<stopLatched, stopPending>>

\* The MCU restarts; the servos keep their torque.
Reset ==
    /\ loop' = "frames" /\ safety' = Booted
    /\ heard' = FALSE /\ heartbeatAge' = Stale /\ graceAge' = Stale
    /\ stopLatched' = FALSE
    /\ configured' = FALSE /\ rightActive' = FALSE /\ UNCHANGED torque
    /\ exec' = "CLOSED" /\ primed' = FALSE /\ anchorReady' = FALSE
    /\ clockActive' = FALSE /\ startPending' = FALSE /\ stopPending' = FALSE
    /\ tracking' = "off" /\ feedbackDue' = FALSE /\ settle' = FALSE
    /\ phase' = "ready" /\ event' = "none"

-----------------------------------------------------------------------------
Frame ==
    \/ Heartbeat \/ PrepareShadow \/ ArmRequest \/ Enable
    \/ StreamOpen \/ StreamBatch
    \/ SafeStop \/ ClearFault \/ Hold \/ Disable
    \/ RightArmDisable \/ RightArmOneShot
    \/ HostUartError

TrackingService ==
    PollStops \/ Poll \/ RequestFails \/ SettleEnds \/ SettleFails \/ NoTracking

ExecutorService ==
    \/ NoControlEvent \/ ControlLate \/ ControlStartFails
    \/ ControlStepFails \/ ControlLaunchFails \/ ControlLaunch

\* What the loop does by itself, the host silent.
Service == FramesDone \/ Watchdogs \/ TrackingService \/ ExecutorService

Interrupt == ControlTimer \/ DispatchEnds

Next == Tick \/ Interrupt \/ Frame \/ Service \/ Reset

Spec == Init /\ [][Next]_vars

(* Fairness: time passes, and the main loop goes round: a burst of frames is *)
(* bounded.  The host owes nothing.                                          *)
FairSpec == Spec /\ WF_vars(Tick) /\ WF_vars(Service)

-----------------------------------------------------------------------------
\* The type invariant.
TypeOK ==
    /\ loop \in {"frames", "watchdogs", "tracking", "executor"}
    /\ safety \in Safety
    /\ heard \in BOOLEAN /\ heartbeatAge \in 0 .. Stale /\ graceAge \in 0 .. Stale
    /\ stopLatched \in BOOLEAN
    /\ configured \in BOOLEAN /\ rightActive \in BOOLEAN
    /\ torque \subseteq Arms
    /\ exec \in {"CLOSED", "PRIMING", "RUNNING", "HOLD", "SUCCEEDED", "ABORTED"}
    /\ primed \in BOOLEAN /\ anchorReady \in BOOLEAN
    /\ clockActive \in BOOLEAN /\ startPending \in BOOLEAN
    /\ stopPending \in BOOLEAN
    /\ tracking \in {"off", "idle", "pending"}
    /\ feedbackDue \in BOOLEAN /\ settle \in BOOLEAN
    /\ phase \in {"ready", "busy", "faulted"}
    /\ event \in {"none", "due", "missed"}

Launches == phase = "ready" /\ phase' = "busy"

\* Once a stop is latched no setpoint is sent, whichever frame, watchdog or
\* service latched it and however frames are queued behind it.
StopEndsOutput == [][Launches => ~stopLatched]_vars

\* The arms are only moved in the ACTIVE state, while their watchdog counts the
\* right arm as on and the tracking feedback compares where they are with where
\* they should be.  (SAFE_STOP leaves the clock on, and a CLEAR_FAULT that comes
\* behind a HOLD in one burst drops the latch before any watchdog saw it: it is
\* the time these frames take that keeps the next control event from sending a
\* setpoint.)
OutputIsWatched ==
    [][Launches => /\ safety.state = "ACTIVE"
                   /\ rightActive /\ tracking # "off"]_vars

\* A stream starts from an anchor measured after the last setpoint was sent,
\* and a setpoint of the stream is never sent with an anchor left to start
\* another one from.
AnchorIsUsedOnce ==
    [][Launches => ~anchorReady' /\ (exec = "PRIMING" => anchorReady)]_vars

\* Whenever the watchdogs have run, a latched stop has reached the arms: they
\* no longer count as on, and no start is pending.
LatchReachesArms ==
    loop \in {"tracking", "executor"} /\ stopLatched =>
        \/ ~rightActive /\ ~startPending
        \/ stopPending

\* Whatever frame or watchdog ends the powered state of both arms, torque is
\* off on both afterwards, or the FAULT state says that it may not be: an arm
\* that could not be reached is never left on silently.  (A restart knows
\* nothing of the servos' torque.)
ArmsGoOffTogether ==
    [][configured /\ rightActive /\ ~configured' =>
          torque' = {} \/ safety'.state = "FAULT" \/ Reset]_vars

\* Arms do not stay counted as on (host_right_arm_output_active) for ever
\* unless the host keeps sending heartbeats, or arms them again.  Torque that
\* outlives the flag is not covered: that of a torque-off which failed (see
\* ArmsGoOffTogether), or of a one-shot whose answer was lost.
SilenceStops ==
    []<>(~rightActive) \/ []<>(heartbeatAge # Stale) \/ []<>(graceAge # Stale)

=============================================================================
