---------------------------- MODULE FirmwareSession ----------------------------
(* The bimanual firmware as a session of the host adapter meets it: the       *)
(* requests of the adapter (Host_HandleBinaryFrame), the queue of the stream  *)
(* executor on its control ticks, and what ends a stream.  ResidentRuntime,   *)
(* StreamExecutor and TrackingFeedback model these parts on their own; here   *)
(* they share one clock with the host.                                        *)
(*                                                                            *)
(* A sample is the tick it is for and the epoch it was made in.  The reasons  *)
(* for which the firmware stops by itself are one action, FirmwareStops.      *)
(* Arms that are switched off may still hold torque: the buses may fail.      *)
EXTENDS StreamTransport, SequencesExt

CONSTANTS
    ControlTick,       \* ticks from one control tick to the next
    MinLead, MaxLead,  \* lead window of the policy
    QueueCapacity,     \* samples the executor can queue
    MinStart,          \* samples needed before the stream starts
    HeartbeatTimeout,  \* silence the watchdog bears
    MaxTime            \* bound on the ticks of a run

ASSUME FirmwareAssumption ==
    /\ ControlTick \in Nat \ {0} /\ HeartbeatTimeout \in Nat /\ MaxTime \in Nat
    /\ MinLead \in Nat \ {0} /\ MaxLead \in Nat /\ MinLead <= MaxLead
    /\ QueueCapacity \in Nat /\ MinStart \in 1 .. QueueCapacity

VARIABLES
    now,          \* HAL_GetTick
    silence,      \* time since the last heartbeat, or since the arms were powered
    exec,         \* state of the stream executor
    queue,        \* its samples
    limit,        \* its horizon, 0 for an open stream
    streamEpoch,  \* the epoch it holds, 0 for none
    starting,     \* host_v2_executor_start_pending
    armsOn,       \* host_binary_servos_configured, host_right_arm_output_active
    torque,       \* a servo may hold torque
    faulted,      \* the safety state is FAULT
    enabled,      \* actuator_safety_accepts_setpoint
    latched,      \* host_stop_latched
    anchored,     \* host_v2_shadow_anchor_ready
    tracking      \* the tracking feedback is active

stream == <<exec, queue, limit, streamEpoch, starting, tracking>>
arms == <<armsOn, torque, faulted, enabled, latched>>
firmware == <<now, silence, stream, arms, anchored>>

-----------------------------------------------------------------------------
\* The board is up; an earlier session may have left a stop latched, a fault,
\* and servos that hold torque.
FirmwareInit ==
    /\ now = 1 /\ silence = 0
    /\ exec = "CLOSED" /\ queue = <<>> /\ limit = 0 /\ streamEpoch = 0
    /\ starting = FALSE /\ tracking = FALSE
    /\ armsOn = FALSE /\ enabled = FALSE
    /\ torque \in BOOLEAN /\ faulted \in BOOLEAN /\ latched \in BOOLEAN
    /\ anchored = FALSE

Stale == HeartbeatTimeout + 1

\* The watchdog looks at the arms while they are powered.
Ageing == armsOn /\ silence < Stale

\* A sample that is due is taken within a control tick.  Time stands still at
\* the bound, for everything but the watchdog; after a stop nothing depends on
\* it any more.
Clock ==
    /\ armsOn \/ ~latched
    /\ ~(exec = "RUNNING" /\ ~latched /\ queue # <<>>
         /\ queue[1].tick + ControlTick <= now)
    /\ now < MaxTime \/ Ageing
    /\ now' = IF now < MaxTime THEN now + 1 ELSE now
    /\ silence' = IF Ageing THEN silence + 1 ELSE silence
    /\ UNCHANGED <<stream, arms, anchored>>

\* Host_PerformV2CoordinatedStop; the stream that ran may have ended by itself.
\* When an arm fails to switch its torque off, the arms count as off all the
\* same and a fault is reported: nothing tries again.  What the executor holds
\* is of no use any more, as every batch is refused from now on, and is left
\* out.
CoordinatedStop(execAfter, fails) ==
    /\ latched' = TRUE /\ armsOn' = FALSE /\ enabled' = FALSE
    /\ torque' = (torque /\ fails) /\ faulted' = (faulted \/ fails)
    /\ starting' = FALSE /\ tracking' = FALSE
    /\ exec' = execAfter
    /\ queue' = <<>> /\ limit' = 0 /\ streamEpoch' = 0
    /\ UNCHANGED <<now, silence, anchored>>

Stop(execAfter) == \E fails \in BOOLEAN : CoordinatedStop(execAfter, fails)

\* Mutant: the silence of the host is not watched.
MutantWatchdogDue == armsOn /\ latched

\* No heartbeat in time, or a stop that is latched while the arms are powered.
WatchdogDue == armsOn /\ (latched \/ silence > HeartbeatTimeout)

Watchdog == WatchdogDue /\ Stop(exec)

\* A dispatch or tracking fault, a command timeout, a link error, a missed
\* control tick, arms that do not settle.
FirmwareStops ==
    /\ ~latched
    /\ \/ Stop(exec)
       \/ exec \in {"RUNNING", "SUCCEEDED"} /\ Stop("ENDED")

-----------------------------------------------------------------------------
(* Requests that are not about the stream.                                   *)

Handles(kind) == up # <<>> /\ Head(up).kind = kind

\* What an answer says of the state: whether a stop is latched.
Health == IF latched THEN "LATCHED" ELSE "OK"

Hello == Handles("HELLO") /\ Answer(Health) /\ UNCHANGED firmware

Heartbeat ==
    /\ Handles("HEARTBEAT") /\ AnswerAt(Health, now)
    /\ silence' = 0
    /\ UNCHANGED <<now, stream, arms, anchored>>

InMotion == exec = "RUNNING" \/ starting

\* The torque goes off, and the positions of both arms become the anchor; or a
\* fault and a stop are latched.  The arms count as off either way.
PrepareShadow ==
    /\ Handles("SHADOW")
    /\ armsOn' = FALSE
    /\ \/ /\ ~InMotion /\ Answer("OK")
          /\ torque' = FALSE /\ anchored' = TRUE /\ UNCHANGED <<latched, faulted>>
       \/ /\ Answer("REFUSED") /\ torque' \in {torque, FALSE}
          /\ latched' = TRUE /\ faulted' = TRUE /\ anchored' = FALSE
    /\ UNCHANGED <<now, silence, stream, enabled>>

\* Both arms are powered, whatever is latched or faulted, and the safety state
\* decides the answer; or they cannot be, and nobody knows what holds torque.
ArmRequest ==
    /\ Handles("ARM")
    /\ \/ /\ armsOn' = TRUE /\ torque' = TRUE /\ silence' = 0
          /\ \/ ~faulted /\ Answer("OK")
             \/ Answer("REFUSED")
       \/ /\ torque' \in (IF armsOn THEN {torque} ELSE BOOLEAN)
          /\ UNCHANGED <<armsOn, silence>> /\ Answer("REFUSED")
    /\ UNCHANGED <<now, stream, faulted, enabled, latched, anchored>>

Enable ==
    /\ Handles("ENABLE") /\ Answer(Health)
    /\ enabled' = (armsOn /\ ~latched)
    /\ UNCHANGED <<now, silence, stream, armsOn, torque, faulted, latched, anchored>>

\* The answer says that the stop is latched, and whether an arm failed.
SafeStop ==
    /\ Handles("SAFE_STOP")
    /\ \E fails \in BOOLEAN :
          /\ CoordinatedStop(exec, fails)
          /\ Answer(IF fails THEN "FAILED" ELSE "LATCHED")

ExecutorDiagnostics ==
    Handles("EXECUTOR") /\ Answer(exec) /\ UNCHANGED firmware

\* The dispatch and tracking diagnostics.
TrackingDiagnostics ==
    /\ Handles("TRACKING")
    /\ Answer(IF tracking THEN "ACTIVE" ELSE "IDLE")
    /\ UNCHANGED firmware

\* All twelve joints were measured lately, and are where they should be.
FeedbackSnapshot ==
    /\ Handles("FEEDBACK")
    /\ \E says \in {"OK", "REFUSED"} : Answer(says)
    /\ UNCHANGED firmware

-----------------------------------------------------------------------------
(* The stream.                                                               *)

FirstTick(samples) == samples[1].tick
LastTick(samples) == samples[Len(samples)].tick

Openable(horizon) == exec # "RUNNING" /\ (horizon = 0 \/ horizon > now)

\* Nothing asks whether the tracking feedback of the last stream has ended.
StreamOpen ==
    /\ Handles("OPEN")
    /\ LET horizon == Head(up).content.horizon IN
       IF Openable(horizon)
       THEN /\ Answer("OK")
            /\ exec' = "PRIMING" /\ queue' = <<>> /\ limit' = horizon
            /\ streamEpoch' = 0 /\ starting' = FALSE
       ELSE /\ Answer("REFUSED")
            /\ UNCHANGED <<exec, queue, limit, streamEpoch, starting>>
    /\ UNCHANGED <<now, silence, tracking, arms, anchored>>

\* What an APPEND and a SPLICE must both satisfy.
Window(b) ==
    /\ exec \in {"PRIMING", "RUNNING"}
    /\ LastTick(b.samples) <= now + MaxLead
    /\ limit = b.horizon     \* the adapter never moves it
    /\ limit # 0 => LastTick(b.samples) <= limit

AppendAdmitted(b) ==
    /\ Window(b)
    /\ FirstTick(b.samples) >= now + MinLead
    /\ streamEpoch \in {0, b.epoch}
    /\ queue # <<>> =>
          /\ FirstTick(b.samples) > LastTick(queue)
          /\ (FirstTick(b.samples) - LastTick(queue)) % ControlTick = 0
    /\ Len(queue) + Len(b.samples) <= QueueCapacity

\* Samples are in the order of their ticks: those up to t are the first ones.
Passed(samples, t) ==
    Cardinality({i \in DOMAIN samples : samples[i].tick <= t})
Before(samples, t) == SubSeq(samples, 1, Passed(samples, t - 1))
After(samples, t) == SubSeq(samples, Passed(samples, t) + 1, Len(samples))

\* t is the tick of a sample, or lies between two.
OnRoute(samples, t) ==
    /\ samples # <<>>
    /\ FirstTick(samples) <= t /\ t <= LastTick(samples)

SpliceAdmitted(b) ==
    /\ Window(b)
    /\ FirstTick(b.samples) >= now + MinLead
    /\ OnRoute(queue, FirstTick(b.samples))
    /\ Len(Before(queue, FirstTick(b.samples))) + Len(b.samples) <= QueueCapacity

\* The batch is in the queue.  Then the runtime may refuse it; and the batch
\* that completes the minimum requests the start, if it can.
Admit(b, newQueue) ==
    /\ queue' = newQueue /\ streamEpoch' = b.epoch
    /\ LET completes == exec = "PRIMING" /\ Len(newQueue) >= MinStart IN
       IF /\ armsOn /\ enabled
          /\ completes => anchored /\ ~tracking
       THEN /\ Answer("OK")
            /\ starting' = (starting \/ completes)
            /\ tracking' = (tracking \/ completes)
       ELSE Answer("REFUSED") /\ UNCHANGED <<starting, tracking>>
    /\ UNCHANGED <<now, silence, exec, limit, arms, anchored>>

SetpointBatch ==
    /\ Handles("APPEND")
    /\ LET b == Head(up).content IN
       IF AppendAdmitted(b)
       THEN Admit(b, queue \o b.samples)
       ELSE Answer("REFUSED") /\ UNCHANGED firmware

SpliceBatch ==
    /\ Handles("SPLICE")
    /\ LET b == Head(up).content IN
       IF SpliceAdmitted(b)
       THEN Admit(b, Before(queue, FirstTick(b.samples)) \o b.samples)
       ELSE Answer("REFUSED") /\ UNCHANGED firmware

Handle ==
    \/ Hello \/ Heartbeat \/ PrepareShadow \/ ArmRequest \/ Enable \/ SafeStop
    \/ ExecutorDiagnostics \/ TrackingDiagnostics \/ FeedbackSnapshot
    \/ StreamOpen \/ SetpointBatch \/ SpliceBatch

-----------------------------------------------------------------------------
(* Control ticks.                                                            *)

\* The first control event starts the stream, or finds it too late.
StreamStarts ==
    /\ starting /\ ~latched
    /\ IF FirstTick(queue) > now
       THEN /\ starting' = FALSE /\ exec' = "RUNNING" /\ anchored' = FALSE
            /\ UNCHANGED <<now, silence, queue, limit, streamEpoch, tracking, arms>>
       ELSE Stop(exec)

Running == exec = "RUNNING" /\ ~latched

\* A sample whose tick has come is applied; the one at the horizon completes
\* a finite stream, if it is the last of the queue.
SampleApplied ==
    /\ Running /\ queue # <<>> /\ FirstTick(queue) <= now
    /\ queue' = Tail(queue)
    /\ exec' = IF limit # 0 /\ FirstTick(queue) = limit /\ Tail(queue) = <<>>
               THEN "SUCCEEDED" ELSE exec
    /\ UNCHANGED <<now, silence, limit, streamEpoch, starting, tracking, arms,
                   anchored>>

\* A finite stream without samples is stopped.
Underflow == Running /\ queue = <<>> /\ limit # 0 /\ Stop("ENDED")

\* The arms have settled at the goal: the measured positions are the anchor.
SettleEnds ==
    /\ exec = "SUCCEEDED" /\ tracking /\ ~latched
    /\ tracking' = FALSE /\ anchored' = TRUE
    /\ UNCHANGED <<now, silence, exec, queue, limit, streamEpoch, starting, arms>>

Control == StreamStarts \/ SampleApplied \/ Underflow \/ SettleEnds

=============================================================================
