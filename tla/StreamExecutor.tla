--------------------------- MODULE StreamExecutor ---------------------------
(* The protocol v2 stream executor of the STM32 firmware                     *)
(* (stream_executor_v2.c with the session of stream_session_v2.c): a host    *)
(* opens a stream, appends or splices timestamped setpoints into a bounded   *)
(* queue, and the control tick turns the queue into one output per tick.     *)
(*                                                                           *)
(* Two clocks meet here, as in the firmware.  `tick` is HAL_GetTick(), which *)
(* the main loop reads when it handles a frame.  The TIM6 interrupt fires    *)
(* every ControlTick and leaves the tick it read in `event`; the main loop   *)
(* hands that tick, later, to start() and step().                            *)
EXTENDS StreamContract, FiniteSets

CONSTANTS
    MinPosition, MaxPosition,  \* actuator_v2_joint_limit_t of every joint
    StartTick,                 \* HAL_GetTick() when the model begins
    RunLength,                 \* bound: ticks that pass after StartTick
    MaxSamples,                \* bound: samples accepted per stream
    EventJitter,               \* how early TIM6 may read the tick (0 or 1)
    OpenRequests(_),           \* policies a host may send at a tick
    BatchRequests(_, _, _),    \* batches, given also the stream's horizon, queue
    Anchors,                   \* measured positions start() may be given
    FeedbackErrors             \* |commanded - measured| of a feedback sample

NoEvent == -1
NoEpoch == -1

CLOSED == "CLOSED"
PRIMING == "PRIMING"
RUNNING == "RUNNING"
HOLD == "HOLD"
SUCCEEDED == "SUCCEEDED"
ABORTED == "ABORTED"

States == {CLOSED, PRIMING, RUNNING, HOLD, SUCCEEDED, ABORTED}

Reasons == {"NONE", "PLANNED_HORIZON", "COMMAND_TIMEOUT", "QUEUE_UNDERFLOW",
            "MISSED_APPLY_TICK", "TRACKING_ERROR", "INVALID_TIMELINE"}

ASSUME ExecutorAssumption ==
    /\ MinPosition \in Position /\ MaxPosition \in Position
    /\ \A j \in Joints : MinPosition[j] < MaxPosition[j]
    /\ StartTick \in Tick
    /\ RunLength \in Nat /\ MaxSamples \in Nat
    /\ EventJitter \in 0 .. ControlTick - 1
    /\ Anchors \subseteq Position
    /\ FeedbackErrors \subseteq Nat

VARIABLES
    \* the environment
    tick,           \* HAL_GetTick()
    timer,          \* milliseconds until TIM6 fires
    event,          \* control event not yet taken by the main loop
    \* executor->diagnostics
    state, reason, safeStop, accepted, applied, splices, lastCommand,
    \* executor->session
    policy, horizon, epoch, queue,
    \* the executor itself
    anchor, anchorValid, output, outputValid, controlEpoch, lastStep,
    \* history: every sample so far was queued behind a sample it was
    \* rate-checked against, or before the anchor was
    seamless

environment == <<tick, timer, event>>
session == <<policy, horizon, epoch, queue, seamless>>
timeline == <<anchor, anchorValid, controlEpoch>>
vars == <<tick, timer, event,
          state, reason, safeStop, accepted, applied, splices, lastCommand,
          policy, horizon, epoch, queue,
          anchor, anchorValid, output, outputValid, controlEpoch, lastStep,
          seamless>>

-----------------------------------------------------------------------------
Zeros == [j \in Joints |-> 0]

NoPolicy == [minimumStart |-> 0, arms |-> {}, minimumLead |-> 0, horizon |-> 0,
             maximumLead |-> 0, commandTimeout |-> 0, maximumLateness |-> 0,
             trackingLimit |-> Zeros, maximumStep |-> Zeros]

NoSetpoint == [tick |-> 0, position |-> Zeros]

WithinLimits(position) ==
    \A j \in Joints : /\ MinPosition[j] <= position[j]
                      /\ position[j] <= MaxPosition[j]

FirstSample == queue[1]
LastSample == queue[Len(queue)]

\* Mutant: rounds down to the control tick before the apply tick.
MutantControlTickBefore(t) ==
    LET ticks == TickSub(t, controlEpoch) \div ControlTick
    IN TickAdd(controlEpoch, ticks * ControlTick)

\* first_control_tick_at_or_after
FirstControlTickAtOrAfter(t) ==
    LET elapsed == TickSub(t, controlEpoch)
        ticks   == TickAdd(elapsed, ControlTick - 1) \div ControlTick
    IN TickAdd(controlEpoch, ticks * ControlTick)

\* interpolate_position of the session: the planned position at a queued
\* sample or strictly between two of them, but not before the first.
PlannedAt(t, i) == queue[i].tick = t

PlannedBetween(t, i) ==
    /\ i < Len(queue)
    /\ TickAfter(t, queue[i].tick)
    /\ TickBefore(t, queue[i + 1].tick)

PlannedPosition(t, i) ==
    IF queue[i].tick = t
    THEN queue[i].position
    ELSE InterpolatePosition(queue[i].position, queue[i + 1].position,
                             TickSub(t, queue[i].tick),
                             TickSub(queue[i + 1].tick, queue[i].tick))

\* Mutant: keeps the sample at the splice point as well.
MutantRetainedUpTo(t, n) ==
    /\ \A i \in 1 .. n : ~TickAfter(queue[i].tick, t)
    /\ n < Len(queue) => TickAfter(queue[n + 1].tick, t)

\* The first n samples of the queue are those a splice at t retains.
RetainedBefore(t, n) ==
    /\ \A i \in 1 .. n : TickBefore(queue[i].tick, t)
    /\ n < Len(queue) => ~TickBefore(queue[n + 1].tick, t)

-----------------------------------------------------------------------------
\* The MCU comes up: actuator_v2_stream_executor_init.  Ticks are counted
\* from StartTick, which stands for any uptime.
Init ==
    /\ tick = StartTick /\ timer = ControlTick /\ event = NoEvent
    /\ state = CLOSED /\ reason = "NONE" /\ safeStop = FALSE
    /\ accepted = 0 /\ applied = 0 /\ splices = 0 /\ lastCommand = 0
    /\ policy = NoPolicy /\ horizon = 0 /\ epoch = NoEpoch /\ queue = <<>>
    /\ anchor = NoSetpoint /\ anchorValid = FALSE
    /\ output = Zeros /\ outputValid = FALSE
    /\ controlEpoch = 0 /\ lastStep = 0
    /\ seamless = TRUE

\* A millisecond passes.  When TIM6 fires it reads the tick, EventJitter
\* early at most if it races SysTick.  The main loop takes an event before the
\* next one while a stream runs: it stops the stream otherwise and calls
\* step() no more.
ClockTick ==
    /\ TickSub(tick, StartTick) < RunLength
    /\ tick' = TickAdd(tick, 1)
    /\ IF timer > 1
       THEN timer' = timer - 1 /\ UNCHANGED event
       ELSE /\ event = NoEvent \/ state # RUNNING
            /\ timer' = ControlTick
            /\ \E early \in 0 .. EventJitter : event' = TickSub(tick', early)
    /\ UNCHANGED <<state, reason, safeStop, accepted, applied, splices,
                   lastCommand, session, timeline, output, outputValid,
                   lastStep>>

\* actuator_v2_stream_executor_open.  A rejected policy changes nothing, so
\* a stream that is PRIMING, or the result of an ended one, survives it.
Open(p) ==
    /\ state # RUNNING
    /\ PolicyValid(p, tick)
    /\ policy' = p /\ horizon' = p.horizon /\ epoch' = NoEpoch /\ queue' = <<>>
    /\ state' = PRIMING /\ reason' = "NONE" /\ safeStop' = FALSE
    /\ accepted' = 0 /\ applied' = 0 /\ splices' = 0 /\ lastCommand' = 0
    /\ anchor' = NoSetpoint /\ anchorValid' = FALSE /\ outputValid' = FALSE
    /\ seamless' = TRUE
    /\ UNCHANGED <<environment, output, controlEpoch, lastStep>>

\* Mutant: the rate from the tail to the new batch is not checked.
MutantContinuesAnything(b) == Len(b.samples) > 0

\* The executor's own check of an APPEND behind a queue that is not empty.
ContinuesTail(b) ==
    (Len(queue) > 0 /\ TickAfter(FirstTick(b), LastSample.tick)) =>
        LET delta == TickSub(FirstTick(b), LastSample.tick) IN
        /\ delta % ControlTick = 0
        /\ WithinStep(LastSample.position, b.samples[1].position,
                      policy.maximumStep, delta \div ControlTick)

\* Mutant: joint limits are not checked when a batch is admitted.
MutantAdmissibleUnlimited(b) ==
    /\ state \in {PRIMING, RUNNING}
    /\ BatchDecodes(b)
    /\ b.arms \subseteq policy.arms
    /\ WindowValid(b, policy, tick, horizon)
    /\ SamplesContinuous(b.samples, policy.maximumStep)

\* What both kinds of batch must satisfy before they are queued.
Admissible(b) ==
    /\ state \in {PRIMING, RUNNING}
    /\ BatchDecodes(b)
    /\ \A i \in 1 .. Len(b.samples) : WithinLimits(b.samples[i].position)
    /\ b.arms \subseteq policy.arms
    /\ WindowValid(b, policy, tick, horizon)
    /\ SamplesContinuous(b.samples, policy.maximumStep)

\* A batch replaces everything after the first `retained` samples, or, if it
\* does not fit, nothing at all.
Enqueue(b, retained) ==
    /\ retained + Len(b.samples) <= QueueCapacity
    /\ accepted + Len(b.samples) <= MaxSamples
    /\ queue' = SubSeq(queue, 1, retained) \o b.samples
    /\ epoch' = b.epoch
    /\ horizon' = b.horizon
    /\ accepted' = accepted + Len(b.samples)
    /\ lastCommand' = tick
    /\ UNCHANGED <<environment, state, reason, safeStop, applied, policy,
                   timeline, output, outputValid, lastStep>>

\* actuator_v2_stream_executor_admit of an APPEND.
AppendBatch(b) ==
    LET currentEpoch == IF epoch = NoEpoch THEN b.epoch ELSE epoch
        lastTick     == IF queue = <<>> THEN tick ELSE LastSample.tick
    IN
    /\ b.kind = "APPEND"
    /\ Admissible(b)
    /\ ContinuesTail(b)
    /\ AppendValid(b, policy, tick, currentEpoch, lastTick)
    /\ Enqueue(b, Len(queue))
    /\ seamless' = (seamless /\ (state = PRIMING \/ queue # <<>>))
    /\ UNCHANGED splices

\* actuator_v2_stream_executor_admit of a SPLICE.
SpliceBatch(b) ==
    /\ b.kind = "SPLICE"
    /\ Admissible(b)
    /\ \E i \in 1 .. Len(queue), retained \in 0 .. Len(queue) :
          /\ PlannedAt(b.spliceAt, i) \/ PlannedBetween(b.spliceAt, i)
          /\ SpliceValid(b, policy, tick, LastSample.tick,
                         PlannedPosition(b.spliceAt, i))
          /\ RetainedBefore(b.spliceAt, retained)
          /\ Enqueue(b, retained)
    /\ splices' = splices + 1
    /\ seamless' = FALSE

-----------------------------------------------------------------------------
\* actuator_v2_stream_executor_start: the measured position becomes the
\* anchor, if the first sample is reachable from it.
Start(now, position) ==
    /\ state = PRIMING
    /\ Len(queue) >= policy.minimumStart
    /\ WithinLimits(position)
    /\ TickAfter(FirstSample.tick, now)
    /\ WithinStep(position, FirstSample.position, policy.maximumStep,
                  (TickSub(FirstSample.tick, now) + ControlTick - 1) \div ControlTick)
    /\ anchor' = [tick |-> now, position |-> position]
    /\ anchorValid' = TRUE
    /\ controlEpoch' = now
    /\ lastStep' = now
    /\ state' = RUNNING
    /\ UNCHANGED <<reason, safeStop, accepted, applied, splices, lastCommand,
                   session, output, outputValid>>

\* The guards of actuator_v2_stream_executor_step, in the order of the code.
Stepping == state = RUNNING /\ anchorValid

BehindTimeline(now) == \/ TickBefore(now, lastStep)
                       \/ TickBefore(now, anchor.tick)

\* Mutant: the timeout is applied to finite streams instead of open ones.
MutantCommandStaleFinite(now) ==
    horizon # 0 /\ TickSub(now, lastCommand) > policy.commandTimeout

CommandStale(now) ==
    horizon = 0 /\ TickSub(now, lastCommand) > policy.commandTimeout

\* Mutant: a sample is due only after its control tick.
MutantDueAfter(now) ==
    TickAfter(now, FirstControlTickAtOrAfter(FirstSample.tick))

Due(now) == ~TickBefore(now, FirstControlTickAtOrAfter(FirstSample.tick))

Lateness(now) == TickSub(now, FirstControlTickAtOrAfter(FirstSample.tick))

BeyondSpan(now) ==
    LET span == TickSub(FirstSample.tick, anchor.tick)
    IN span = 0 \/ TickSub(now, anchor.tick) > span

\* Mutant: the applied sample stays in the queue.
MutantConsumeNothing == queue' = queue /\ applied' = applied + 1

\* consume_first_sample
ConsumeFirst == queue' = Tail(queue) /\ applied' = applied + 1

\* Mutant: any sample that empties the queue completes the plan.
MutantPlanDrained == horizon # 0 /\ Tail(queue) = <<>>

\* Mutant: the plan is complete only past its horizon.
MutantPlanPassed ==
    horizon # 0 /\ TickAfter(FirstSample.tick, horizon) /\ Tail(queue) = <<>>

\* The sample being applied is the last one of a finite stream.
PlanComplete ==
    horizon # 0 /\ FirstSample.tick = horizon /\ Tail(queue) = <<>>

\* terminate(): the queue is kept.
Terminate(s, r, stop) == state' = s /\ reason' = r /\ safeStop' = stop

Emit(position) == output' = position /\ outputValid' = TRUE

StepRewound(now) ==
    /\ Stepping /\ BehindTimeline(now)
    /\ Terminate(ABORTED, "INVALID_TIMELINE", TRUE)
    /\ UNCHANGED <<accepted, applied, splices, lastCommand, session, timeline,
                   output, outputValid, lastStep>>

\* The step is on the timeline and the stream's commands are fresh.
StepOnTime(now) == Stepping /\ ~BehindTimeline(now) /\ lastStep' = now

\* Mutant: a stream that timed out holds its position and stays open.
MutantStepTimeoutKeepsOpen(now) ==
    /\ StepOnTime(now) /\ CommandStale(now)
    /\ Emit(anchor.position)
    /\ anchor' = [anchor EXCEPT !.tick = now]
    /\ UNCHANGED <<state, reason, safeStop, accepted, applied, splices,
                   lastCommand, session, anchorValid, controlEpoch>>

StepCommandTimeout(now) ==
    /\ StepOnTime(now) /\ CommandStale(now)
    /\ Emit(anchor.position)
    /\ Terminate(HOLD, "COMMAND_TIMEOUT", TRUE)
    /\ UNCHANGED <<accepted, applied, splices, lastCommand, session, timeline>>

StepUnderflow(now) ==
    /\ StepOnTime(now) /\ ~CommandStale(now)
    /\ queue = <<>> /\ horizon # 0
    /\ Terminate(ABORTED, "QUEUE_UNDERFLOW", TRUE)
    /\ UNCHANGED <<accepted, applied, splices, lastCommand, session, timeline,
                   output, outputValid>>

\* An open stream that ran dry keeps its last target.
StepKeep(now) ==
    /\ StepOnTime(now) /\ ~CommandStale(now)
    /\ queue = <<>> /\ horizon = 0
    /\ Emit(anchor.position)
    /\ UNCHANGED <<state, reason, safeStop, accepted, applied, splices,
                   lastCommand, session, timeline>>

StepMissed(now) ==
    /\ StepOnTime(now) /\ ~CommandStale(now)
    /\ queue # <<>> /\ Due(now) /\ Lateness(now) > policy.maximumLateness
    /\ Terminate(ABORTED, "MISSED_APPLY_TICK", TRUE)
    /\ UNCHANGED <<accepted, applied, splices, lastCommand, session, timeline,
                   output, outputValid>>

\* The first sample is due: it is the output and the new anchor; the last
\* sample of a finite stream, at its horizon, ends it.
StepApply(now) ==
    /\ StepOnTime(now) /\ ~CommandStale(now)
    /\ queue # <<>> /\ Due(now) /\ Lateness(now) <= policy.maximumLateness
    /\ anchor' = FirstSample
    /\ Emit(FirstSample.position)
    /\ ConsumeFirst
    /\ IF PlanComplete
       THEN Terminate(SUCCEEDED, "PLANNED_HORIZON", FALSE)
       ELSE UNCHANGED <<state, reason, safeStop>>
    /\ UNCHANGED <<accepted, splices, lastCommand, policy, horizon, epoch,
                   anchorValid, controlEpoch, seamless>>

StepOutOfSpan(now) ==
    /\ StepOnTime(now) /\ ~CommandStale(now)
    /\ queue # <<>> /\ ~Due(now) /\ BeyondSpan(now)
    /\ Terminate(ABORTED, "INVALID_TIMELINE", TRUE)
    /\ UNCHANGED <<accepted, applied, splices, lastCommand, session, timeline,
                   output, outputValid>>

StepInterpolate(now) ==
    /\ StepOnTime(now) /\ ~CommandStale(now)
    /\ queue # <<>> /\ ~Due(now) /\ ~BeyondSpan(now)
    /\ Emit(InterpolatePosition(anchor.position, FirstSample.position,
                                TickSub(now, anchor.tick),
                                TickSub(FirstSample.tick, anchor.tick)))
    /\ UNCHANGED <<state, reason, safeStop, accepted, applied, splices,
                   lastCommand, session, timeline>>

\* actuator_v2_stream_executor_step
Step(now) ==
    \/ StepRewound(now)
    \/ StepCommandTimeout(now)
    \/ StepUnderflow(now)
    \/ StepKeep(now)
    \/ StepMissed(now)
    \/ StepApply(now)
    \/ StepOutOfSpan(now)
    \/ StepInterpolate(now)

\* ServiceV2Executor hands the pending control event to step(); the event
\* that starts a stream is handed to start() first.
TakeEvent == event # NoEvent /\ event' = NoEvent /\ UNCHANGED <<tick, timer>>

ControlStart ==
    /\ event # NoEvent
    /\ \E position \in Anchors : Start(event, position)
    /\ UNCHANGED environment

ControlStep == TakeEvent /\ Step(event)

\* actuator_v2_stream_executor_check_joint_feedback: a joint further from its
\* commanded position than its limit aborts the stream, even one that has
\* already succeeded.  (check_feedback is the loop over all joints of the
\* same check, for a running stream.)
CheckJointFeedback(j, error) ==
    /\ state \in {RUNNING, SUCCEEDED}
    /\ outputValid
    /\ error > policy.trackingLimit[j]
    /\ Terminate(ABORTED, "TRACKING_ERROR", TRUE)
    /\ UNCHANGED <<environment, accepted, applied, splices, lastCommand,
                   session, timeline, output, outputValid, lastStep>>

\* The MCU is reset.
Reset ==
    /\ tick' = StartTick /\ timer' = ControlTick /\ event' = NoEvent
    /\ state' = CLOSED /\ reason' = "NONE" /\ safeStop' = FALSE
    /\ accepted' = 0 /\ applied' = 0 /\ splices' = 0 /\ lastCommand' = 0
    /\ policy' = NoPolicy /\ horizon' = 0 /\ epoch' = NoEpoch /\ queue' = <<>>
    /\ anchor' = NoSetpoint /\ anchorValid' = FALSE
    /\ output' = Zeros /\ outputValid' = FALSE
    /\ controlEpoch' = 0 /\ lastStep' = 0
    /\ seamless' = TRUE

Next ==
    \/ ClockTick
    \/ \E p \in OpenRequests(tick) : Open(p)
    \/ \E b \in BatchRequests(tick, horizon, queue) : AppendBatch(b) \/ SpliceBatch(b)
    \/ ControlStart
    \/ ControlStep
    \/ \E j \in Joints, error \in FeedbackErrors : CheckJointFeedback(j, error)
    \/ Reset

Spec == Init /\ [][Next]_vars

-----------------------------------------------------------------------------
(* Fairness: the clock runs, TIM6 events are served by the main loop.  The   *)
(* host owes nothing: it may fall silent at any point.                       *)
Fairness == WF_vars(ClockTick) /\ WF_vars(ControlStep)

FairSpec == Spec /\ Fairness

-----------------------------------------------------------------------------
\* The type invariant.
TypeOK ==
    /\ tick \in Tick /\ timer \in 1 .. ControlTick
    /\ event \in Tick \cup {NoEvent}
    /\ state \in States /\ reason \in Reasons /\ safeStop \in BOOLEAN
    /\ accepted \in Nat /\ applied \in Nat /\ splices \in Nat
    /\ lastCommand \in Tick
    /\ policy \in Policy /\ horizon \in Tick /\ epoch \in Nat \cup {NoEpoch}
    /\ queue \in Seq(Setpoint)
    /\ anchor \in Setpoint /\ anchorValid \in BOOLEAN
    /\ output \in Position /\ outputValid \in BOOLEAN
    /\ controlEpoch \in Tick /\ lastStep \in Tick
    /\ seamless \in BOOLEAN

\* The queue never exceeds its capacity, and its apply ticks strictly
\* increase across batches, splices and the wrap of the tick (admit, consume).
QueueOrdered ==
    /\ Len(queue) <= QueueCapacity
    /\ \A i \in 1 .. Len(queue) - 1 :
          TickAfter(queue[i + 1].tick, queue[i].tick)

\* Whatever is sent to the servos lies inside every joint's limits, whether
\* it is a sample, a point interpolated between two, or the held anchor.
OutputWithinLimits == outputValid => WithinLimits(output)

\* Every accepted sample is applied, still queued, or was replaced by a
\* splice; none is applied twice or lost (admit, consume_first_sample).
SamplesAccounted ==
    /\ applied + Len(queue) <= accepted
    /\ splices = 0 => applied + Len(queue) = accepted

\* A stream reports SUCCEEDED only when it was finite, everything queued has
\* been applied, and the servos were last sent the sample at the horizon.
SuccessIsComplete ==
    state = SUCCEEDED =>
        /\ horizon # 0 /\ queue = <<>> /\ applied > 0
        /\ anchor.tick = horizon
        /\ outputValid /\ output = anchor.position

\* A sample reaches the servos on the first control tick at or after its
\* apply tick: never before it, and late by less than a control tick plus the
\* lateness the policy allows (first_control_tick_at_or_after, step).
AppliedOnTime ==
    [][applied' = applied + 1 =>
          /\ ~TickBefore(event, FirstSample.tick)
          /\ TickSub(event, FirstSample.tick)
                < ControlTick + policy.maximumLateness]_vars

\* While the stream runs every queued sample comes after the anchor the
\* interpolation starts from, however late a batch refills a dry queue; and
\* since control events are ControlTick apart, the executor never finds
\* itself past a sample it has not applied.
TimelineHolds ==
    /\ state = RUNNING /\ queue # <<>> => TickAfter(FirstSample.tick, anchor.tick)
    /\ reason \notin {"INVALID_TIMELINE", "MISSED_APPLY_TICK"}

\* A seamless finite stream moves a joint by at most two maximum steps
\* from one output to the next, whichever batches its samples came in, also
\* when they lie off the control grid.  (A batch that refills a dry queue is
\* checked against nothing, and may move a joint at any rate.)
SeamlessOutputRate ==
    [][seamless' /\ horizon # 0 /\ outputValid /\ outputValid' =>
          WithinStep(output, output', policy.maximumStep, 2)]_vars

\* An open stream follows no command that the host has not renewed within
\* the command timeout: it moves the joints less than the timeout, one control
\* tick and the jitter after the last accepted batch, measured on the main
\* loop's clock and not on the control event the step was given.
OpenStreamIsFresh ==
    [][state' = RUNNING /\ horizon = 0 /\ outputValid' /\ output' # output
       => TickSub(tick, lastCommand)
             < policy.commandTimeout + ControlTick + EventJitter]_vars

\* A stream that stopped for safety stays stopped: until the host opens a new
\* one (or the MCU restarts) nothing is queued, output or reported otherwise.
StopIsLatched ==
    [][safeStop /\ state' \notin {PRIMING, CLOSED} =>
          /\ state' = state /\ safeStop'
          /\ queue' = queue /\ output' = output]_vars

\* A running stream ends by itself when the host falls silent: a finite one
\* reaches its horizon or runs dry, an open one times out.
RunEnds == state = RUNNING ~> state # RUNNING

\* A finite stream whose queue reaches the horizon succeeds, unless tracking
\* feedback aborts it, the host extends or splices it, or the MCU restarts.
PlannedRunSucceeds ==
    (/\ state = RUNNING /\ horizon # 0 /\ queue # <<>>
     /\ LastSample.tick = horizon)
    ~> \/ state = SUCCEEDED \/ reason = "TRACKING_ERROR"
       \/ queue # <<>> /\ LastSample.tick # horizon
       \/ state = CLOSED

-----------------------------------------------------------------------------
(* What the repository's architecture document says of the executor and the  *)
(* code does not do; a run of its own refutes it.                             *)

\* FIRMWARE_DUAL_ARM_ARCHITECTURE.md, 6.3: an open stream is held as stale when its command is
\* older than the command timeout.
TimeoutIsEarned ==
    [][reason' = "COMMAND_TIMEOUT" /\ reason # reason' =>
          TickSub(tick, lastCommand) > policy.commandTimeout]_vars

=============================================================================
