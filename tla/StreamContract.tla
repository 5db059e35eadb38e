--------------------------- MODULE StreamContract ---------------------------
(* The protocol v2 stream contract (stream_contract_v2.c): what makes a      *)
(* STREAM_OPEN policy, and an APPEND or SPLICE batch, acceptable at a given  *)
(* tick.  The C functions return the first failed check; here a check that   *)
(* fails makes the predicate false, since no later behaviour depends on      *)
(* which one it was.  Frames whose length, reserved bytes or offsets are     *)
(* malformed decode to no policy and no batch, and so have no counterpart.   *)
EXTENDS Ticks, Sequences

CONSTANTS
    Joints,          \* the twelve joints of the two arms
    Arms,            \* LEFT and RIGHT, the bits of an arm mask
    ControlTick,     \* ACTUATOR_V2_CONTROL_TICK_MS
    QueueCapacity,   \* ACTUATOR_V2_QUEUE_CAPACITY
    WireMaxSamples,  \* ACTUATOR_V2_WIRE_MAX_SAMPLES
    SpliceLead,      \* ACTUATOR_V2_MINIMUM_SPLICE_LEAD_MS
    HardCaps         \* actuator_v2_stream_hard_caps_t

Position == [Joints -> Int]

Setpoint == [tick : Tick, position : Position]

\* An arm mask names at least one arm and no unknown bit.
ArmMask == SUBSET Arms \ {{}}

\* actuator_v2_stream_policy_t as the wire carries it; horizon 0 means that
\* the stream is open-ended.
Policy == [minimumStart    : Nat,
           arms            : SUBSET Arms,
           minimumLead     : Nat,
           horizon         : Tick,
           maximumLead     : Nat,
           commandTimeout  : Nat,
           maximumLateness : Nat,
           trackingLimit   : [Joints -> Int],
           maximumStep     : [Joints -> Int]]

Batch == [kind     : {"APPEND", "SPLICE"},
          arms     : SUBSET Arms,
          horizon  : Tick,
          epoch    : Nat,
          spliceAt : Tick,
          samples  : Seq(Setpoint)]

HardCap == [minimumLead        : Nat,
            maximumLead        : Nat,
            commandTimeout     : Nat,
            openCommandTimeout : Nat,
            maximumLateness    : Nat,
            trackingLimit      : [Joints -> Int],
            maximumStep        : [Joints -> Int]]

ASSUME ContractAssumption ==
    /\ ControlTick \in Nat \ {0} /\ ControlTick < TickModulus
    /\ QueueCapacity \in Nat \ {0}
    /\ WireMaxSamples \in 1 .. QueueCapacity
    /\ SpliceLead \in Nat
    /\ HardCaps \in HardCap

-----------------------------------------------------------------------------
Distance(x, y) == IF x >= y THEN x - y ELSE y - x

\* Division of C: the quotient is truncated towards zero.
TruncDiv(n, d) == IF n >= 0 THEN n \div d ELSE -((-n) \div d)

\* Mutant: the way is covered in one control tick, whatever the span.
MutantInterpolateInOneTick(x, y, elapsed, span) ==
    x + TruncDiv((y - x) * elapsed, ControlTick)

\* The point reached `elapsed` after x on the straight line that arrives at y
\* after `span`.
Interpolate(x, y, elapsed, span) == x + TruncDiv((y - x) * elapsed, span)

InterpolatePosition(from, to, elapsed, span) ==
    [j \in Joints |-> Interpolate(from[j], to[j], elapsed, span)]

\* No joint moves further between two positions than `ticks` control ticks
\* at its maximum step allow.
WithinStep(from, to, step, ticks) ==
    \A j \in Joints : Distance(from[j], to[j]) <= step[j] * ticks

-----------------------------------------------------------------------------
\* actuator_v2_stream_policy_validate
PolicyValid(p, now) ==
    /\ p \in Policy
    /\ p.arms \in ArmMask
    /\ p.minimumStart \in 1 .. QueueCapacity
    /\ p.minimumLead >= HardCaps.minimumLead
    /\ p.maximumLead <= HardCaps.maximumLead
    /\ p.minimumLead <= p.maximumLead
    /\ p.commandTimeout \in 1 .. HardCaps.commandTimeout
    /\ p.horizon = 0 => p.commandTimeout <= HardCaps.openCommandTimeout
    /\ p.maximumLateness <= HardCaps.maximumLateness
    /\ p.horizon # 0 => TickAfter(p.horizon, now)
    /\ \A j \in Joints :
          /\ 0 < p.trackingLimit[j]
          /\ p.trackingLimit[j] <= HardCaps.trackingLimit[j]
          /\ 0 < p.maximumStep[j]
          /\ p.maximumStep[j] <= HardCaps.maximumStep[j]

FirstTick(b) == b.samples[1].tick
LastTick(b) == b.samples[Len(b.samples)].tick

\* actuator_v2_batch_decode
BatchDecodes(b) ==
    /\ b \in Batch
    /\ Len(b.samples) \in 1 .. WireMaxSamples
    /\ b.arms \in ArmMask
    /\ b.kind = "SPLICE" <=> b.spliceAt # 0
    /\ \A i \in 1 .. Len(b.samples) - 1 :
          TickAfter(b.samples[i + 1].tick, b.samples[i].tick)

\* Consecutive samples lie whole control ticks apart and within the step.
SamplesContinuous(samples, step) ==
    \A i \in 1 .. Len(samples) - 1 :
        LET delta == TickSub(samples[i + 1].tick, samples[i].tick) IN
        /\ delta % ControlTick = 0
        /\ WithinStep(samples[i].position, samples[i + 1].position,
                      step, delta \div ControlTick)

\* The last sample is inside the lead window and the horizon, and the batch
\* neither turns a finite stream into an open one, nor the reverse, nor
\* brings the horizon closer.
WindowValid(b, p, now, horizon) ==
    /\ TickSub(LastTick(b), now) <= p.maximumLead
    /\ b.horizon # 0 => ~TickAfter(LastTick(b), b.horizon)
    /\ (horizon = 0) <=> (b.horizon = 0)
    /\ horizon # 0 => \/ b.horizon = horizon
                      \/ TickAfter(b.horizon, horizon)

\* Mutant: an APPEND need not come after the queue's tail.
MutantAppendAnywhere(b, p, now, epoch, lastTick) ==
    /\ TickAfter(FirstTick(b), now)
    /\ TickSub(FirstTick(b), now) >= p.minimumLead
    /\ b.epoch = epoch

\* The part of actuator_v2_batch_validate_transition for an APPEND: a lead
\* of at least the minimum, the epoch of the stream, and a first sample after
\* the queue's tail (after `now` when the queue is empty).
AppendValid(b, p, now, epoch, lastTick) ==
    /\ TickAfter(FirstTick(b), now)
    /\ TickSub(FirstTick(b), now) >= p.minimumLead
    /\ b.epoch = epoch
    /\ TickAfter(FirstTick(b), lastTick)

\* The part for a SPLICE: a lead of at least SpliceLead, a splice point not
\* after the tail, a first sample at that point and within one step of the
\* planned position there.
SpliceValid(b, p, now, lastTick, planned) ==
    /\ TickAfter(b.spliceAt, now)
    /\ TickSub(b.spliceAt, now) >= SpliceLead
    /\ TickSub(b.spliceAt, now) >= p.minimumLead
    /\ ~TickAfter(b.spliceAt, lastTick)
    /\ FirstTick(b) = b.spliceAt
    /\ WithinStep(planned, b.samples[1].position, p.maximumStep, 1)

=============================================================================
