------------------------ MODULE StreamExecutorProofs ------------------------
(* Theorems about StreamExecutor for every value of its constants.           *)
EXTENDS StreamExecutor, SequenceTheorems, WellFoundedInduction, TLAPS

-----------------------------------------------------------------------------
(* Tick arithmetic stays on the ring.                                        *)

\* Adding a distance to a tick gives a tick (uint32_t addition).
LEMMA TickAddType ==
    ASSUME NEW a \in Tick, NEW d \in 0 .. TickModulus
    PROVE  TickAdd(a, d) \in Tick
  BY TickModulusAssumption DEF Tick, TickAdd

\* The distance between two ticks is a tick (uint32_t subtraction).
LEMMA TickSubType ==
    ASSUME NEW a \in Tick, NEW b \in Tick
    PROVE  TickSub(a, b) \in Tick
  BY TickModulusAssumption DEF Tick, TickSub

-----------------------------------------------------------------------------
(* Interpolation is convex: the reason why limits checked at admission hold  *)
(* for every point sent to the servos.                                       *)

\* A quotient of a product whose factor does not exceed the divisor.
LEMMA DivOfProduct ==
    ASSUME NEW d \in Nat, NEW e \in Nat, NEW s \in Nat, s > 0, e <= s
    PROVE  /\ (d * e) \div s \in Nat
           /\ (d * e) \div s <= d
  <1> DEFINE n == d * e
             q == n \div s
  <1>1. n \in Nat
    OBVIOUS
  <1>2. n <= d * s
    OBVIOUS
  <1>3. q \in Int /\ s * q <= n /\ n < s * q + s
    <2> HIDE DEF n
    <2> QED BY <1>1
  <1>4. q >= 0
    <2>1. SUFFICES ASSUME q <= -1 PROVE FALSE
      BY <1>3
    <2>2. s * q <= -s
      <3> HIDE DEF q
      <3> QED BY <1>3, <2>1
    <2> QED BY <1>1, <1>3, <2>2
  <1>5. q <= d
    <2>1. SUFFICES ASSUME q >= d + 1 PROVE FALSE
      BY <1>3
    <2>2. s * q >= s * d + s
      <3> HIDE DEF q
      <3> QED BY <1>3, <2>1
    <2> QED BY <1>2, <1>3, <2>2
  <1> QED BY <1>3, <1>4, <1>5

\* A point interpolated between x and y lies between them.
LEMMA InterpolateBetween ==
    ASSUME NEW x \in Int, NEW y \in Int,
           NEW elapsed \in Nat, NEW span \in Nat, span > 0, elapsed <= span
    PROVE  /\ Interpolate(x, y, elapsed, span) \in Int
           /\ \/ x <= Interpolate(x, y, elapsed, span)
                 /\ Interpolate(x, y, elapsed, span) <= y
              \/ y <= Interpolate(x, y, elapsed, span)
                 /\ Interpolate(x, y, elapsed, span) <= x
  <1>1. CASE y >= x
    <2> DEFINE d == y - x
    <2>1. d \in Nat
      BY <1>1
    <2>2. (d * elapsed) \div span \in Nat /\ (d * elapsed) \div span <= d
      BY <2>1, DivOfProduct
    <2>3. d * elapsed >= 0
      BY <2>1
    <2>4. Interpolate(x, y, elapsed, span) = x + ((d * elapsed) \div span)
      BY <2>3 DEF Interpolate, TruncDiv
    <2> QED BY <2>2, <2>4
  <1>2. CASE y < x
    <2> DEFINE d == x - y
    <2>1. d \in Nat
      BY <1>2
    <2>2. (d * elapsed) \div span \in Nat /\ (d * elapsed) \div span <= d
      BY <2>1, DivOfProduct
    <2>3. d * elapsed >= 0 /\ (y - x) * elapsed = -(d * elapsed)
      BY <2>1
    <2>4. Interpolate(x, y, elapsed, span) = x - ((d * elapsed) \div span)
      <3>1. CASE d * elapsed > 0
        BY <2>2, <2>3, <3>1 DEF Interpolate, TruncDiv
      <3>2. CASE d * elapsed = 0
        BY <2>2, <2>3, <3>2 DEF Interpolate, TruncDiv
      <3> QED BY <2>3, <3>1, <3>2
    <2> QED BY <2>2, <2>4
  <1> QED BY <1>1, <1>2

\* Interpolation between two positions inside the limits stays inside.
LEMMA InterpolateWithinLimits ==
    ASSUME NEW from \in Position, NEW to \in Position,
           NEW elapsed \in Nat, NEW span \in Nat, span > 0, elapsed <= span,
           WithinLimits(from), WithinLimits(to)
    PROVE  /\ InterpolatePosition(from, to, elapsed, span) \in Position
           /\ WithinLimits(InterpolatePosition(from, to, elapsed, span))
  <1>1. ASSUME NEW j \in Joints
        PROVE  /\ Interpolate(from[j], to[j], elapsed, span) \in Int
               /\ MinPosition[j] <= Interpolate(from[j], to[j], elapsed, span)
               /\ Interpolate(from[j], to[j], elapsed, span) <= MaxPosition[j]
    <2>1. from[j] \in Int /\ to[j] \in Int
      BY DEF Position
    <2>2. MinPosition[j] \in Int /\ MaxPosition[j] \in Int
      BY ExecutorAssumption DEF Position
    <2>3. /\ MinPosition[j] <= from[j] /\ from[j] <= MaxPosition[j]
          /\ MinPosition[j] <= to[j] /\ to[j] <= MaxPosition[j]
      BY DEF WithinLimits
    <2> DEFINE m == Interpolate(from[j], to[j], elapsed, span)
    <2>4. /\ m \in Int
          /\ (from[j] <= m /\ m <= to[j]) \/ (to[j] <= m /\ m <= from[j])
      BY <2>1, InterpolateBetween
    <2> HIDE DEF m
    <2>5. m \in Int /\ MinPosition[j] <= m /\ m <= MaxPosition[j]
      BY <2>1, <2>2, <2>3, <2>4
    <2> QED BY <2>5 DEF m
  <1> QED BY <1>1 DEF InterpolatePosition, Position, WithinLimits

-----------------------------------------------------------------------------
(* The inductive invariant: the properties the runs check, and what they     *)
(* rest on.                                                                  *)

\* Every position the executor may send is inside the limits.
PositionsWithinLimits ==
    /\ \A i \in 1 .. Len(queue) : WithinLimits(queue[i].position)
    /\ anchorValid => WithinLimits(anchor.position)
    /\ outputValid => WithinLimits(output)

\* A stop for safety is required exactly when the stream ended unplanned.
StopStates == safeStop <=> state \in {HOLD, ABORTED}

IInv ==
    /\ TypeOK
    /\ PositionsWithinLimits
    /\ QueueOrdered
    /\ SamplesAccounted
    /\ SuccessIsComplete
    /\ StopStates

\* The MCU comes up in a state that satisfies the invariant.
LEMMA InitIInv == Init => IInv
  <1> SUFFICES ASSUME Init PROVE IInv
    OBVIOUS
  <1> USE TickModulusAssumption, ContractAssumption, ExecutorAssumption
  <1>1. Zeros \in Position /\ NoPolicy \in Policy /\ NoSetpoint \in Setpoint
    BY DEF Zeros, NoPolicy, NoSetpoint, Position, Policy, Setpoint, Tick
  <1>2. TypeOK
    <2>1. 0 \in Tick
      BY DEF Tick
    <2>2. queue \in Seq(Setpoint)
      BY DEF Init
    <2>3. state \in States /\ reason \in Reasons
      BY DEF Init, States, Reasons
    <2>4. tick \in Tick /\ timer \in 1 .. ControlTick
      BY DEF Init
    <2> QED
      BY <1>1, <2>1, <2>2, <2>3, <2>4 DEF Init, TypeOK
  <1>3. queue = <<>> /\ Len(queue) = 0
    BY DEF Init
  <1> QED
    BY <1>2, <1>3 DEF Init, IInv, PositionsWithinLimits, QueueOrdered,
          SamplesAccounted, SuccessIsComplete, StopStates, CLOSED, SUCCEEDED,
          HOLD, ABORTED

\* A millisecond and a TIM6 event touch no stream state.
LEMMA ClockTickIInv == IInv /\ ClockTick => IInv'
  <1> SUFFICES ASSUME IInv, ClockTick PROVE IInv'
    OBVIOUS
  <1> USE TickModulusAssumption, ContractAssumption, ExecutorAssumption
  <1>1. tick' \in Tick
    BY TickAddType DEF IInv, TypeOK, ClockTick
  <1>2. timer' \in 1 .. ControlTick
    BY DEF IInv, TypeOK, ClockTick
  <1>3. event' \in Tick \cup {NoEvent}
    <2>1. CASE timer > 1
      BY <2>1 DEF IInv, TypeOK, ClockTick
    <2>2. CASE ~(timer > 1)
      <3>1. PICK early \in 0 .. EventJitter : event' = TickSub(tick', early)
        BY <2>2 DEF ClockTick
      <3>2. early \in Tick
        BY DEF Tick
      <3> QED BY <1>1, <3>1, <3>2, TickSubType
    <2> QED BY <2>1, <2>2
  <1>4. UNCHANGED <<state, reason, safeStop, accepted, applied, splices,
                    lastCommand, policy, horizon, epoch, queue, anchor,
                    anchorValid, output, outputValid, controlEpoch, lastStep,
                    seamless>>
    BY DEF ClockTick, session, timeline
  <1> QED
    BY <1>1, <1>2, <1>3, <1>4 DEF IInv, TypeOK, PositionsWithinLimits,
       WithinLimits, QueueOrdered, SamplesAccounted, SuccessIsComplete,
       StopStates

\* An accepted policy starts a stream with an empty queue and no output.
LEMMA OpenIInv == ASSUME NEW p, IInv, Open(p) PROVE IInv'
  <1> USE TickModulusAssumption, ContractAssumption, ExecutorAssumption
  <1>1. p \in Policy /\ p.horizon \in Tick
    BY DEF Open, PolicyValid, Policy
  <1>2. queue' = <<>> /\ Len(queue') = 0 /\ queue' \in Seq(Setpoint)
    BY DEF Open
  <1>3. NoSetpoint \in Setpoint /\ 0 \in Tick
    BY DEF NoSetpoint, Setpoint, Zeros, Position, Tick
  <1>4. TypeOK'
    BY <1>1, <1>2, <1>3 DEF IInv, TypeOK, Open, environment, States, Reasons
  <1> QED
    BY <1>2, <1>4 DEF Open, IInv, PositionsWithinLimits, QueueOrdered,
       SamplesAccounted, SuccessIsComplete, StopStates, PRIMING, SUCCEEDED,
       HOLD, ABORTED

\* After the MCU restarts the state is an initial one.
LEMMA ResetIInv == Reset => IInv'
  <1> SUFFICES ASSUME Reset PROVE IInv'
    OBVIOUS
  <1> USE TickModulusAssumption, ContractAssumption, ExecutorAssumption
  <1>1. Zeros \in Position /\ NoPolicy \in Policy /\ NoSetpoint \in Setpoint
    BY DEF Zeros, NoPolicy, NoSetpoint, Position, Policy, Setpoint, Tick
  <1>2. 0 \in Tick
    BY DEF Tick
  <1>3. queue' = <<>> /\ Len(queue') = 0 /\ queue' \in Seq(Setpoint)
    BY DEF Reset
  <1>4. TypeOK'
    <2>1. state' \in States /\ reason' \in Reasons
      BY DEF Reset, States, Reasons
    <2>2. tick' \in Tick /\ timer' \in 1 .. ControlTick
      BY DEF Reset
    <2> QED
      BY <1>1, <1>2, <1>3, <2>1, <2>2 DEF Reset, TypeOK
  <1> QED
    BY <1>3, <1>4 DEF Reset, IInv, PositionsWithinLimits, QueueOrdered,
       SamplesAccounted, SuccessIsComplete, StopStates, CLOSED, SUCCEEDED,
       HOLD, ABORTED

-----------------------------------------------------------------------------
(* Admission.                                                                *)

\* What a queue looks like after a batch replaced its tail.
LEMMA SpliceOfSequences ==
    ASSUME NEW S, NEW q \in Seq(S), NEW s \in Seq(S), NEW n \in 0 .. Len(q)
    PROVE  /\ SubSeq(q, 1, n) \o s \in Seq(S)
           /\ Len(SubSeq(q, 1, n) \o s) = n + Len(s)
           /\ \A i \in 1 .. n : (SubSeq(q, 1, n) \o s)[i] = q[i]
           /\ \A i \in n + 1 .. n + Len(s) :
                 (SubSeq(q, 1, n) \o s)[i] = s[i - n]
  <1>1. SubSeq(q, 1, n) \in Seq(S) /\ Len(SubSeq(q, 1, n)) = n
    OBVIOUS
  <1>2. \A i \in 1 .. n : SubSeq(q, 1, n)[i] = q[i]
    OBVIOUS
  <1> QED BY <1>1, <1>2

\* What the queue is after a batch replaced its tail.
LEMMA EnqueuedSamples ==
    ASSUME TypeOK, NEW b, NEW n \in 0 .. Len(queue),
           Admissible(b), Enqueue(b, n)
    PROVE  /\ queue' \in Seq(Setpoint) /\ queue' # <<>>
           /\ Len(queue') = n + Len(b.samples)
           /\ \A i \in 1 .. n : queue'[i] = queue[i]
           /\ \A i \in n + 1 .. n + Len(b.samples) : queue'[i] = b.samples[i - n]
<1> DEFINE s == b.samples
           r == SubSeq(queue, 1, n) \o s
<1>1. queue \in Seq(Setpoint) /\ s \in Seq(Setpoint) /\ Len(s) \in Nat \ {0}
  BY ContractAssumption DEF TypeOK, Admissible, BatchDecodes, Batch
<1>2. queue' = r
  BY DEF Enqueue
<1> HIDE DEF s
<1>3. /\ r \in Seq(Setpoint) /\ Len(r) = n + Len(s)
      /\ \A i \in 1 .. n : r[i] = queue[i]
      /\ \A i \in n + 1 .. n + Len(s) : r[i] = s[i - n]
  BY <1>1, SpliceOfSequences
<1> HIDE DEF r
<1>4. r # <<>>
  BY <1>1, <1>3
<1> QED
  BY <1>2, <1>3, <1>4 DEF s

\* Queueing an admissible batch behind samples it comes after keeps the
\* invariant; a splice may drop samples, an append drops none.
LEMMA EnqueueIInv ==
    ASSUME IInv, NEW b, NEW n \in 0 .. Len(queue),
           Admissible(b), Enqueue(b, n),
           n > 0 => TickAfter(FirstTick(b), queue[n].tick),
           \/ n = Len(queue) /\ splices' = splices
           \/ splices' = splices + 1,
           seamless' \in BOOLEAN
    PROVE  IInv'
  <1>1. /\ b.samples \in Seq(Setpoint) /\ b.epoch \in Nat /\ b.horizon \in Tick
        /\ Len(b.samples) \in 1 .. WireMaxSamples
    BY DEF Admissible, BatchDecodes, Batch
  <1>2. /\ queue \in Seq(Setpoint) /\ Len(queue) \in Nat
        /\ Len(b.samples) \in Nat /\ Len(b.samples) >= 1
    BY <1>1 DEF IInv, TypeOK
  <1>3. /\ queue' \in Seq(Setpoint)
        /\ Len(queue') = n + Len(b.samples)
        /\ \A i \in 1 .. n : queue'[i] = queue[i]
        /\ \A i \in n + 1 .. n + Len(b.samples) : queue'[i] = b.samples[i - n]
    BY EnqueuedSamples DEF IInv
  <1>4. TypeOK'
    <2>1. lastCommand' \in Tick
      BY DEF Enqueue, IInv, TypeOK
    <2>2. accepted' \in Nat /\ splices' \in Nat
      BY <1>2 DEF Enqueue, IInv, TypeOK
    <2>3. UNCHANGED <<tick, timer, event, state, reason, safeStop, applied,
                      policy, anchor, anchorValid, controlEpoch, output,
                      outputValid, lastStep>>
      BY DEF Enqueue, environment, timeline
    <2> QED
      BY <1>1, <1>3, <2>1, <2>2, <2>3 DEF Enqueue, IInv, TypeOK
  <1>5. PositionsWithinLimits'
    <2>1. ASSUME NEW i \in 1 .. Len(queue') PROVE WithinLimits(queue'[i].position)
      <3>1. CASE i <= n
        BY <1>2, <1>3, <3>1 DEF IInv, PositionsWithinLimits
      <3>2. CASE i > n
        <4>1. i - n \in 1 .. Len(b.samples) /\ queue'[i] = b.samples[i - n]
          BY <1>2, <1>3, <3>2
        <4> QED BY <4>1 DEF Admissible
      <3> QED BY <1>3, <3>1, <3>2
    <2> QED
      BY <2>1 DEF Enqueue, timeline, IInv, PositionsWithinLimits, WithinLimits
  <1>6. QueueOrdered'
    <2>1. Len(queue') <= QueueCapacity
      BY <1>3 DEF Enqueue
    <2>2. ASSUME NEW i \in 1 .. Len(queue') - 1
          PROVE  TickAfter(queue'[i + 1].tick, queue'[i].tick)
      <3>1. CASE i < n
        <4>1. i \in 1 .. Len(queue) - 1 /\ i \in 1 .. n /\ i + 1 \in 1 .. n
          BY <1>2, <3>1
        <4> QED BY <1>3, <4>1 DEF IInv, QueueOrdered
      <3>2. CASE i = n
        <4>1. i \in 1 .. n /\ i + 1 \in n + 1 .. n + Len(b.samples)
          BY <1>2, <3>2
        <4>2. queue'[i] = queue[n] /\ queue'[i + 1] = b.samples[1]
          BY <1>2, <1>3, <3>2, <4>1
        <4> QED BY <3>2, <4>2 DEF FirstTick
      <3>3. CASE i > n
        <4> DEFINE k == Len(b.samples)
        <4>0. i \in Int /\ k \in Int /\ n \in Int /\ 1 <= i /\ i <= n + k - 1
          BY <1>2, <1>3
        <4>1. /\ i - n \in 1 .. k - 1
              /\ i \in n + 1 .. n + k
              /\ i + 1 \in n + 1 .. n + k
              /\ (i + 1) - n = (i - n) + 1
          <5> HIDE DEF k
          <5> QED BY <3>3, <4>0
        <4>2. queue'[i] = b.samples[i - n]
          BY <1>3, <4>1
        <4>3. queue'[i + 1] = b.samples[(i + 1) - n]
          BY <1>3, <4>1
        <4> QED BY <4>1, <4>2, <4>3 DEF Admissible, BatchDecodes
      <3> QED BY <1>2, <1>3, <3>1, <3>2, <3>3
    <2> QED BY <2>1, <2>2 DEF QueueOrdered
  <1>7. SamplesAccounted'
    <2> DEFINE k == Len(b.samples)
               l == Len(queue)
    <2>1. /\ accepted' = accepted + k /\ applied' = applied
          /\ Len(queue') = n + k
      BY <1>3 DEF Enqueue
    <2>2. /\ applied + l <= accepted
          /\ splices = 0 => applied + l = accepted
      BY DEF IInv, SamplesAccounted
    <2>3. /\ accepted \in Nat /\ applied \in Nat /\ splices \in Nat
          /\ k \in Nat /\ l \in Nat /\ n <= l /\ n \in Nat
          /\ (n = l /\ splices' = splices) \/ splices' = splices + 1
      BY <1>2 DEF IInv, TypeOK
    <2> HIDE DEF k, l
    <2>4. applied + (n + k) <= accepted + k
      BY <2>2, <2>3
    <2>5. splices' = 0 => applied + (n + k) = accepted + k
      BY <2>2, <2>3
    <2> QED BY <2>1, <2>4, <2>5 DEF SamplesAccounted
  <1>8. SuccessIsComplete' /\ StopStates'
    <2>1. state' = state /\ safeStop' = safeStop
      BY DEF Enqueue
    <2>2. state' # SUCCEEDED
      BY <2>1 DEF Admissible, PRIMING, RUNNING, SUCCEEDED
    <2> QED BY <2>1, <2>2 DEF IInv, SuccessIsComplete, StopStates
  <1> QED BY <1>4, <1>5, <1>6, <1>7, <1>8 DEF IInv

\* An APPEND keeps the whole queue and comes after its tail.
LEMMA AppendIInv == ASSUME NEW b, IInv, AppendBatch(b) PROVE IInv'
  <1>1. Admissible(b) /\ Enqueue(b, Len(queue)) /\ splices' = splices
    BY DEF AppendBatch
  <1>2. Len(queue) \in Nat /\ queue \in Seq(Setpoint)
    BY DEF IInv, TypeOK
  <1>3. Len(queue) > 0 => TickAfter(FirstTick(b), queue[Len(queue)].tick)
    BY <1>2 DEF AppendBatch, AppendValid, LastSample
  <1>4. seamless' \in BOOLEAN
    BY DEF AppendBatch
  <1> QED BY <1>1, <1>2, <1>3, <1>4, EnqueueIInv

\* A SPLICE keeps the samples before the splice point, where it begins.
LEMMA SpliceIInv == ASSUME NEW b, IInv, SpliceBatch(b) PROVE IInv'
  <1>1. Len(queue) \in Nat
    BY DEF IInv, TypeOK
  <1>2. PICK i \in 1 .. Len(queue), n \in 0 .. Len(queue) :
            /\ SpliceValid(b, policy, tick, LastSample.tick,
                           PlannedPosition(b.spliceAt, i))
            /\ RetainedBefore(b.spliceAt, n)
            /\ Enqueue(b, n)
    BY DEF SpliceBatch
  <1>3. n > 0 => TickAfter(FirstTick(b), queue[n].tick)
    BY <1>1, <1>2 DEF SpliceValid, RetainedBefore, TickBefore
  <1>4. Admissible(b) /\ splices' = splices + 1 /\ seamless' = FALSE
    BY DEF SpliceBatch
  <1> QED BY <1>2, <1>3, <1>4, EnqueueIInv

-----------------------------------------------------------------------------
(* Execution.                                                                *)

\* The measured anchor is inside the limits when the stream starts.
LEMMA StartIInv == ASSUME IInv, ControlStart PROVE IInv'
  <1>1. PICK position \in Anchors : Start(event, position)
    BY DEF ControlStart
  <1> environment' = environment
    BY DEF ControlStart
  <1>2. event \in Tick /\ position \in Position
    BY <1>1, ExecutorAssumption DEF ControlStart, IInv, TypeOK
  <1>3. anchor' \in Setpoint /\ WithinLimits(position)
    BY <1>1, <1>2 DEF Start, Setpoint
  <1>4. TypeOK'
    <2>1. state' \in States /\ event' \in Tick \cup {NoEvent}
      BY <1>1 DEF Start, environment, States, IInv, TypeOK
    <2> QED
      BY <1>1, <1>2, <1>3, <2>1 DEF Start, environment, session, IInv, TypeOK
  <1> QED
    BY <1>1, <1>3, <1>4 DEF Start, session, IInv, PositionsWithinLimits,
       WithinLimits, QueueOrdered, SamplesAccounted, SuccessIsComplete,
       StopStates, PRIMING, RUNNING, SUCCEEDED, HOLD, ABORTED

\* What a step leaves alone unless it applies a sample.
StepFrame ==
    /\ UNCHANGED <<accepted, applied, splices, lastCommand, session, timeline>>
    /\ TakeEvent
    /\ lastStep' \in Tick

\* A step that ends the stream without an output.
LEMMA AbortIInv ==
    ASSUME IInv, StepFrame, NEW r \in Reasons,
           Terminate(ABORTED, r, TRUE), UNCHANGED <<output, outputValid>>
    PROVE  IInv'
  <1>1. TypeOK'
    <2>1. state' \in States /\ event' \in Tick \cup {NoEvent}
      BY DEF Terminate, StepFrame, TakeEvent, States
    <2> QED
      BY <2>1 DEF Terminate, StepFrame, TakeEvent, session, timeline, IInv,
         TypeOK
  <1> QED
    BY <1>1 DEF Terminate, StepFrame, session, timeline, IInv,
       PositionsWithinLimits, WithinLimits, QueueOrdered, SamplesAccounted,
       SuccessIsComplete, StopStates, SUCCEEDED, HOLD, ABORTED

\* A step that sends a position inside the limits and keeps the queue.
LEMMA EmitIInv ==
    ASSUME IInv, StepFrame, NEW p \in Position, Emit(p), WithinLimits(p),
           \/ UNCHANGED <<state, reason, safeStop>> /\ state = RUNNING
           \/ Terminate(HOLD, "COMMAND_TIMEOUT", TRUE)
    PROVE  IInv'
  <1>1. TypeOK'
    <2>1. /\ state' \in States /\ reason' \in Reasons /\ safeStop' \in BOOLEAN
          /\ event' \in Tick \cup {NoEvent}
      BY DEF Terminate, StepFrame, TakeEvent, States, Reasons, IInv, TypeOK
    <2> QED
      BY <2>1 DEF Emit, StepFrame, TakeEvent, session, timeline, IInv, TypeOK
  <1>2. PositionsWithinLimits'
    BY DEF Emit, StepFrame, session, timeline, IInv, PositionsWithinLimits,
       WithinLimits
  <1> QED
    BY <1>1, <1>2 DEF Terminate, StepFrame, session, timeline, IInv,
       QueueOrdered, SamplesAccounted, SuccessIsComplete, StopStates, RUNNING,
       SUCCEEDED, HOLD, ABORTED

\* Applying the first sample moves it from the queue to the anchor.
LEMMA ApplyIInv ==
    ASSUME IInv, TakeEvent, event \in Tick, StepApply(event)
    PROVE  IInv'
  <1>1. queue \in Seq(Setpoint) /\ queue # <<>>
    BY DEF StepApply, ConsumeFirst, IInv, TypeOK
  <1>2. /\ FirstSample \in Setpoint
        /\ Tail(queue) \in Seq(Setpoint)
        /\ Len(queue) \in Nat /\ Len(queue) >= 1
        /\ Len(Tail(queue)) = Len(queue) - 1
        /\ \A i \in 1 .. Len(Tail(queue)) : Tail(queue)[i] = queue[i + 1]
    BY <1>1 DEF FirstSample
  <1>3. WithinLimits(FirstSample.position) /\ FirstSample.position \in Position
    BY <1>2 DEF IInv, PositionsWithinLimits, FirstSample, Setpoint
  <1>4. TypeOK'
    <2>1. /\ state' \in States /\ reason' \in Reasons /\ safeStop' \in BOOLEAN
      BY DEF StepApply, Terminate, States, Reasons, IInv, TypeOK
    <2>2. /\ event' \in Tick \cup {NoEvent} /\ lastStep' \in Tick
      BY DEF StepApply, StepOnTime, TakeEvent
    <2> QED
      BY <1>2, <1>3, <2>1, <2>2
         DEF StepApply, ConsumeFirst, Emit, TakeEvent, IInv, TypeOK
  <1>5. PositionsWithinLimits'
    <2>1. ASSUME NEW i \in 1 .. Len(queue')
          PROVE  WithinLimits(queue'[i].position)
      <3>1. queue'[i] = queue[i + 1] /\ i + 1 \in 1 .. Len(queue)
        BY <1>2 DEF StepApply, ConsumeFirst
      <3> QED BY <3>1 DEF IInv, PositionsWithinLimits
    <2> QED
      BY <1>3, <2>1 DEF StepApply, ConsumeFirst, Emit, PositionsWithinLimits, WithinLimits
  <1>6. QueueOrdered'
    <2>1. ASSUME NEW i \in 1 .. Len(queue') - 1
          PROVE  TickAfter(queue'[i + 1].tick, queue'[i].tick)
      <3>1. /\ queue'[i] = queue[i + 1] /\ queue'[i + 1] = queue[(i + 1) + 1]
            /\ i + 1 \in 1 .. Len(queue) - 1
        BY <1>2 DEF StepApply, ConsumeFirst
      <3> QED BY <3>1 DEF IInv, QueueOrdered
    <2>2. Len(queue') <= QueueCapacity
      BY <1>2, ContractAssumption DEF StepApply, ConsumeFirst, IInv, QueueOrdered
    <2> QED BY <2>1, <2>2 DEF QueueOrdered
  <1>7. SamplesAccounted'
    BY <1>2 DEF StepApply, ConsumeFirst, IInv, TypeOK, SamplesAccounted
  <1>8. SuccessIsComplete'
    <2>1. CASE PlanComplete
      BY <2>1 DEF PlanComplete, StepApply, ConsumeFirst, Emit, SuccessIsComplete, IInv, TypeOK
    <2>2. CASE ~PlanComplete
      BY <2>2 DEF StepApply, StepOnTime, Stepping, SuccessIsComplete,
         SUCCEEDED, RUNNING
    <2> QED BY <2>1, <2>2
  <1>9. StopStates'
    BY DEF StepApply, StepOnTime, Stepping, Terminate, IInv, StopStates,
       RUNNING, SUCCEEDED, HOLD, ABORTED
  <1> QED BY <1>4, <1>5, <1>6, <1>7, <1>8, <1>9 DEF IInv

\* Every way a control step can go keeps the invariant.
LEMMA StepIInv == ASSUME IInv, ControlStep PROVE IInv'
  <1>1. TakeEvent /\ Step(event) /\ event \in Tick
    BY DEF ControlStep, TakeEvent, IInv, TypeOK
  <1>2. lastStep \in Tick /\ anchor \in Setpoint /\ queue \in Seq(Setpoint)
    BY DEF IInv, TypeOK
  <1>3. anchor.position \in Position /\ anchor.tick \in Tick
    BY <1>2 DEF Setpoint
  <1>4. Stepping => state = RUNNING /\ WithinLimits(anchor.position)
    BY DEF Stepping, IInv, PositionsWithinLimits
  <1>5. CASE StepRewound(event)
    <2>1. StepFrame /\ "INVALID_TIMELINE" \in Reasons
      BY <1>1, <1>2, <1>5 DEF StepRewound, StepFrame, Reasons
    <2> QED BY <1>5, <2>1, AbortIInv DEF StepRewound
  <1>6. CASE StepCommandTimeout(event)
    <2>1. StepFrame
      BY <1>1, <1>6 DEF StepCommandTimeout, StepOnTime, StepFrame
    <2> QED
      BY <1>3, <1>4, <1>6, <2>1, EmitIInv DEF StepCommandTimeout, StepOnTime
  <1>7. CASE StepUnderflow(event)
    <2>1. StepFrame /\ "QUEUE_UNDERFLOW" \in Reasons
      BY <1>1, <1>7 DEF StepUnderflow, StepOnTime, StepFrame, Reasons
    <2> QED BY <1>7, <2>1, AbortIInv DEF StepUnderflow
  <1>8. CASE StepKeep(event)
    <2>1. StepFrame /\ UNCHANGED <<state, reason, safeStop>>
      BY <1>1, <1>8 DEF StepKeep, StepOnTime, StepFrame
    <2> QED BY <1>3, <1>4, <1>8, <2>1, EmitIInv DEF StepKeep, StepOnTime
  <1>9. CASE StepMissed(event)
    <2>1. StepFrame /\ "MISSED_APPLY_TICK" \in Reasons
      BY <1>1, <1>9 DEF StepMissed, StepOnTime, StepFrame, Reasons
    <2> QED BY <1>9, <2>1, AbortIInv DEF StepMissed
  <1>10. CASE StepApply(event)
    BY <1>1, <1>10, ApplyIInv
  <1>11. CASE StepOutOfSpan(event)
    <2>1. StepFrame /\ "INVALID_TIMELINE" \in Reasons
      BY <1>1, <1>11 DEF StepOutOfSpan, StepOnTime, StepFrame, Reasons
    <2> QED BY <1>11, <2>1, AbortIInv DEF StepOutOfSpan
  <1>12. CASE StepInterpolate(event)
    <2> DEFINE elapsed == TickSub(event, anchor.tick)
               span    == TickSub(FirstSample.tick, anchor.tick)
               p       == InterpolatePosition(anchor.position,
                              FirstSample.position, elapsed, span)
    <2>1. StepFrame /\ UNCHANGED <<state, reason, safeStop>>
      BY <1>1, <1>12 DEF StepInterpolate, StepOnTime, StepFrame
    <2>2. 1 \in 1 .. Len(queue) /\ FirstSample \in Setpoint
      BY <1>2, <1>12 DEF StepInterpolate, FirstSample
    <2>3. /\ FirstSample.position \in Position /\ FirstSample.tick \in Tick
          /\ WithinLimits(FirstSample.position)
      BY <2>2 DEF Setpoint, FirstSample, IInv, PositionsWithinLimits
    <2>4. elapsed \in Tick /\ span \in Tick
      BY <1>1, <1>3, <2>3, TickSubType
    <2>5. elapsed \in Nat /\ span \in Nat /\ span > 0 /\ elapsed <= span
      BY <1>12, <2>4 DEF StepInterpolate, BeyondSpan, Tick
    <2>6. Emit(p) /\ Stepping
      BY <1>12 DEF StepInterpolate, StepOnTime
    <2> HIDE DEF elapsed, span
    <2>7. p \in Position /\ WithinLimits(p)
      BY <1>3, <1>4, <2>3, <2>5, <2>6, InterpolateWithinLimits
    <2> HIDE DEF p
    <2> QED BY <1>4, <2>1, <2>6, <2>7, EmitIInv
  <1> QED
    BY <1>1, <1>5, <1>6, <1>7, <1>8, <1>9, <1>10, <1>11, <1>12 DEF Step

\* Feedback that aborts a stream changes nothing but its verdict.
LEMMA FeedbackIInv ==
    ASSUME NEW j, NEW error, IInv, CheckJointFeedback(j, error) PROVE IInv'
  <1>1. TypeOK'
    <2>1. state' \in States /\ reason' \in Reasons /\ safeStop' \in BOOLEAN
      BY DEF CheckJointFeedback, Terminate, States, Reasons
    <2> QED
      BY <2>1 DEF CheckJointFeedback, environment, session, timeline, IInv,
         TypeOK
  <1> QED
    BY <1>1 DEF CheckJointFeedback, Terminate, session, timeline, IInv,
       PositionsWithinLimits, WithinLimits, QueueOrdered, SamplesAccounted,
       SuccessIsComplete, StopStates, SUCCEEDED, HOLD, ABORTED

\* The invariant is inductive.
LEMMA NextIInv == IInv /\ [Next]_vars => IInv'
  <1> SUFFICES ASSUME IInv, [Next]_vars PROVE IInv'
    OBVIOUS
  <1>1. CASE ClockTick
    BY <1>1, ClockTickIInv
  <1>2. CASE \E p \in OpenRequests(tick) : Open(p)
    BY <1>2, OpenIInv
  <1>3. CASE \E b \in BatchRequests(tick, horizon, queue) :
                AppendBatch(b) \/ SpliceBatch(b)
    BY <1>3, AppendIInv, SpliceIInv
  <1>4. CASE ControlStart
    BY <1>4, StartIInv
  <1>5. CASE ControlStep
    BY <1>5, StepIInv
  <1>6. CASE \E j \in Joints, error \in FeedbackErrors :
                CheckJointFeedback(j, error)
    BY <1>6, FeedbackIInv
  <1>7. CASE Reset
    BY <1>7, ResetIInv
  <1>8. CASE UNCHANGED vars
    BY <1>8 DEF vars, IInv, TypeOK, PositionsWithinLimits, WithinLimits,
       QueueOrdered, SamplesAccounted, SuccessIsComplete, StopStates
  <1> QED
    BY <1>1, <1>2, <1>3, <1>4, <1>5, <1>6, <1>7, <1>8 DEF Next

-----------------------------------------------------------------------------
(* The theorems.                                                             *)

\* The inductive invariant holds in every reachable state.
THEOREM Invariance == Spec => []IInv
  BY InitIInv, NextIInv, PTL DEF Spec

\* Every variable keeps the type its C declaration gives it.
THEOREM TypeCorrect == Spec => []TypeOK
  <1>1. IInv => TypeOK
    BY DEF IInv
  <1> QED BY <1>1, Invariance, PTL

\* No position outside a joint's limits is ever sent to the servos, whatever
\* the host sends and at whatever ticks: the limits are checked when samples
\* are admitted and when the anchor is measured, and interpolation is convex.
THEOREM OutputsWithinLimits == Spec => []OutputWithinLimits
  <1>1. IInv => OutputWithinLimits
    BY DEF IInv, PositionsWithinLimits, OutputWithinLimits
  <1> QED BY <1>1, Invariance, PTL

\* The queue stays within its capacity and in strict tick order under every
\* interleaving of batches, splices and steps.
THEOREM QueueAlwaysOrdered == Spec => []QueueOrdered
  <1>1. IInv => QueueOrdered
    BY DEF IInv
  <1> QED BY <1>1, Invariance, PTL

\* No accepted sample is lost or applied twice.
THEOREM SamplesAlwaysAccounted == Spec => []SamplesAccounted
  <1>1. IInv => SamplesAccounted
    BY DEF IInv
  <1> QED BY <1>1, Invariance, PTL

\* SUCCEEDED is reported only at the horizon with everything applied.
THEOREM SuccessAlwaysComplete == Spec => []SuccessIsComplete
  <1>1. IInv => SuccessIsComplete
    BY DEF IInv
  <1> QED BY <1>1, Invariance, PTL

\* A stop for safety is left only by a new stream or a restart.
THEOREM StopsAreLatched == Spec => StopIsLatched
  <1>1. IInv /\ [Next]_vars =>
          [safeStop /\ state' \notin {PRIMING, CLOSED} =>
              /\ state' = state /\ safeStop'
              /\ queue' = queue /\ output' = output]_vars
    <2> SUFFICES ASSUME IInv, [Next]_vars, safeStop,
                        state' \notin {PRIMING, CLOSED}
                 PROVE  /\ state' = state /\ safeStop'
                        /\ queue' = queue /\ output' = output
      OBVIOUS
    <2>1. state \in {HOLD, ABORTED}
      BY DEF IInv, StopStates
    <2>2. state \notin {PRIMING, RUNNING, SUCCEEDED, CLOSED}
      BY <2>1 DEF HOLD, ABORTED, PRIMING, RUNNING, SUCCEEDED, CLOSED
    <2>3. CASE ClockTick
      BY <2>3 DEF ClockTick, session
    <2>4. CASE \E p \in OpenRequests(tick) : Open(p)
      BY <2>4 DEF Open
    <2>5. CASE \E b \in BatchRequests(tick, horizon, queue) :
                  AppendBatch(b) \/ SpliceBatch(b)
      BY <2>2, <2>5 DEF AppendBatch, SpliceBatch, Admissible
    <2>6. CASE ControlStart
      BY <2>2, <2>6 DEF ControlStart, Start
    <2>7. CASE ControlStep
      BY <2>2, <2>7 DEF ControlStep, Step, StepRewound, StepCommandTimeout,
         StepUnderflow, StepKeep, StepMissed, StepApply, StepOutOfSpan,
         StepInterpolate, StepOnTime, Stepping
    <2>8. CASE \E j \in Joints, error \in FeedbackErrors :
                  CheckJointFeedback(j, error)
      BY <2>2, <2>8 DEF CheckJointFeedback
    <2>9. CASE Reset
      BY <2>9 DEF Reset
    <2>10. CASE UNCHANGED vars
      BY <2>10 DEF vars
    <2> QED
      BY <2>3, <2>4, <2>5, <2>6, <2>7, <2>8, <2>9, <2>10 DEF Next
  <1> QED BY <1>1, Invariance, PTL DEF Spec, StopIsLatched

-----------------------------------------------------------------------------
(* The two clocks: how old a control event is when it is served.             *)

\* The tick of a control event that waits is not older than the time since
\* TIM6 fired and the jitter of its reading.
EventIsRecent ==
    event # NoEvent => TickSub(tick, event) <= ControlTick - timer + EventJitter

\* On the ring, the way over a third tick is not the shorter one.
LEMMA TickTriangle ==
    ASSUME NEW a \in Tick, NEW b \in Tick, NEW c \in Tick
    PROVE  TickSub(a, c) <= TickSub(a, b) + TickSub(b, c)
  BY TickModulusAssumption DEF Tick, TickSub

\* A tick that is d behind another is d away from it.
LEMMA TickSubOfSub ==
    ASSUME NEW a \in Tick, NEW d \in 0 .. TickModulus - 1
    PROVE  TickSub(a, d) \in Tick /\ TickSub(a, TickSub(a, d)) = d
  BY TickModulusAssumption DEF Tick, TickSub

\* A millisecond moves the clock one away from any tick, at most.
LEMMA TickSubOfAdd ==
    ASSUME NEW a \in Tick, NEW b \in Tick
    PROVE  TickSub(TickAdd(a, 1), b) <= TickSub(a, b) + 1
  BY TickModulusAssumption DEF Tick, TickSub, TickAdd

LEMMA NextEventIsRecent ==
    ASSUME TypeOK, EventIsRecent, [Next]_vars
    PROVE  EventIsRecent'
<1>1. CASE ClockTick
  <2>1. /\ tick \in Tick /\ timer \in 1 .. ControlTick /\ tick' = TickAdd(tick, 1)
        /\ ControlTick \in Nat \ {0} /\ ControlTick < TickModulus
        /\ EventJitter \in 0 .. ControlTick - 1
    BY <1>1, ContractAssumption, ExecutorAssumption DEF ClockTick, TypeOK
  <2>2. CASE timer > 1
    <3> SUFFICES ASSUME event' # NoEvent
                 PROVE  TickSub(tick', event') <= ControlTick - timer' + EventJitter
      BY DEF EventIsRecent
    <3>1. event' = event /\ timer' = timer - 1
      BY <1>1, <2>2 DEF ClockTick
    <3>2. event \in Tick
      BY <3>1 DEF TypeOK
    <3>3. TickSub(tick, event) <= ControlTick - timer + EventJitter
      BY <3>1 DEF EventIsRecent
    <3>4. TickSub(tick', event) <= TickSub(tick, event) + 1
      BY <2>1, <3>2, TickSubOfAdd
    <3>5. TickSub(tick', event) \in Int /\ TickSub(tick, event) \in Int
      BY <2>1, <3>2, TickModulusAssumption DEF Tick, TickSub, TickAdd
    <3> QED
      BY <2>1, <3>1, <3>3, <3>4, <3>5
  <2>3. CASE ~(timer > 1)
    <3>1. PICK early \in 0 .. EventJitter : event' = TickSub(tick', early)
      BY <1>1, <2>3 DEF ClockTick
    <3>2. timer' = ControlTick
      BY <1>1, <2>3 DEF ClockTick
    <3>3. tick' \in Tick /\ early \in 0 .. TickModulus - 1
      BY <2>1, TickAddType, TickModulusAssumption
    <3>4. TickSub(tick', event') = early
      BY <3>1, <3>3, TickSubOfSub
    <3> QED
      BY <2>1, <3>2, <3>4 DEF EventIsRecent
  <2> QED
    BY <2>2, <2>3
<1>2. CASE event' = NoEvent
  BY <1>2 DEF EventIsRecent
<1>3. CASE UNCHANGED <<tick, timer, event>>
  BY <1>3 DEF EventIsRecent
<1>4. CASE \E p \in OpenRequests(tick) : Open(p)
  BY <1>3, <1>4 DEF Open, environment
<1>5. CASE \E b \in BatchRequests(tick, horizon, queue) :
              AppendBatch(b) \/ SpliceBatch(b)
  BY <1>3, <1>5 DEF AppendBatch, SpliceBatch, Enqueue, environment
<1>6. CASE ControlStart
  BY <1>3, <1>6 DEF ControlStart, environment
<1>7. CASE \E j \in Joints, error \in FeedbackErrors : CheckJointFeedback(j, error)
  BY <1>3, <1>7 DEF CheckJointFeedback, environment
<1>8. CASE ControlStep \/ Reset
  BY <1>2, <1>8 DEF ControlStep, TakeEvent, Reset
<1>9. CASE UNCHANGED vars
  BY <1>3, <1>9 DEF vars
<1> QED
  BY <1>1, <1>4, <1>5, <1>6, <1>7, <1>8, <1>9 DEF Next

\* A running stream changes its output only in a step with fresh commands.
LEMMA OutputIsStepped ==
    ASSUME [Next]_vars, state' = RUNNING, outputValid', output' # output
    PROVE  event # NoEvent /\ ~CommandStale(event)
<1>1. ControlStep
  BY DEF Next, ClockTick, Open, AppendBatch, SpliceBatch, Enqueue, ControlStart, Start,
         CheckJointFeedback, Reset, vars, RUNNING, CLOSED
<1>2. event # NoEvent /\ Step(event)
  BY <1>1 DEF ControlStep, TakeEvent
<1>3. ~CommandStale(event)
  BY <1>2 DEF Step, StepRewound, StepCommandTimeout, StepUnderflow, StepKeep,
              StepMissed, StepApply, StepOutOfSpan, StepInterpolate, Terminate,
              RUNNING, HOLD
<1> QED
  BY <1>2, <1>3

LEMMA SpecEventIsRecent == Spec => []EventIsRecent
<1>1. Init => EventIsRecent
  BY DEF Init, EventIsRecent
<1>2. TypeOK /\ EventIsRecent /\ [Next]_vars => EventIsRecent'
  BY NextEventIsRecent
<1> QED
  BY <1>1, <1>2, TypeCorrect, PTL DEF Spec

\* An open stream follows no command older, by the main loop's clock, than the
\* command timeout, one control tick and the jitter of the control event.
THEOREM OpenStreamsAreFresh == Spec => OpenStreamIsFresh
<1>1. TypeOK /\ EventIsRecent /\ [Next]_vars =>
        [state' = RUNNING /\ horizon = 0 /\ outputValid' /\ output' # output
           => TickSub(tick, lastCommand)
                 < policy.commandTimeout + ControlTick + EventJitter]_vars
  <2> SUFFICES ASSUME TypeOK, EventIsRecent, [Next]_vars,
                      state' = RUNNING, horizon = 0, outputValid', output' # output
               PROVE  TickSub(tick, lastCommand)
                         < policy.commandTimeout + ControlTick + EventJitter
    OBVIOUS
  <2>1. event # NoEvent /\ ~CommandStale(event)
    BY OutputIsStepped
  <2>2. /\ tick \in Tick /\ event \in Tick /\ lastCommand \in Tick
        /\ timer \in 1 .. ControlTick /\ policy.commandTimeout \in Nat
    BY <2>1 DEF TypeOK, Policy
  <2>3. TickSub(tick, event) <= ControlTick - timer + EventJitter
    BY <2>1 DEF EventIsRecent
  <2>4. TickSub(tick, lastCommand)
           <= TickSub(tick, event) + TickSub(event, lastCommand)
    BY <2>2, TickTriangle
  <2>5. /\ TickSub(tick, lastCommand) \in Tick /\ TickSub(tick, event) \in Tick
        /\ TickSub(event, lastCommand) \in Tick
    BY <2>2, TickSubType
  <2>6. ControlTick \in Nat /\ EventJitter \in Nat
    BY ContractAssumption, ExecutorAssumption
  <2>7. TickSub(event, lastCommand) <= policy.commandTimeout
    BY <2>1, <2>2, <2>5 DEF CommandStale, Tick
  <2> QED
    BY <2>2, <2>3, <2>4, <2>5, <2>6, <2>7 DEF Tick
<1> QED
  BY <1>1, TypeCorrect, SpecEventIsRecent, PTL DEF Spec, OpenStreamIsFresh

-----------------------------------------------------------------------------
(* The timeline: where a running stream stands between two control events.   *)
(* Ages are distances from StartTick.  Within half the range of a tick       *)
(* (24.8 days in the program) they order ticks as the ring does, also across *)
(* the wrap.                                                                 *)

Age(t) == TickSub(t, StartTick)

\* The ticks of the run, and what may be queued at its end, lie within half
\* the range of a tick.
ShortRun ==
    2 * (RunLength + HardCaps.maximumLead + ControlTick) < TickModulus

\* What the resident host sends (bimanual_stream_adapter.py): no sample lies
\* beyond the last one of its batch, and a splice begins whole control ticks
\* from the tail it replaces.
Fits(b) ==
    /\ \A i \in 1 .. Len(b.samples) :
          TickSub(b.samples[i].tick, tick) <= TickSub(LastTick(b), tick)
    /\ b.kind = "SPLICE" /\ queue # <<>> =>
          TickSub(LastSample.tick, b.spliceAt) % ControlTick = 0

HostFits == \A b \in BatchRequests(tick, horizon, queue) : Fits(b)

\* A number of whole control ticks.
Whole(n) == n % ControlTick = 0

\* The age of the last control event.
Fired == Age(tick) - (ControlTick - timer)

\* The clock and its event.
ClockInv ==
    /\ Age(tick) <= RunLength
    /\ Fired >= 0
    /\ event # NoEvent => Age(event) = Fired

\* The queue ends within the longest lead, and its samples lie whole control
\* ticks apart, whichever batches they came in.
GridInv ==
    /\ policy.maximumLead <= HardCaps.maximumLead
    /\ \A i \in 1 .. Len(queue) :
          Age(queue[i].tick) <= RunLength + HardCaps.maximumLead
    /\ \A i, k \in 1 .. Len(queue) :
          Whole(Age(queue[k].tick) - Age(queue[i].tick))

\* A running stream has taken the last control event or has it to take; the
\* event is on the stream's control grid, and the queue is ahead of the step.
StepInv ==
    state = RUNNING =>
        /\ Age(controlEpoch) <= Age(lastStep)
        /\ Age(anchor.tick) <= Age(lastStep)
        /\ Fired \in {Age(lastStep), Age(lastStep) + ControlTick}
        /\ event = NoEvent => Fired = Age(lastStep)
        /\ Whole(Fired - Age(controlEpoch))
        /\ queue # <<>> => Age(FirstSample.tick) > Age(lastStep)

TimelineInv ==
    /\ ClockInv /\ GridInv /\ StepInv
    /\ reason \notin {"INVALID_TIMELINE", "MISSED_APPLY_TICK"}

\* An age is less than a turn of the ring.
LEMMA AgeType ==
    ASSUME NEW t \in Tick
    PROVE  Age(t) \in Nat /\ Age(t) < TickModulus
  BY TickModulusAssumption, ExecutorAssumption DEF Age, Tick, TickSub

\* Within half the range, the ring orders and measures ticks by their ages.
LEMMA AgeOrder ==
    ASSUME NEW a \in Tick, NEW b \in Tick,
           2 * Age(a) < TickModulus, 2 * Age(b) < TickModulus
    PROVE  /\ TickAfter(a, b) <=> Age(a) > Age(b)
           /\ Age(a) >= Age(b) => TickSub(a, b) = Age(a) - Age(b)
  BY TickModulusAssumption, ExecutorAssumption DEF Age, Tick, TickSub, TickAfter

\* A tick ahead of another one is older by the distance, as far as it is known
\* not to go round the ring.
LEMMA AgeAhead ==
    ASSUME NEW a \in Tick, NEW b \in Tick, Age(b) + TickSub(a, b) < TickModulus
    PROVE  Age(a) = Age(b) + TickSub(a, b)
  BY TickModulusAssumption, ExecutorAssumption DEF Age, Tick, TickSub

\* Adding to a tick adds to its age.
LEMMA AgeOfAdd ==
    ASSUME NEW a \in Tick, NEW d \in Nat, Age(a) + d < TickModulus
    PROVE  TickAdd(a, d) \in Tick /\ Age(TickAdd(a, d)) = Age(a) + d
  BY TickModulusAssumption, ExecutorAssumption DEF Age, Tick, TickSub, TickAdd

-----------------------------------------------------------------------------
(* Whole control ticks.                                                      *)

\* The remainder of C's % is zero for the multiples of the control tick.
LEMMA WholeMultiple ==
    ASSUME NEW n \in Int
    PROVE  Whole(n) <=> \E k \in Int : n = k * ControlTick
<1>1. ControlTick \in Nat \ {0}
  BY ContractAssumption
<1>2. ASSUME n % ControlTick = 0 PROVE \E k \in Int : n = k * ControlTick
  <2>1. n = ControlTick * (n \div ControlTick) /\ n \div ControlTick \in Int
    BY <1>1, <1>2
  <2> QED BY <1>1, <2>1
<1>3. ASSUME NEW k \in Int, n = k * ControlTick PROVE n % ControlTick = 0
  BY <1>1, <1>3
<1> QED BY <1>2, <1>3 DEF Whole

\* Sums and differences of whole control ticks.
LEMMA WholeSum ==
    ASSUME NEW m \in Int, NEW n \in Int, Whole(m), Whole(n)
    PROVE  Whole(m + n) /\ Whole(m - n) /\ Whole(-n)
<1>1. ControlTick \in Int
  BY ContractAssumption
<1>2. PICK k \in Int : m = k * ControlTick
  BY WholeMultiple
<1>3. PICK l \in Int : n = l * ControlTick
  BY WholeMultiple
<1>4. /\ m + n = (k + l) * ControlTick
      /\ m - n = (k - l) * ControlTick
      /\ -n = (-l) * ControlTick
  BY <1>1, <1>2, <1>3
<1>5. k + l \in Int /\ k - l \in Int /\ -l \in Int
  OBVIOUS
<1> QED
  BY <1>4, <1>5, WholeMultiple

\* None and one are whole.
LEMMA WholeZero == Whole(0) /\ Whole(ControlTick)
  BY ContractAssumption DEF Whole

\* Two different multiples of the control tick are a control tick apart.
LEMMA WholePositive ==
    ASSUME NEW n \in Int, Whole(n), n > 0
    PROVE  n >= ControlTick
<1>1. ControlTick \in Nat \ {0}
  BY ContractAssumption
<1>2. PICK k \in Int : n = k * ControlTick
  BY WholeMultiple
<1>3. k > 0
  <2> SUFFICES ASSUME k <= 0 PROVE FALSE
    BY <1>2
  <2>1. k * ControlTick <= 0
    BY <1>1
  <2> QED BY <1>2, <2>1
<1>4. k * ControlTick >= ControlTick
  BY <1>1, <1>3
<1> QED
  BY <1>2, <1>4

\* Numbers that follow one another by whole control ticks differ by whole
\* control ticks.
LEMMA WholeChain ==
    ASSUME NEW n \in Nat, NEW f,
           \A i \in 1 .. n : f[i] \in Int,
           \A i \in 1 .. n - 1 : Whole(f[i + 1] - f[i])
    PROVE  \A i, k \in 1 .. n : Whole(f[k] - f[i])
<1>1. ASSUME NEW k \in 1 .. n PROVE Whole(f[k] - f[1])
  <2> SUFFICES ASSUME ~Whole(f[k] - f[1]) PROVE FALSE
    OBVIOUS
  <2> DEFINE T == {i \in 1 .. n : ~Whole(f[i] - f[1])}
  <2>1. k \in T /\ T \subseteq Nat /\ T # {}
    OBVIOUS
  <2> HIDE DEF T
  <2>2. PICK i \in T : \A m \in T : ~(<<m, i>> \in OpToRel(<, Nat))
    BY <2>1, NatLessThanWellFounded, WFMin
  <2>3. i \in 1 .. n /\ ~Whole(f[i] - f[1])
    BY DEF T
  <2>4. i # 1
    <3>1. f[1] \in Int /\ f[1] - f[1] = 0
      BY <2>3
    <3> QED
      BY <2>3, <3>1, WholeZero
  <2>5. /\ i - 1 \in 1 .. n - 1 /\ i - 1 \in 1 .. n /\ (i - 1) + 1 = i
        /\ i - 1 \in Nat /\ i \in Nat /\ i - 1 < i /\ 1 \in 1 .. n
    BY <2>3, <2>4
  <2>6. <<i - 1, i>> \in OpToRel(<, Nat)
    BY <2>5 DEF OpToRel
  <2>7. Whole(f[i - 1] - f[1])
    BY <2>2, <2>5, <2>6 DEF T
  <2>8. Whole(f[i] - f[i - 1])
    BY <2>5
  <2>9. /\ f[i] \in Int /\ f[i - 1] \in Int /\ f[1] \in Int
    BY <2>3, <2>5
  <2>10. /\ f[i] - f[i - 1] \in Int /\ f[i - 1] - f[1] \in Int
         /\ (f[i] - f[i - 1]) + (f[i - 1] - f[1]) = f[i] - f[1]
    BY <2>9
  <2> QED
    BY <2>3, <2>7, <2>8, <2>10, WholeSum
<1> SUFFICES ASSUME NEW i \in 1 .. n, NEW k \in 1 .. n PROVE Whole(f[k] - f[i])
  OBVIOUS
<1>2. Whole(f[k] - f[1]) /\ Whole(f[i] - f[1])
  BY <1>1
<1>3. f[k] \in Int /\ f[i] \in Int /\ f[1] \in Int
  OBVIOUS
<1>4. /\ f[k] - f[1] \in Int /\ f[i] - f[1] \in Int
      /\ (f[k] - f[1]) - (f[i] - f[1]) = f[k] - f[i]
  BY <1>3
<1> QED
  BY <1>2, <1>4, WholeSum

\* A quotient rounded up.
LEMMA RoundedUp ==
    ASSUME NEW n \in Nat, NEW d \in Nat \ {0}
    PROVE  LET c == (n + d - 1) \div d IN
           /\ c \in Nat /\ c * d >= n /\ c * d < n + d
<1> DEFINE m == n + d - 1
           c == m \div d
<1>1. m \in Nat
  OBVIOUS
<1>2. c \in Int /\ d * c <= m /\ m < d * c + d
  <2> HIDE DEF m
  <2> QED BY <1>1
<1>3. m = n + d - 1
  OBVIOUS
<1> HIDE DEF m, c
<1>4. d * c = c * d
  BY <1>2
<1>5. c >= 0
  <2> SUFFICES ASSUME c <= -1 PROVE FALSE
    BY <1>2
  <2>1. d * c <= -d
    BY <1>2
  <2> QED BY <1>1, <1>2, <2>1
<1>6. c \in Nat /\ c * d >= n /\ c * d < n + d
  BY <1>1, <1>2, <1>3, <1>4, <1>5
<1> QED
  BY <1>6 DEF c, m

-----------------------------------------------------------------------------
(* The control tick of a sample.                                             *)

\* The constants are numbers.
LEMMA BoundTypes ==
    /\ RunLength \in Nat /\ HardCaps.maximumLead \in Nat
    /\ ControlTick \in Nat \ {0} /\ TickModulus \in Nat
  BY TickModulusAssumption, ContractAssumption, ExecutorAssumption DEF HardCap

\* Ages that occur in a short run are within half the range of a tick.
LEMMA HalfRange ==
    ASSUME ShortRun
    PROVE  \A a \in Nat : a <= RunLength + HardCaps.maximumLead => 2 * a < TickModulus
  BY BoundTypes DEF ShortRun

\* first_control_tick_at_or_after rounds up to the grid of the control epoch.
LEMMA ControlTickOf ==
    ASSUME ShortRun, NEW t \in Tick, controlEpoch \in Tick,
           Age(controlEpoch) <= Age(t),
           Age(t) <= RunLength + HardCaps.maximumLead
    PROVE  LET f == FirstControlTickAtOrAfter(t) IN
           /\ f \in Tick
           /\ Age(f) >= Age(t) /\ Age(f) < Age(t) + ControlTick
           /\ Whole(Age(f) - Age(controlEpoch))
<1> DEFINE e == Age(t) - Age(controlEpoch)
           c == (e + ControlTick - 1) \div ControlTick
<1>1. /\ Age(t) \in Nat /\ Age(controlEpoch) \in Nat
  BY AgeType
<1>2. 2 * Age(t) < TickModulus /\ 2 * Age(controlEpoch) < TickModulus
  BY <1>1, BoundTypes, HalfRange
<1>3. TickSub(t, controlEpoch) = e
  BY <1>2, AgeOrder
<1>4. e \in Nat
  BY <1>1
<1>5. TickAdd(e, ControlTick - 1) = e + ControlTick - 1
  BY <1>1, BoundTypes DEF TickAdd, ShortRun
<1>6. FirstControlTickAtOrAfter(t) = TickAdd(controlEpoch, c * ControlTick)
  BY <1>3, <1>5 DEF FirstControlTickAtOrAfter
<1>7. c \in Nat /\ c * ControlTick >= e /\ c * ControlTick < e + ControlTick
  <2> HIDE DEF e
  <2> QED BY <1>4, BoundTypes, RoundedUp
<1> DEFINE w == c * ControlTick
<1>8. w \in Nat /\ w >= e /\ w < e + ControlTick
  <2> HIDE DEF c
  <2> QED BY <1>4, <1>7, BoundTypes
<1>9. Whole(w)
  <2> HIDE DEF c
  <2> QED BY <1>7, <1>8, WholeMultiple
<1> HIDE DEF w, c
<1>10. e = Age(t) - Age(controlEpoch)
  OBVIOUS
<1> HIDE DEF e
<1>11. Age(controlEpoch) + w < TickModulus
  BY <1>1, <1>8, <1>10, BoundTypes DEF ShortRun
<1>12. /\ TickAdd(controlEpoch, w) \in Tick
       /\ Age(TickAdd(controlEpoch, w)) = Age(controlEpoch) + w
  BY <1>8, <1>11, AgeOfAdd
<1>13. FirstControlTickAtOrAfter(t) = TickAdd(controlEpoch, w)
  BY <1>6 DEF w
<1>14. (Age(controlEpoch) + w) - Age(controlEpoch) = w
  BY <1>1, <1>8
<1> QED
  BY <1>1, <1>8, <1>9, <1>10, <1>12, <1>13, <1>14, BoundTypes

-----------------------------------------------------------------------------
(* The timeline is an invariant.                                             *)

\* The samples of a fitting batch are between the tick and the longest lead
\* after it, and whole control ticks apart.
LEMMA BatchOnGrid ==
    ASSUME ShortRun, TypeOK, TimelineInv, NEW b, Admissible(b), Fits(b)
    PROVE  /\ b.samples \in Seq(Setpoint) /\ Len(b.samples) \in Nat \ {0}
           /\ \A i \in 1 .. Len(b.samples) :
                 Age(b.samples[i].tick) <= RunLength + HardCaps.maximumLead
           /\ \A i, k \in 1 .. Len(b.samples) :
                 Whole(Age(b.samples[k].tick) - Age(b.samples[i].tick))
<1> DEFINE s == b.samples
<1>1. s \in Seq(Setpoint) /\ Len(s) \in Nat \ {0}
  BY ContractAssumption DEF Admissible, BatchDecodes, Batch
<1>2. TickSub(LastTick(b), tick) <= policy.maximumLead
  BY DEF Admissible, WindowValid
<1>3. policy.maximumLead <= HardCaps.maximumLead /\ policy.maximumLead \in Nat
  BY DEF TimelineInv, GridInv, TypeOK, Policy
<1>4. \A i \in 1 .. Len(s) : TickSub(s[i].tick, tick) <= TickSub(LastTick(b), tick)
  BY DEF Fits
<1>5. \A i \in 1 .. Len(s) - 1 :
         /\ TickAfter(s[i + 1].tick, s[i].tick)
         /\ TickSub(s[i + 1].tick, s[i].tick) % ControlTick = 0
  BY DEF Admissible, BatchDecodes, SamplesContinuous
<1>6. LastTick(b) = s[Len(s)].tick
  BY DEF LastTick
<1> HIDE DEF s
<1>7. \A i \in 1 .. Len(s) : s[i].tick \in Tick
  <2>1. \A i \in 1 .. Len(s) : s[i] \in Setpoint
    BY <1>1
  <2>2. \A x \in Setpoint : x.tick \in Tick
    BY DEF Setpoint
  <2> QED
    BY <2>1, <2>2
<1>8. tick \in Tick /\ Age(tick) \in Nat /\ Age(tick) <= RunLength
  BY AgeType DEF TypeOK, TimelineInv, ClockInv
<1>9. ASSUME NEW i \in 1 .. Len(s)
      PROVE  Age(s[i].tick) \in Nat /\ Age(s[i].tick) <= RunLength + HardCaps.maximumLead
  <2>1. s[i].tick \in Tick /\ s[Len(s)].tick \in Tick
    <3>1. Len(s) \in 1 .. Len(s)
      BY <1>1
    <3> QED
      BY <1>7, <3>1
  <2>2. TickSub(s[i].tick, tick) \in Nat /\ TickSub(LastTick(b), tick) \in Nat
    <3>1. LastTick(b) \in Tick
      BY <1>6, <2>1
    <3>2. TickSub(s[i].tick, tick) \in Tick /\ TickSub(LastTick(b), tick) \in Tick
      BY <1>8, <2>1, <3>1, TickSubType
    <3>3. \A d \in Tick : d \in Nat
      BY TickModulusAssumption DEF Tick
    <3> QED
      BY <3>2, <3>3
  <2>3. TickSub(s[i].tick, tick) <= HardCaps.maximumLead
    BY <1>2, <1>3, <1>4, <2>2, BoundTypes
  <2>4. Age(tick) + TickSub(s[i].tick, tick) < TickModulus
    BY <1>8, <2>2, <2>3, BoundTypes DEF ShortRun
  <2>5. Age(s[i].tick) = Age(tick) + TickSub(s[i].tick, tick)
    BY <1>8, <2>1, <2>4, AgeAhead
  <2> QED
    BY <1>8, <2>2, <2>3, <2>5, BoundTypes
<1> DEFINE f == [i \in 1 .. Len(s) |-> Age(s[i].tick)]
<1>10. ASSUME NEW i \in 1 .. Len(s) - 1 PROVE Whole(f[i + 1] - f[i])
  <2>1. i \in 1 .. Len(s) /\ i + 1 \in 1 .. Len(s)
    BY <1>1
  <2>2. s[i].tick \in Tick /\ s[i + 1].tick \in Tick
    BY <1>7, <2>1
  <2>3. /\ Age(s[i].tick) \in Nat /\ Age(s[i].tick) <= RunLength + HardCaps.maximumLead
        /\ Age(s[i + 1].tick) \in Nat
        /\ Age(s[i + 1].tick) <= RunLength + HardCaps.maximumLead
    BY <1>9, <2>1
  <2>4. 2 * Age(s[i].tick) < TickModulus /\ 2 * Age(s[i + 1].tick) < TickModulus
    BY <2>3, BoundTypes, HalfRange
  <2>5. TickSub(s[i + 1].tick, s[i].tick) = Age(s[i + 1].tick) - Age(s[i].tick)
    BY <1>5, <2>2, <2>3, <2>4, AgeOrder
  <2>6. f[i + 1] = Age(s[i + 1].tick) /\ f[i] = Age(s[i].tick)
    BY <2>1
  <2> QED
    BY <1>5, <2>5, <2>6 DEF Whole
<1>11. \A i \in 1 .. Len(s) : f[i] = Age(s[i].tick) /\ f[i] \in Int
  BY <1>9
<1> HIDE DEF f
<1>12. \A i, k \in 1 .. Len(s) : Whole(f[k] - f[i])
  <2>1. Len(s) \in Nat /\ \A i \in 1 .. Len(s) - 1 : Whole(f[i + 1] - f[i])
    BY <1>1, <1>10
  <2> QED
    BY <1>11, <2>1, WholeChain
<1> QED
  BY <1>1, <1>9, <1>11, <1>12 DEF s

\* So is its first sample.
LEMMA FirstOnGrid ==
    ASSUME ShortRun, TypeOK, TimelineInv, NEW b, Admissible(b), Fits(b)
    PROVE  /\ FirstTick(b) \in Tick /\ Age(FirstTick(b)) \in Nat
           /\ Age(FirstTick(b)) <= RunLength + HardCaps.maximumLead
<1> DEFINE s == b.samples
<1>1. /\ s \in Seq(Setpoint) /\ Len(s) \in Nat \ {0}
      /\ \A i \in 1 .. Len(s) : Age(s[i].tick) <= RunLength + HardCaps.maximumLead
  BY BatchOnGrid
<1>2. FirstTick(b) = s[1].tick
  BY DEF FirstTick
<1> HIDE DEF s
<1>3. 1 \in 1 .. Len(s) /\ s[1] \in Setpoint
  BY <1>1
<1>4. s[1].tick \in Tick
  BY <1>3 DEF Setpoint
<1> QED
  BY <1>1, <1>2, <1>3, <1>4, AgeType

\* A fitting batch that continues the grid of what it keeps of the queue keeps
\* the timeline.
LEMMA EnqueueTimeline ==
    ASSUME ShortRun, TypeOK, TimelineInv, NEW b, NEW n \in 0 .. Len(queue),
           Admissible(b), Enqueue(b, n), Fits(b), TickAfter(FirstTick(b), tick),
           n > 0 => Whole(Age(FirstTick(b)) - Age(queue[n].tick))
    PROVE  TimelineInv'
<1> DEFINE s == b.samples
           bound == RunLength + HardCaps.maximumLead
<1>1. /\ s \in Seq(Setpoint) /\ Len(s) \in Nat \ {0}
      /\ \A i \in 1 .. Len(s) : Age(s[i].tick) <= bound
      /\ \A i, k \in 1 .. Len(s) : Whole(Age(s[k].tick) - Age(s[i].tick))
  BY BatchOnGrid
<1>2. /\ queue' \in Seq(Setpoint) /\ queue' # <<>>
      /\ Len(queue') = n + Len(s)
      /\ \A i \in 1 .. n : queue'[i] = queue[i]
      /\ \A i \in n + 1 .. n + Len(s) : queue'[i] = s[i - n]
  BY EnqueuedSamples
<1>3. /\ tick' = tick /\ timer' = timer /\ event' = event /\ state' = state
      /\ reason' = reason /\ policy' = policy /\ anchor' = anchor
      /\ controlEpoch' = controlEpoch /\ lastStep' = lastStep
  BY DEF Enqueue, environment, timeline
<1>4. FirstTick(b) = s[1].tick
  BY DEF FirstTick
<1>5. ASSUME NEW t \in Seq(Setpoint), NEW i \in 1 .. Len(t)
      PROVE  t[i].tick \in Tick /\ Age(t[i].tick) \in Nat
  <2>1. t[i] \in Setpoint
    BY <1>5
  <2>2. t[i].tick \in Tick
    BY <2>1 DEF Setpoint
  <2> QED
    BY <2>2, AgeType
<1>6. queue \in Seq(Setpoint) /\ Len(queue) \in Nat /\ n \in Nat /\ n <= Len(queue)
  BY DEF TypeOK
<1> HIDE DEF s
<1>7. \A i \in n + 1 .. n + Len(s) : i - n \in 1 .. Len(s)
  BY <1>1, <1>6
<1>8. \A i \in 1 .. n + Len(s) : i \in 1 .. n \/ i \in n + 1 .. n + Len(s)
  BY <1>1, <1>6
<1>9. \A i \in 1 .. n : i \in 1 .. Len(queue)
  BY <1>6
<1>10. ClockInv' /\ reason' \notin {"INVALID_TIMELINE", "MISSED_APPLY_TICK"}
  BY <1>3 DEF TimelineInv, ClockInv, Fired
<1>11. \A i \in 1 .. Len(queue') : Age(queue'[i].tick) <= bound
  BY <1>1, <1>2, <1>7, <1>8, <1>9 DEF TimelineInv, GridInv
\* the samples kept and the first new one are on the same grid
<1>12. ASSUME NEW i \in 1 .. n PROVE Whole(Age(s[1].tick) - Age(queue[i].tick))
  <2>1. n \in 1 .. Len(queue) /\ i \in 1 .. Len(queue) /\ n > 0 /\ 1 \in 1 .. Len(s)
    BY <1>1, <1>6
  <2>2. Whole(Age(s[1].tick) - Age(queue[n].tick))
    BY <1>4, <2>1
  <2>3. Whole(Age(queue[n].tick) - Age(queue[i].tick))
    BY <2>1 DEF TimelineInv, GridInv
  <2>4. /\ Age(s[1].tick) \in Nat /\ Age(queue[n].tick) \in Nat
        /\ Age(queue[i].tick) \in Nat
    BY <1>1, <1>5, <1>6, <2>1
  <2> DEFINE x == Age(s[1].tick) - Age(queue[n].tick)
             y == Age(queue[n].tick) - Age(queue[i].tick)
  <2>5. x \in Int /\ y \in Int /\ x + y = Age(s[1].tick) - Age(queue[i].tick)
    BY <2>4
  <2>6. Whole(x) /\ Whole(y)
    BY <2>2, <2>3
  <2> HIDE DEF x, y
  <2>7. Whole(x + y)
    BY <2>5, <2>6, WholeSum
  <2> QED
    BY <2>5, <2>7
<1>13. ASSUME NEW i \in 1 .. n, NEW k \in 1 .. Len(s)
       PROVE  /\ Whole(Age(s[k].tick) - Age(queue[i].tick))
              /\ Whole(Age(queue[i].tick) - Age(s[k].tick))
  <2>1. 1 \in 1 .. Len(s) /\ i \in 1 .. Len(queue)
    BY <1>1, <1>9
  <2> DEFINE x == Age(s[k].tick) - Age(s[1].tick)
             y == Age(s[1].tick) - Age(queue[i].tick)
  <2>2. /\ Age(s[1].tick) \in Nat /\ Age(s[k].tick) \in Nat
        /\ Age(queue[i].tick) \in Nat
    BY <1>1, <1>5, <1>6, <2>1
  <2>3. /\ x \in Int /\ y \in Int
        /\ x + y = Age(s[k].tick) - Age(queue[i].tick)
        /\ -(x + y) = Age(queue[i].tick) - Age(s[k].tick)
    BY <2>2, SMTT(20)
  <2>4. Whole(x) /\ Whole(y)
    BY <1>1, <1>12, <2>1
  <2> HIDE DEF x, y
  <2>5. Whole(x + y) /\ x + y \in Int
    <3>1. Whole(x + y)
      BY <2>3, <2>4, WholeSum
    <3> QED
      BY <2>3, <3>1
  <2>6. Whole(-(x + y))
    BY <2>5, WholeSum
  <2> QED
    BY <2>3, <2>5, <2>6
<1>14. ASSUME NEW i \in 1 .. Len(queue'), NEW k \in 1 .. Len(queue')
       PROVE  Whole(Age(queue'[k].tick) - Age(queue'[i].tick))
  <2>1. /\ i \in 1 .. n \/ i \in n + 1 .. n + Len(s)
        /\ k \in 1 .. n \/ k \in n + 1 .. n + Len(s)
    BY <1>2, <1>8
  <2>2. CASE i \in 1 .. n /\ k \in 1 .. n
    BY <1>2, <1>9, <2>2 DEF TimelineInv, GridInv
  <2>3. CASE i \in 1 .. n /\ k \in n + 1 .. n + Len(s)
    BY <1>2, <1>7, <1>13, <2>3
  <2>4. CASE i \in n + 1 .. n + Len(s) /\ k \in 1 .. n
    BY <1>2, <1>7, <1>13, <2>4
  <2>5. CASE i \in n + 1 .. n + Len(s) /\ k \in n + 1 .. n + Len(s)
    BY <1>1, <1>2, <1>7, <2>5
  <2> QED
    BY <2>1, <2>2, <2>3, <2>4, <2>5
<1>15. GridInv'
  BY <1>3, <1>11, <1>14 DEF TimelineInv, GridInv
<1>16. ASSUME state = RUNNING PROVE Age(queue'[1].tick) > Age(lastStep)
  <2>1. CASE n > 0
    <3>1. queue'[1] = queue[1] /\ queue # <<>>
      BY <1>2, <1>6, <2>1
    <3> QED
      BY <1>16, <3>1 DEF TimelineInv, StepInv, FirstSample
  <2>2. CASE n = 0
    <3>1. queue'[1] = s[1] /\ 1 \in 1 .. Len(s)
      <4>1. 1 \in n + 1 .. n + Len(s) /\ 1 - n = 1
        BY <1>1, <2>2
      <4> QED
        BY <1>1, <1>2, <4>1
    <3>2. s[1].tick \in Tick /\ Age(s[1].tick) \in Nat /\ Age(s[1].tick) <= bound
      BY <1>1, <1>5, <3>1
    <3>3. /\ tick \in Tick /\ lastStep \in Tick /\ timer \in 1 .. ControlTick
          /\ Age(tick) \in Nat /\ Age(tick) <= RunLength /\ Age(lastStep) \in Nat
      BY AgeType DEF TypeOK, TimelineInv, ClockInv
    <3>4. Age(s[1].tick) > Age(tick)
      <4>1. 2 * Age(s[1].tick) < TickModulus /\ 2 * Age(tick) < TickModulus
        BY <3>2, <3>3, BoundTypes, HalfRange
      <4>2. TickAfter(s[1].tick, tick)
        BY <1>4
      <4> QED
        BY <3>2, <3>3, <4>1, <4>2, AgeOrder
    <3>5. Fired \in {Age(lastStep), Age(lastStep) + ControlTick}
      BY <1>16 DEF TimelineInv, StepInv
    <3> QED
      BY <3>1, <3>2, <3>3, <3>4, <3>5, BoundTypes DEF Fired
  <2> QED
    BY <1>6, <2>1, <2>2
<1>17. StepInv'
  BY <1>3, <1>16 DEF TimelineInv, StepInv, FirstSample, Fired
<1> QED
  BY <1>10, <1>15, <1>17 DEF TimelineInv

\* An APPEND continues the grid of the tail it is checked against.
LEMMA AppendTimeline ==
    ASSUME ShortRun, TypeOK, TimelineInv, NEW b, AppendBatch(b), Fits(b)
    PROVE  TimelineInv'
<1>1. Admissible(b) /\ Enqueue(b, Len(queue)) /\ TickAfter(FirstTick(b), tick)
  BY DEF AppendBatch, AppendValid
<1>2. Len(queue) \in Nat /\ queue \in Seq(Setpoint)
  BY DEF TypeOK
<1>3. ASSUME Len(queue) > 0
      PROVE  Whole(Age(FirstTick(b)) - Age(queue[Len(queue)].tick))
  <2> DEFINE last == queue[Len(queue)].tick
             bound == RunLength + HardCaps.maximumLead
  <2>1. Len(queue) \in 1 .. Len(queue) /\ queue # <<>>
    BY <1>2, <1>3
  <2>2. last \in Tick /\ Age(last) \in Nat /\ Age(last) <= bound
    <3>1. queue[Len(queue)] \in Setpoint
      BY <1>2, <2>1
    <3>2. last \in Tick
      BY <3>1 DEF Setpoint
    <3> QED
      BY <2>1, <3>2, AgeType DEF TimelineInv, GridInv
  <2>3. /\ FirstTick(b) \in Tick /\ Age(FirstTick(b)) \in Nat
        /\ Age(FirstTick(b)) <= bound
    BY <1>1, FirstOnGrid
  <2>4. TickAfter(FirstTick(b), last)
    BY <2>1 DEF AppendBatch, AppendValid, LastSample
  <2>5. TickSub(FirstTick(b), last) % ControlTick = 0
    BY <1>3, <2>4 DEF AppendBatch, ContinuesTail, LastSample
  <2>6. 2 * Age(FirstTick(b)) < TickModulus /\ 2 * Age(last) < TickModulus
    BY <2>2, <2>3, BoundTypes, HalfRange
  <2>7. TickSub(FirstTick(b), last) = Age(FirstTick(b)) - Age(last)
    <3> HIDE DEF last
    <3> QED
      BY <2>2, <2>3, <2>4, <2>6, AgeOrder
  <2> QED
    BY <2>5, <2>7 DEF Whole
<1> QED
  BY <1>1, <1>2, <1>3, EnqueueTimeline

\* A fitting SPLICE begins on the grid of the tail it replaces.
LEMMA SpliceTimeline ==
    ASSUME ShortRun, TypeOK, TimelineInv, NEW b, SpliceBatch(b), Fits(b)
    PROVE  TimelineInv'
<1>1. Admissible(b) /\ b.kind = "SPLICE"
  BY DEF SpliceBatch
<1>2. PICK i \in 1 .. Len(queue), n \in 0 .. Len(queue) :
         /\ SpliceValid(b, policy, tick, LastSample.tick,
                        PlannedPosition(b.spliceAt, i))
         /\ Enqueue(b, n)
  BY DEF SpliceBatch
<1>3. /\ TickAfter(FirstTick(b), tick)
      /\ FirstTick(b) = b.spliceAt
      /\ ~TickAfter(FirstTick(b), LastSample.tick)
  BY <1>2 DEF SpliceValid
<1>4. /\ Len(queue) \in 1 .. Len(queue) /\ Len(queue) \in Nat
      /\ queue # <<>> /\ queue \in Seq(Setpoint)
  BY <1>2 DEF TypeOK
<1> DEFINE last == LastSample.tick
           bound == RunLength + HardCaps.maximumLead
<1>5. ASSUME NEW k \in 1 .. Len(queue)
      PROVE  queue[k].tick \in Tick /\ Age(queue[k].tick) \in Nat
  <2>1. queue[k] \in Setpoint
    BY <1>4, <1>5
  <2>2. queue[k].tick \in Tick
    BY <2>1 DEF Setpoint
  <2> QED
    BY <2>2, AgeType
<1>6. last \in Tick /\ Age(last) \in Nat /\ Age(last) <= bound
  BY <1>4, <1>5 DEF TimelineInv, GridInv, LastSample
<1>7. /\ FirstTick(b) \in Tick /\ Age(FirstTick(b)) \in Nat
      /\ Age(FirstTick(b)) <= bound
  BY <1>1, FirstOnGrid
<1>8. TickSub(last, FirstTick(b)) % ControlTick = 0
  BY <1>1, <1>3, <1>4 DEF Fits
<1>9. Whole(Age(last) - Age(FirstTick(b)))
  <2>1. 2 * Age(FirstTick(b)) < TickModulus /\ 2 * Age(last) < TickModulus
    BY <1>6, <1>7, BoundTypes, HalfRange
  <2>2. ~TickAfter(FirstTick(b), last)
    BY <1>3
  <2> HIDE DEF last
  <2>3. TickSub(last, FirstTick(b)) = Age(last) - Age(FirstTick(b))
    BY <1>6, <1>7, <2>1, <2>2, AgeOrder
  <2> QED
    BY <1>8, <2>3 DEF Whole
<1>10. ASSUME n > 0 PROVE Whole(Age(FirstTick(b)) - Age(queue[n].tick))
  <2>1. n \in 1 .. Len(queue)
    BY <1>4, <1>10
  <2> DEFINE x == Age(last) - Age(queue[n].tick)
             y == Age(last) - Age(FirstTick(b))
  <2>2. Whole(x) /\ Whole(y)
    BY <1>4, <1>9, <2>1 DEF TimelineInv, GridInv, LastSample
  <2>3. /\ x \in Int /\ y \in Int
        /\ x - y = Age(FirstTick(b)) - Age(queue[n].tick)
    BY <1>5, <1>6, <1>7, <2>1
  <2> HIDE DEF x, y
  <2>4. Whole(x - y)
    BY <2>2, <2>3, WholeSum
  <2> QED
    BY <2>3, <2>4
<1> QED
  BY <1>1, <1>2, <1>3, <1>10, EnqueueTimeline

\* Time passes; TIM6 reads the tick it fires at.
LEMMA ClockTimeline ==
    ASSUME EventJitter = 0, ShortRun, TypeOK, TimelineInv, ClockTick
    PROVE  TimelineInv'
<1>1. /\ tick \in Tick /\ timer \in 1 .. ControlTick /\ Age(tick) \in Nat
      /\ lastStep \in Tick /\ Age(lastStep) \in Nat
      /\ controlEpoch \in Tick /\ Age(controlEpoch) \in Nat
  BY AgeType DEF TypeOK
<1>2. /\ Age(tick) < RunLength /\ tick' = TickAdd(tick, 1)
      /\ state' = state /\ reason' = reason /\ policy' = policy /\ queue' = queue
      /\ anchor' = anchor /\ controlEpoch' = controlEpoch /\ lastStep' = lastStep
  BY DEF ClockTick, Age, session, timeline
<1>3. tick' \in Tick /\ Age(tick') = Age(tick) + 1
  <2>1. Age(tick) + 1 < TickModulus
    BY <1>1, <1>2, BoundTypes DEF ShortRun
  <2> QED
    BY <1>1, <1>2, <2>1, AgeOfAdd
<1>4. Age(tick)' = Age(tick') /\ Fired' = Age(tick') - (ControlTick - timer')
  BY DEF Fired, Age
<1>5. GridInv' /\ reason' \notin {"INVALID_TIMELINE", "MISSED_APPLY_TICK"}
  BY <1>2 DEF TimelineInv, GridInv
<1>6. CASE timer > 1
  <2>1. timer' = timer - 1 /\ event' = event
    BY <1>6 DEF ClockTick
  <2>2. Fired' = Fired
    BY <1>1, <1>3, <1>4, <2>1, BoundTypes DEF Fired
  <2>3. ClockInv'
    <3>1. Age(tick') <= RunLength
      BY <1>1, <1>2, <1>3, BoundTypes
    <3> QED
      BY <2>1, <2>2, <3>1 DEF TimelineInv, ClockInv
  <2>4. StepInv'
    BY <1>2, <2>1, <2>2 DEF TimelineInv, StepInv, FirstSample
  <2> QED
    BY <1>5, <2>3, <2>4 DEF TimelineInv
<1>7. CASE ~(timer > 1)
  <2>1. timer = 1 /\ timer' = ControlTick
    BY <1>1, <1>7, BoundTypes DEF ClockTick
  <2>2. event = NoEvent \/ state # RUNNING
    BY <1>7 DEF ClockTick
  <2>3. event' = tick'
    <3>1. PICK early \in 0 .. EventJitter : event' = TickSub(tick', early)
      BY <1>7 DEF ClockTick
    <3>2. early = 0
      BY <3>1
    <3>3. \A t \in Tick : TickSub(t, 0) = t
      BY TickModulusAssumption DEF TickSub, Tick
    <3> QED
      BY <1>3, <3>1, <3>2, <3>3
  <2>4. Fired' = Age(tick') /\ Fired' = Fired + ControlTick /\ Fired \in Int
    BY <1>1, <1>3, <1>4, <2>1, BoundTypes DEF Fired
  <2>5. ClockInv'
    <3>1. Age(tick') <= RunLength /\ Fired' >= 0
      BY <1>1, <1>2, <1>3, <2>4, BoundTypes
    <3>2. Age(event') = Fired'
      BY <2>3, <2>4
    <3> QED
      BY <3>1, <3>2 DEF ClockInv
  <2>6. StepInv'
    <3> SUFFICES ASSUME state = RUNNING PROVE StepInv'
      BY <1>2 DEF StepInv
    <3>1. /\ Age(controlEpoch) <= Age(lastStep) /\ Age(anchor.tick) <= Age(lastStep)
          /\ Fired = Age(lastStep) /\ Whole(Fired - Age(controlEpoch))
          /\ queue # <<>> => Age(FirstSample.tick) > Age(lastStep)
      BY <2>2 DEF TimelineInv, StepInv
    <3>2. event' # NoEvent
      BY <1>3, <2>3, BoundTypes DEF Tick, NoEvent
    <3>3. Whole(Fired' - Age(controlEpoch))
      <4> DEFINE x == Fired - Age(controlEpoch)
      <4>1. x \in Int /\ x + ControlTick = Fired' - Age(controlEpoch) /\ ControlTick \in Int
        BY <1>1, <2>4, BoundTypes
      <4>2. Whole(x) /\ Whole(ControlTick)
        BY <3>1, WholeZero
      <4> HIDE DEF x
      <4>3. Whole(x + ControlTick)
        BY <4>1, <4>2, WholeSum
      <4> QED
        BY <4>1, <4>3
    <3> QED
      BY <1>2, <2>4, <3>1, <3>2, <3>3 DEF StepInv, FirstSample
  <2> QED
    BY <1>5, <2>5, <2>6 DEF TimelineInv
<1> QED
  BY <1>6, <1>7

\* The stream starts on the last control event, before its first sample.
LEMMA StartTimeline ==
    ASSUME ShortRun, TypeOK, TimelineInv, ControlStart
    PROVE  TimelineInv'
<1>1. PICK position \in Anchors : Start(event, position)
  BY DEF ControlStart
<1>2. /\ event # NoEvent /\ tick' = tick /\ timer' = timer /\ event' = event
      /\ reason' = reason /\ policy' = policy /\ queue' = queue
      /\ anchor'.tick = event /\ controlEpoch' = event /\ lastStep' = event
  BY <1>1 DEF ControlStart, Start, environment, session
<1>3. /\ event \in Tick /\ Age(event) \in Nat /\ Age(event) = Fired
      /\ tick \in Tick /\ Age(tick) \in Nat /\ Age(tick) <= RunLength
      /\ timer \in 1 .. ControlTick
  BY <1>2, AgeType DEF TypeOK, TimelineInv, ClockInv
<1>4. ClockInv' /\ GridInv' /\ reason' \notin {"INVALID_TIMELINE", "MISSED_APPLY_TICK"}
  BY <1>2 DEF TimelineInv, ClockInv, GridInv, Fired
<1>5. ASSUME queue # <<>> PROVE Age(FirstSample.tick) > Age(event)
  <2>1. 1 \in 1 .. Len(queue) /\ queue[1] \in Setpoint
    BY <1>5 DEF TypeOK
  <2>2. FirstSample.tick \in Tick
    BY <2>1 DEF FirstSample, Setpoint
  <2>3. /\ Age(FirstSample.tick) \in Nat
        /\ Age(FirstSample.tick) <= RunLength + HardCaps.maximumLead
    BY <2>1, <2>2, AgeType DEF TimelineInv, GridInv, FirstSample
  <2>4. TickAfter(FirstSample.tick, event)
    BY <1>1 DEF Start
  <2>5. Age(event) <= RunLength
    BY <1>3, BoundTypes DEF Fired
  <2>6. 2 * Age(FirstSample.tick) < TickModulus /\ 2 * Age(event) < TickModulus
    BY <1>3, <2>3, <2>5, BoundTypes, HalfRange
  <2> QED
    BY <1>3, <2>2, <2>4, <2>6, AgeOrder
<1>6. StepInv'
  <2>1. Fired' = Age(event) /\ Fired' - Age(event) = 0
    BY <1>2, <1>3 DEF Fired
  <2>2. Whole(Fired' - Age(event))
    BY <2>1, WholeZero
  <2> QED
    BY <1>2, <1>3, <1>5, <2>1, <2>2 DEF StepInv, FirstSample
<1> QED
  BY <1>4, <1>6 DEF TimelineInv

\* Where a control event finds a running stream: at most one control tick
\* after the last one it took, so that a sample is due exactly when its tick
\* is reached, and never late.
LEMMA EventOnTime ==
    ASSUME ShortRun, TypeOK, TimelineInv, state = RUNNING, event # NoEvent
    PROVE  /\ event \in Tick /\ Age(event) \in Nat /\ Age(event) <= RunLength
           /\ Age(event) = Fired
           /\ Age(event) \in {Age(lastStep), Age(lastStep) + ControlTick}
           /\ ~BehindTimeline(event)
           /\ queue # <<>> =>
                 /\ FirstSample.tick \in Tick /\ Age(FirstSample.tick) \in Nat
                 /\ Age(FirstSample.tick) <= RunLength + HardCaps.maximumLead
                 /\ Due(event) <=> Age(FirstSample.tick) <= Age(event)
                 /\ Due(event) => Lateness(event) = 0
<1>1. /\ event \in Tick /\ Age(event) \in Nat /\ Age(event) = Fired
      /\ tick \in Tick /\ Age(tick) \in Nat /\ Age(tick) <= RunLength
      /\ timer \in 1 .. ControlTick
      /\ lastStep \in Tick /\ Age(lastStep) \in Nat
      /\ controlEpoch \in Tick /\ Age(controlEpoch) \in Nat
  BY AgeType DEF TypeOK, TimelineInv, ClockInv
<1>2. anchor.tick \in Tick /\ Age(anchor.tick) \in Nat
  <2>1. anchor.tick \in Tick
    BY DEF TypeOK, Setpoint
  <2> QED
    BY <2>1, AgeType
<1>3. /\ Age(controlEpoch) <= Age(lastStep) /\ Age(anchor.tick) <= Age(lastStep)
      /\ Fired \in {Age(lastStep), Age(lastStep) + ControlTick}
      /\ Whole(Fired - Age(controlEpoch))
      /\ queue # <<>> => Age(FirstSample.tick) > Age(lastStep)
  BY DEF TimelineInv, StepInv
<1>4. Age(event) <= RunLength
  BY <1>1, BoundTypes DEF Fired
<1>5. /\ 2 * Age(event) < TickModulus /\ 2 * Age(lastStep) < TickModulus
      /\ 2 * Age(anchor.tick) < TickModulus
  <2>1. Age(lastStep) <= Age(event) /\ Age(anchor.tick) <= Age(event)
    BY <1>1, <1>2, <1>3, BoundTypes
  <2>2. 2 * RunLength < TickModulus
    BY BoundTypes DEF ShortRun
  <2> QED
    BY <1>1, <1>2, <1>4, <2>1, <2>2, BoundTypes
<1>6. ~BehindTimeline(event)
  <2>1. ~TickAfter(lastStep, event)
    BY <1>1, <1>3, <1>5, BoundTypes, AgeOrder
  <2>2. ~TickAfter(anchor.tick, event)
    BY <1>1, <1>2, <1>3, <1>5, BoundTypes, AgeOrder
  <2> QED
    BY <2>1, <2>2 DEF BehindTimeline, TickBefore
<1>7. ASSUME queue # <<>>
      PROVE  /\ FirstSample.tick \in Tick /\ Age(FirstSample.tick) \in Nat
             /\ Age(FirstSample.tick) <= RunLength + HardCaps.maximumLead
             /\ Due(event) <=> Age(FirstSample.tick) <= Age(event)
             /\ Due(event) => Lateness(event) = 0
  <2> DEFINE t == FirstSample.tick
             f == FirstControlTickAtOrAfter(t)
  <2>1. 1 \in 1 .. Len(queue) /\ queue[1] \in Setpoint
    BY <1>7 DEF TypeOK
  <2>2. t \in Tick
    BY <2>1 DEF FirstSample, Setpoint
  <2>3. Age(t) \in Nat /\ Age(t) <= RunLength + HardCaps.maximumLead
    BY <2>1, <2>2, AgeType DEF TimelineInv, GridInv, FirstSample
  <2>4. Age(t) > Age(lastStep) /\ Age(controlEpoch) <= Age(t)
    <3>1. Age(t) > Age(lastStep)
      BY <1>3, <1>7
    <3> QED
      BY <1>1, <1>3, <2>3, <3>1
  <2>5. Due(event) <=> ~TickAfter(f, event)
    BY DEF Due, TickBefore
  <2>6. Lateness(event) = TickSub(event, f)
    BY DEF Lateness
  <2> HIDE DEF t
  <2>7. /\ f \in Tick /\ Age(f) >= Age(t) /\ Age(f) < Age(t) + ControlTick
        /\ Whole(Age(f) - Age(controlEpoch))
    BY <1>1, <2>2, <2>3, <2>4, ControlTickOf
  <2> HIDE DEF f
  <2>8. Age(f) \in Nat /\ 2 * Age(f) < TickModulus
    <3>1. Age(f) \in Nat
      BY <2>7, AgeType
    <3> QED
      BY <2>3, <2>7, <3>1, BoundTypes DEF ShortRun
  <2>9. /\ TickAfter(f, event) <=> Age(f) > Age(event)
        /\ Age(event) >= Age(f) => TickSub(event, f) = Age(event) - Age(f)
    BY <1>1, <1>5, <2>7, <2>8, AgeOrder
  <2> DEFINE x == Age(f) - Age(controlEpoch)
             y == Age(event) - Age(controlEpoch)
  <2>10. /\ x \in Int /\ y \in Int
         /\ x - y = Age(f) - Age(event) /\ y - x = Age(event) - Age(f)
    BY <1>1, <2>8
  <2>11. Whole(x) /\ Whole(y)
    BY <1>1, <1>3, <2>7
  <2> HIDE DEF x, y
  <2>12. Whole(x - y) /\ Whole(y - x)
    BY <2>10, <2>11, WholeSum
  <2>13. x - y > 0 => x - y >= ControlTick
    <3>1. x - y \in Int
      BY <2>10
    <3> QED
      BY <2>12, <3>1, WholePositive
  <2>14. y - x > 0 => y - x >= ControlTick
    <3>1. y - x \in Int
      BY <2>10
    <3> QED
      BY <2>12, <3>1, WholePositive
  <2>15. Age(f) <= Age(event) <=> Age(t) <= Age(event)
    BY <1>1, <2>3, <2>7, <2>8, <2>10, <2>13, BoundTypes
  <2>16. Age(f) <= Age(event) => Age(event) - Age(f) = 0
    <3>1. Age(event) <= Age(lastStep) + ControlTick
      BY <1>1, <1>3, BoundTypes
    <3>2. Age(event) - Age(f) < ControlTick
      BY <1>1, <2>3, <2>4, <2>7, <2>8, <3>1, BoundTypes
    <3>3. ~(Age(event) - Age(f) > 0)
      BY <1>1, <2>8, <2>10, <2>14, <3>2, BoundTypes
    <3> QED
      BY <1>1, <2>8, <3>3
  <2>17. Due(event) <=> Age(t) <= Age(event)
    BY <1>1, <2>5, <2>8, <2>9, <2>15
  <2>18. Due(event) => Lateness(event) = 0
    BY <1>1, <2>5, <2>6, <2>8, <2>9, <2>16
  <2> QED
    BY <2>2, <2>3, <2>17, <2>18 DEF t
<1> QED
  BY <1>1, <1>3, <1>4, <1>6, <1>7

\* The clock begins one control tick before the first event.
LEMMA InitTimeline == Init => TimelineInv
<1> SUFFICES ASSUME Init PROVE TimelineInv
  OBVIOUS
<1>1. StartTick \in Tick
  BY ExecutorAssumption
<1>2. Age(tick) = 0 /\ Fired = 0
  BY <1>1, BoundTypes DEF Init, Age, Fired, TickSub, Tick
<1>3. ClockInv
  BY <1>2, BoundTypes DEF Init, ClockInv
<1>4. GridInv
  BY BoundTypes DEF Init, GridInv, NoPolicy
<1>5. StepInv
  BY DEF Init, StepInv, CLOSED, RUNNING
<1> QED
  BY <1>3, <1>4, <1>5 DEF Init, TimelineInv

\* Only a control step applies a sample.
LEMMA AppliedInStep ==
    ASSUME IInv, [Next]_vars, applied' = applied + 1
    PROVE  event # NoEvent /\ StepApply(event)
<1>0. applied \in Nat
  BY DEF IInv, TypeOK
<1>1. applied' # applied
  BY <1>0
<1>2. applied' # 0
  BY <1>0
<1>3. ControlStep
  BY <1>1, <1>2
  DEF Next, ClockTick, Open, AppendBatch, SpliceBatch, Enqueue, ControlStart, Start,
      CheckJointFeedback, Reset, vars
<1> QED
  BY <1>1, <1>3
  DEF ControlStep, TakeEvent, Step, StepRewound, StepCommandTimeout, StepUnderflow,
      StepKeep, StepMissed, StepOutOfSpan, StepInterpolate

\* A step that takes the event and leaves the stream's timeline alone.
LEMMA KeepTimeline ==
    ASSUME ShortRun, TypeOK, TimelineInv, state = RUNNING, event # NoEvent,
           TakeEvent, lastStep' = event,
           UNCHANGED <<session, timeline>>,
           queue # <<>> => ~Due(event),
           reason' \notin {"INVALID_TIMELINE", "MISSED_APPLY_TICK"}
    PROVE  TimelineInv'
<1>1. /\ Age(event) \in Nat /\ Age(event) = Fired
      /\ Age(event) \in {Age(lastStep), Age(lastStep) + ControlTick}
      /\ queue # <<>> => /\ Age(FirstSample.tick) \in Nat
                         /\ Due(event) <=> Age(FirstSample.tick) <= Age(event)
  BY EventOnTime
<1>2. /\ event' = NoEvent /\ tick' = tick /\ timer' = timer /\ lastStep' = event
      /\ policy' = policy /\ queue' = queue
      /\ anchor' = anchor /\ controlEpoch' = controlEpoch
  BY DEF TakeEvent, session, timeline
<1>3. Fired' = Fired
  BY <1>2 DEF Fired
<1>4. ClockInv' /\ GridInv'
  BY <1>2, <1>3 DEF TimelineInv, ClockInv, GridInv
<1>5. StepInv'
  <2>1. /\ Age(controlEpoch) <= Age(lastStep) /\ Age(anchor.tick) <= Age(lastStep)
        /\ Whole(Fired - Age(controlEpoch))
    BY DEF TimelineInv, StepInv
  <2>2. /\ Age(lastStep) \in Nat /\ Age(controlEpoch) \in Nat /\ Age(anchor.tick) \in Nat
    <3>1. lastStep \in Tick /\ controlEpoch \in Tick /\ anchor.tick \in Tick
      BY DEF TypeOK, Setpoint
    <3> QED
      BY <3>1, AgeType
  <2>3. Age(controlEpoch) <= Age(event) /\ Age(anchor.tick) <= Age(event)
    BY <1>1, <2>1, <2>2, BoundTypes
  <2>4. queue # <<>> => Age(FirstSample.tick) > Age(event)
    BY <1>1
  <2> QED
    BY <1>1, <1>2, <1>3, <2>1, <2>3, <2>4 DEF StepInv, FirstSample
<1> QED
  BY <1>4, <1>5 DEF TimelineInv

\* A sample that is applied is due at this event and not at the one before;
\* the next one lies a control tick further on at least.
LEMMA ApplyTimeline ==
    ASSUME ShortRun, IInv, TimelineInv, event # NoEvent, TakeEvent, StepApply(event)
    PROVE  TimelineInv'
<1>1. /\ state = RUNNING /\ lastStep' = event /\ queue # <<>> /\ Due(event)
      /\ queue' = Tail(queue) /\ anchor' = FirstSample
      /\ policy' = policy /\ controlEpoch' = controlEpoch
      /\ event' = NoEvent /\ tick' = tick /\ timer' = timer
  BY DEF StepApply, StepOnTime, Stepping, ConsumeFirst, TakeEvent
<1>2. /\ Age(event) \in Nat /\ Age(event) = Fired
      /\ Age(event) \in {Age(lastStep), Age(lastStep) + ControlTick}
      /\ Age(FirstSample.tick) \in Nat /\ Age(FirstSample.tick) <= Age(event)
  BY <1>1, EventOnTime DEF IInv
<1>3. reason' \notin {"INVALID_TIMELINE", "MISSED_APPLY_TICK"}
  BY DEF StepApply, Terminate, TimelineInv
<1>4. Fired' = Fired
  BY <1>1 DEF Fired
<1>5. ClockInv'
  BY <1>1, <1>4 DEF TimelineInv, ClockInv
<1>6. queue \in Seq(Setpoint) /\ Len(queue) \in Nat /\ Len(queue) > 0
  BY <1>1 DEF IInv, TypeOK
<1>7. /\ Len(queue') = Len(queue) - 1
      /\ \A i \in 1 .. Len(queue) - 1 : queue'[i] = queue[i + 1]
  <2>1. /\ Len(Tail(queue)) = Len(queue) - 1
        /\ \A i \in 1 .. Len(queue) - 1 : Tail(queue)[i] = queue[i + 1]
    BY <1>1, <1>6, HeadTailProperties
  <2> QED
    BY <1>1, <2>1
<1>8. \A i \in 1 .. Len(queue) - 1 : i + 1 \in 1 .. Len(queue)
  BY <1>6
<1>9. GridInv'
  BY <1>1, <1>7, <1>8 DEF TimelineInv, GridInv
<1>10. ASSUME queue' # <<>> PROVE Age(queue'[1].tick) > Age(event)
  <2>1. 1 \in 1 .. Len(queue) - 1 /\ 1 \in 1 .. Len(queue) /\ 2 \in 1 .. Len(queue)
    <3>1. Len(queue) # 1
      <4>1. Tail(queue) \in Seq(Setpoint) /\ Tail(queue) # <<>>
        BY <1>1, <1>6, <1>10, HeadTailProperties
      <4>2. Len(Tail(queue)) # 0
        BY <4>1, EmptySeq
      <4> QED
        BY <1>1, <1>7, <4>2
    <3>2. Len(queue) \in Nat /\ Len(queue) >= 2
      <4> DEFINE l == Len(queue)
      <4>1. l \in Nat /\ l > 0 /\ l # 1
        BY <1>6, <3>1
      <4> HIDE DEF l
      <4>2. l \in Nat /\ l >= 2
        BY <4>1
      <4> QED
        BY <4>2 DEF l
    <3> QED
      BY <3>2
  <2>2. queue'[1] = queue[2] /\ FirstSample = queue[1]
    BY <1>7, <2>1 DEF FirstSample
  <2>3. queue[1] \in Setpoint /\ queue[2] \in Setpoint
    BY <1>6, <2>1
  <2>4. queue[1].tick \in Tick /\ queue[2].tick \in Tick
    BY <2>3 DEF Setpoint
  <2>5. /\ Age(queue[1].tick) \in Nat /\ Age(queue[2].tick) \in Nat
        /\ Age(queue[1].tick) <= RunLength + HardCaps.maximumLead
        /\ Age(queue[2].tick) <= RunLength + HardCaps.maximumLead
    BY <2>1, <2>4, AgeType DEF TimelineInv, GridInv
  <2>6. TickAfter(queue[2].tick, queue[1].tick)
    BY <2>1 DEF IInv, QueueOrdered
  <2>7. 2 * Age(queue[1].tick) < TickModulus /\ 2 * Age(queue[2].tick) < TickModulus
    BY <2>5, BoundTypes, HalfRange
  <2>8. Age(queue[2].tick) > Age(queue[1].tick)
    BY <2>4, <2>5, <2>6, <2>7, AgeOrder
  <2>9. Whole(Age(queue[2].tick) - Age(queue[1].tick))
    BY <2>1 DEF TimelineInv, GridInv
  <2>10. Age(queue[2].tick) - Age(queue[1].tick) >= ControlTick
    <3>1. /\ Age(queue[2].tick) - Age(queue[1].tick) \in Int
          /\ Age(queue[2].tick) - Age(queue[1].tick) > 0
      BY <2>5, <2>8
    <3> QED
      BY <2>9, <3>1, WholePositive
  <2>11. Age(queue[1].tick) > Age(lastStep)
    BY <1>1, <2>2 DEF TimelineInv, StepInv
  <2>12. Age(lastStep) \in Nat
    BY AgeType DEF IInv, TypeOK
  <2> QED
    BY <1>2, <2>2, <2>5, <2>10, <2>11, <2>12, BoundTypes
<1>11. StepInv'
  <2>1. Age(controlEpoch) <= Age(event)
    <3>1. Age(controlEpoch) <= Age(lastStep) /\ Age(lastStep) \in Nat /\ Age(controlEpoch) \in Nat
      BY <1>1, AgeType DEF TimelineInv, StepInv, IInv, TypeOK
    <3> QED
      BY <1>2, <3>1, BoundTypes
  <2>2. Whole(Fired - Age(controlEpoch))
    BY <1>1 DEF TimelineInv, StepInv
  <2> QED
    BY <1>1, <1>2, <1>4, <1>10, <2>1, <2>2 DEF StepInv, FirstSample
<1> QED
  BY <1>3, <1>5, <1>9, <1>11 DEF TimelineInv

\* A stream that stops running has no timeline to keep.
LEMMA EndTimeline ==
    ASSUME TimelineInv, tick' = tick, timer' = timer, event' \in {event, NoEvent},
           policy' = policy, queue' = queue, state' # RUNNING,
           reason' \notin {"INVALID_TIMELINE", "MISSED_APPLY_TICK"}
    PROVE  TimelineInv'
<1>1. ClockInv'
  BY DEF TimelineInv, ClockInv, Fired
<1>2. GridInv'
  BY DEF TimelineInv, GridInv
<1>3. StepInv'
  BY DEF StepInv
<1> QED
  BY <1>1, <1>2, <1>3 DEF TimelineInv

\* Every way a control step can go keeps the timeline; the ways that abort a
\* stream for its timeline are not taken.
LEMMA StepTimeline ==
    ASSUME ShortRun, IInv, TimelineInv, ControlStep
    PROVE  TimelineInv'
<1>1. event # NoEvent /\ TakeEvent /\ Step(event)
  BY DEF ControlStep, TakeEvent
<1>2. state = RUNNING
  BY <1>1 DEF Step, StepRewound, StepCommandTimeout, StepUnderflow, StepKeep,
              StepMissed, StepApply, StepOutOfSpan, StepInterpolate, StepOnTime,
              Stepping
<1>3. /\ event \in Tick /\ Age(event) \in Nat
      /\ Age(event) \in {Age(lastStep), Age(lastStep) + ControlTick}
      /\ ~BehindTimeline(event)
      /\ queue # <<>> =>
            /\ FirstSample.tick \in Tick /\ Age(FirstSample.tick) \in Nat
            /\ Age(FirstSample.tick) <= RunLength + HardCaps.maximumLead
            /\ Due(event) <=> Age(FirstSample.tick) <= Age(event)
            /\ Due(event) => Lateness(event) = 0
  BY <1>1, <1>2, EventOnTime DEF IInv
<1>4. reason \notin {"INVALID_TIMELINE", "MISSED_APPLY_TICK"}
  BY DEF TimelineInv
<1>5. CASE StepRewound(event)
  BY <1>3, <1>5 DEF StepRewound
<1>6. CASE StepCommandTimeout(event)
  <2>1. /\ state' # RUNNING /\ reason' = "COMMAND_TIMEOUT"
        /\ policy' = policy /\ queue' = queue
    BY <1>6 DEF StepCommandTimeout, Terminate, session, HOLD, RUNNING
  <2> QED
    BY <1>1, <2>1, EndTimeline DEF TakeEvent
<1>7. CASE StepUnderflow(event)
  <2>1. /\ state' # RUNNING /\ reason' = "QUEUE_UNDERFLOW"
        /\ policy' = policy /\ queue' = queue
    BY <1>7 DEF StepUnderflow, Terminate, session, ABORTED, RUNNING
  <2> QED
    BY <1>1, <2>1, EndTimeline DEF TakeEvent
<1>8. CASE StepKeep(event)
  <2>1. /\ queue = <<>> /\ lastStep' = event /\ reason' = reason
        /\ UNCHANGED <<session, timeline>>
    BY <1>8 DEF StepKeep, StepOnTime
  <2> QED
    BY <1>1, <1>2, <1>4, <2>1, KeepTimeline DEF IInv
<1>9. CASE StepMissed(event)
  <2>1. /\ queue # <<>> /\ Due(event) /\ Lateness(event) > policy.maximumLateness
    BY <1>9 DEF StepMissed
  <2>2. policy.maximumLateness \in Nat
    BY DEF IInv, TypeOK, Policy
  <2> QED
    BY <1>3, <2>1, <2>2
<1>10. CASE StepApply(event)
  BY <1>1, <1>10, ApplyTimeline
<1>11. CASE StepOutOfSpan(event)
  <2>1. queue # <<>> /\ ~Due(event) /\ BeyondSpan(event)
    BY <1>11 DEF StepOutOfSpan
  <2>2. anchor.tick \in Tick /\ Age(anchor.tick) \in Nat
    <3>1. anchor.tick \in Tick
      BY DEF IInv, TypeOK, Setpoint
    <3> QED
      BY <3>1, AgeType
  <2>3. Age(anchor.tick) <= Age(event)
    <3>1. Age(anchor.tick) <= Age(lastStep) /\ Age(lastStep) \in Nat
      BY <1>2, AgeType DEF TimelineInv, StepInv, IInv, TypeOK
    <3> QED
      BY <1>3, <2>2, <3>1, BoundTypes
  <2>4. Age(event) < Age(FirstSample.tick)
    BY <1>3, <2>1
  <2>5. /\ 2 * Age(anchor.tick) < TickModulus /\ 2 * Age(event) < TickModulus
        /\ 2 * Age(FirstSample.tick) < TickModulus
    <3>1. 2 * Age(FirstSample.tick) < TickModulus
      BY <1>3, <2>1, BoundTypes, HalfRange
    <3> QED
      BY <1>3, <2>1, <2>2, <2>3, <2>4, <3>1, BoundTypes
  <2>6. /\ TickSub(FirstSample.tick, anchor.tick) = Age(FirstSample.tick) - Age(anchor.tick)
        /\ TickSub(event, anchor.tick) = Age(event) - Age(anchor.tick)
    <3>1. FirstSample.tick \in Tick /\ Age(FirstSample.tick) >= Age(anchor.tick)
      BY <1>3, <2>1, <2>2, <2>3, <2>4
    <3>2. TickSub(FirstSample.tick, anchor.tick) = Age(FirstSample.tick) - Age(anchor.tick)
      BY <2>2, <2>5, <3>1, AgeOrder
    <3>3. TickSub(event, anchor.tick) = Age(event) - Age(anchor.tick)
      BY <1>3, <2>2, <2>3, <2>5, AgeOrder
    <3> QED
      BY <3>2, <3>3
  <2>7. ~BeyondSpan(event)
    BY <1>3, <2>1, <2>2, <2>3, <2>4, <2>6 DEF BeyondSpan
  <2> QED
    BY <2>1, <2>7
<1>12. CASE StepInterpolate(event)
  <2>1. /\ ~Due(event) /\ lastStep' = event /\ reason' = reason
        /\ UNCHANGED <<session, timeline>>
    BY <1>12 DEF StepInterpolate, StepOnTime
  <2> QED
    BY <1>1, <1>2, <1>4, <2>1, KeepTimeline DEF IInv
<1> QED
  BY <1>1, <1>5, <1>6, <1>7, <1>8, <1>9, <1>10, <1>11, <1>12 DEF Step

\* The timeline is kept by every step of a fitting host, clock and main loop.
LEMMA NextTimeline ==
    ASSUME EventJitter = 0, ShortRun, IInv, HostFits, TimelineInv, [Next]_vars
    PROVE  TimelineInv'
<1>0. TypeOK
  BY DEF IInv
<1>1. CASE ClockTick
  BY <1>0, <1>1, ClockTimeline
<1>2. ASSUME NEW p \in OpenRequests(tick), Open(p) PROVE TimelineInv'
  <2>1. /\ tick' = tick /\ timer' = timer /\ event' = event
        /\ policy' = p /\ queue' = <<>> /\ state' # RUNNING /\ reason' = "NONE"
        /\ p.maximumLead <= HardCaps.maximumLead
    BY <1>2 DEF Open, environment, PolicyValid, PRIMING, RUNNING
  <2>2. ClockInv'
    BY <2>1 DEF TimelineInv, ClockInv, Fired
  <2>3. GridInv'
    BY <2>1 DEF GridInv
  <2>4. StepInv'
    BY <2>1 DEF StepInv
  <2> QED
    BY <2>1, <2>2, <2>3, <2>4 DEF TimelineInv
<1>3. ASSUME NEW b \in BatchRequests(tick, horizon, queue),
             AppendBatch(b) \/ SpliceBatch(b)
      PROVE  TimelineInv'
  <2>1. Fits(b)
    BY DEF HostFits
  <2> QED
    BY <1>0, <1>3, <2>1, AppendTimeline, SpliceTimeline
<1>4. CASE ControlStart
  BY <1>0, <1>4, StartTimeline
<1>5. CASE ControlStep
  BY <1>5, StepTimeline
<1>6. ASSUME NEW j \in Joints, NEW error \in FeedbackErrors, CheckJointFeedback(j, error)
      PROVE  TimelineInv'
  <2>1. /\ tick' = tick /\ timer' = timer /\ event' = event
        /\ policy' = policy /\ queue' = queue /\ state' # RUNNING
        /\ reason' = "TRACKING_ERROR"
    BY <1>6 DEF CheckJointFeedback, Terminate, environment, session, ABORTED, RUNNING
  <2> QED
    BY <2>1, EndTimeline
<1>7. CASE Reset
  <2>1. /\ tick' = StartTick /\ timer' = ControlTick /\ event' = NoEvent
        /\ state' # RUNNING /\ reason' = "NONE"
        /\ policy' = NoPolicy /\ queue' = <<>>
    BY <1>7 DEF Reset, CLOSED, RUNNING
  <2>2. Age(StartTick) = 0
    BY ExecutorAssumption DEF Age, TickSub, Tick
  <2>3. Age(tick)' = 0 /\ Fired' = 0
    BY <2>1, <2>2, BoundTypes DEF Fired, Age
  <2>4. ClockInv'
    BY <2>1, <2>3, BoundTypes DEF ClockInv
  <2>5. GridInv'
    BY <2>1, BoundTypes DEF GridInv, NoPolicy
  <2> QED
    BY <2>1, <2>4, <2>5 DEF StepInv, TimelineInv
<1>8. CASE UNCHANGED vars
  <2>1. ClockInv'
    BY <1>8 DEF vars, TimelineInv, ClockInv, Fired
  <2>2. GridInv'
    BY <1>8 DEF vars, TimelineInv, GridInv
  <2>3. StepInv'
    BY <1>8 DEF vars, TimelineInv, StepInv, Fired, FirstSample
  <2> QED
    BY <1>8, <2>1, <2>2, <2>3 DEF vars, TimelineInv
<1> QED
  BY <1>1, <1>2, <1>3, <1>4, <1>5, <1>6, <1>7, <1>8 DEF Next

\* A running stream is on its timeline: on the grid of control events that
\* begins with its first step, with its queue ahead of it.
LEMMA SpecTimeline ==
    ASSUME EventJitter = 0, ShortRun
    PROVE  Spec /\ []HostFits => []TimelineInv
<1>1. Init => TimelineInv
  BY InitTimeline
<1>2. IInv /\ HostFits /\ TimelineInv /\ [Next]_vars => TimelineInv'
  BY NextTimeline
<1> QED
  BY <1>1, <1>2, Invariance, PTL DEF Spec

\* While a stream runs its queue is ahead of its anchor, and no stream of a
\* fitting host ends for its timeline or for a missed apply tick: with one
\* event per control tick, the executor is never past a sample it has not
\* applied, whatever is appended, spliced or refilled, and wherever the tick
\* wraps.
THEOREM TimelineAlwaysHolds ==
    ASSUME EventJitter = 0, ShortRun
    PROVE  Spec /\ []HostFits => []TimelineHolds
<1>1. IInv /\ TimelineInv => TimelineHolds
  <2> SUFFICES ASSUME IInv, TimelineInv, state = RUNNING, queue # <<>>
               PROVE  TickAfter(FirstSample.tick, anchor.tick)
    BY DEF TimelineHolds, TimelineInv
  <2>1. 1 \in 1 .. Len(queue) /\ queue[1] \in Setpoint
    BY DEF IInv, TypeOK
  <2>2. FirstSample.tick \in Tick /\ anchor.tick \in Tick
    BY <2>1 DEF FirstSample, Setpoint, IInv, TypeOK
  <2>3. /\ Age(FirstSample.tick) \in Nat /\ Age(anchor.tick) \in Nat
        /\ Age(FirstSample.tick) <= RunLength + HardCaps.maximumLead
    BY <2>1, <2>2, AgeType DEF TimelineInv, GridInv, FirstSample
  <2>4. /\ Age(FirstSample.tick) > Age(lastStep) /\ Age(anchor.tick) <= Age(lastStep)
        /\ Age(lastStep) \in Nat
    BY AgeType DEF TimelineInv, StepInv, IInv, TypeOK
  <2>5. Age(FirstSample.tick) > Age(anchor.tick)
    BY <2>3, <2>4
  <2>6. 2 * Age(FirstSample.tick) < TickModulus /\ 2 * Age(anchor.tick) < TickModulus
    BY <2>3, <2>5, BoundTypes, HalfRange
  <2> QED
    BY <2>2, <2>5, <2>6, AgeOrder
<1> QED
  BY <1>1, Invariance, SpecTimeline, PTL

\* A sample reaches the servos on the first control tick at or after its apply
\* tick, late by less than a control tick.
THEOREM SamplesAreOnTime ==
    ASSUME EventJitter = 0, ShortRun
    PROVE  Spec /\ []HostFits => AppliedOnTime
<1>1. IInv /\ TimelineInv /\ [Next]_vars =>
        [applied' = applied + 1 =>
            /\ ~TickBefore(event, FirstSample.tick)
            /\ TickSub(event, FirstSample.tick)
                  < ControlTick + policy.maximumLateness]_vars
  <2> SUFFICES ASSUME IInv, TimelineInv, [Next]_vars, applied' = applied + 1
               PROVE  /\ ~TickBefore(event, FirstSample.tick)
                      /\ TickSub(event, FirstSample.tick)
                            < ControlTick + policy.maximumLateness
    OBVIOUS
  <2>1. event # NoEvent /\ StepApply(event)
    BY AppliedInStep
  <2>2. state = RUNNING /\ queue # <<>> /\ Due(event)
    BY <2>1 DEF StepApply, StepOnTime, Stepping
  <2>3. /\ event \in Tick /\ Age(event) \in Nat /\ Age(event) <= RunLength
        /\ Age(event) \in {Age(lastStep), Age(lastStep) + ControlTick}
        /\ FirstSample.tick \in Tick /\ Age(FirstSample.tick) \in Nat
        /\ Age(FirstSample.tick) <= Age(event)
    BY <2>1, <2>2, EventOnTime DEF IInv
  <2>4. Age(FirstSample.tick) > Age(lastStep) /\ Age(lastStep) \in Nat
    BY <2>2, AgeType DEF TimelineInv, StepInv, IInv, TypeOK
  <2>5. 2 * Age(event) < TickModulus /\ 2 * Age(FirstSample.tick) < TickModulus
    BY <2>3, BoundTypes, HalfRange
  <2>6. /\ ~TickAfter(FirstSample.tick, event)
        /\ TickSub(event, FirstSample.tick) = Age(event) - Age(FirstSample.tick)
    BY <2>3, <2>5, AgeOrder
  <2>7. Age(event) - Age(FirstSample.tick) < ControlTick
    BY <2>3, <2>4, BoundTypes
  <2>8. policy.maximumLateness \in Nat
    BY DEF IInv, TypeOK, Policy
  <2> QED
    BY <2>3, <2>6, <2>7, <2>8, BoundTypes DEF TickBefore
<1> QED
  BY <1>1, Invariance, SpecTimeline, PTL DEF Spec, AppliedOnTime

-----------------------------------------------------------------------------
(* The rate: how far a joint goes from one control event to the next.        *)

\* A leg of the plan whose samples lie whole control ticks apart, and are
\* within one step per control tick.
Steady(from, to, span) ==
    \A j \in Joints :
        Distance(from[j], to[j]) * ControlTick <= policy.maximumStep[j] * span

\* The leg the stream is on, and how long it has been on it.
Span == Age(FirstSample.tick) - Age(anchor.tick)
Since == Age(lastStep) - Age(anchor.tick)

\* The output is e milliseconds into the leg.  The first leg may span no whole
\* number of control ticks, but its output is up to date; on the others the
\* output may still be the sample the leg began with, applied less than a
\* control tick after its time.
IsInto(e) ==
    \/ /\ e = Since
       /\ WithinStep(anchor.position, FirstSample.position, policy.maximumStep,
                     (Span + ControlTick - 1) \div ControlTick)
    \/ /\ Since - e < ControlTick
       /\ Steady(anchor.position, FirstSample.position, Span)

LegOf(e) == InterpolatePosition(anchor.position, FirstSample.position, e, Span)

\* The samples of a seamless stream are steady.
LinksInv ==
    seamless =>
        \A i \in 1 .. Len(queue) - 1 :
            Steady(queue[i].position, queue[i + 1].position,
                   Age(queue[i + 1].tick) - Age(queue[i].tick))

\* A running seamless stream is on a leg, and its output too.
LegInv ==
    seamless /\ state = RUNNING /\ queue # <<>> =>
        \E e \in 0 .. Since : IsInto(e) /\ (outputValid => output = LegOf(e))

RateInv ==
    /\ \A j \in Joints : policy.maximumStep[j] >= 0
    /\ state = PRIMING => ~outputValid
    /\ LinksInv /\ LegInv

\* Quotients of numbers that are at most m divisors apart.
LEMMA DivStep ==
    ASSUME NEW a \in Nat, NEW b \in Nat, NEW s \in Nat \ {0}, NEW m \in Nat,
           a <= b, b - a <= m * s
    PROVE  /\ a \div s \in Nat /\ b \div s \in Nat
           /\ a \div s <= b \div s /\ b \div s <= (a \div s) + m
<1> DEFINE p == a \div s
           q == b \div s
<1>1. p \in Int /\ s * p <= a /\ a < s * p + s
  OBVIOUS
<1>2. q \in Int /\ s * q <= b /\ b < s * q + s
  OBVIOUS
<1> HIDE DEF p, q
<1>3. p >= 0
  <2> SUFFICES ASSUME p <= -1 PROVE FALSE
    BY <1>1
  <2>1. s * p <= -s
    BY <1>1
  <2> QED
    BY <1>1, <2>1
<1>4. p <= q
  <2> SUFFICES ASSUME q <= p - 1 PROVE FALSE
    BY <1>1, <1>2
  <2>1. s * q <= s * p - s
    BY <1>1, <1>2
  <2> QED
    BY <1>1, <1>2, <2>1
<1>5. q <= p + m
  <2> SUFFICES ASSUME q >= p + m + 1 PROVE FALSE
    BY <1>1, <1>2
  <2>1. s * q >= s * p + m * s + s
    BY <1>1, <1>2
  <2> QED
    BY <1>1, <1>2, <2>1
<1> QED
  BY <1>1, <1>2, <1>3, <1>4, <1>5 DEF p, q

\* Two points of a line are as far apart as the way between them, in whole
\* units rounded up, although each is rounded towards the line's beginning.
LEMMA InterpolateStep ==
    ASSUME NEW x \in Int, NEW y \in Int, NEW e \in Nat, NEW f \in Nat, e <= f,
           NEW s \in Nat \ {0}, NEW m \in Nat, Distance(x, y) * (f - e) <= m * s
    PROVE  Distance(Interpolate(x, y, e, s), Interpolate(x, y, f, s)) <= m
<1>1. CASE y >= x
  <2> DEFINE d == y - x
             a == d * e
             b == d * f
  <2>1. d \in Nat /\ Distance(x, y) = d
    BY <1>1 DEF Distance
  <2> HIDE DEF d
  <2>2. a \in Nat /\ b \in Nat /\ a <= b /\ b - a = d * (f - e)
    BY <2>1
  <2>3. b - a <= m * s
    BY <2>1, <2>2
  <2>4. TruncDiv(a, s) = a \div s /\ TruncDiv(b, s) = b \div s
    BY <2>2 DEF TruncDiv
  <2>5. /\ Interpolate(x, y, e, s) = x + TruncDiv(a, s)
        /\ Interpolate(x, y, f, s) = x + TruncDiv(b, s)
    BY DEF Interpolate, d
  <2> HIDE DEF a, b
  <2>6. /\ a \div s \in Nat /\ b \div s \in Nat
        /\ a \div s <= b \div s /\ b \div s <= (a \div s) + m
    BY <2>2, <2>3, DivStep
  <2> DEFINE p == a \div s
             q == b \div s
  <2>7. p \in Nat /\ q \in Nat /\ p <= q /\ q <= p + m
    BY <2>6
  <2>8. /\ Interpolate(x, y, e, s) = x + p
        /\ Interpolate(x, y, f, s) = x + q
    BY <2>4, <2>5
  <2> HIDE DEF p, q
  <2>9. Distance(x + p, x + q) <= m
    BY <2>7 DEF Distance
  <2> QED
    BY <2>8, <2>9
<1>2. CASE ~(y >= x)
  <2> DEFINE d == x - y
             a == d * e
             b == d * f
  <2>1. d \in Nat /\ Distance(x, y) = d /\ y - x = -d
    BY <1>2 DEF Distance
  <2> HIDE DEF d
  <2>2. a \in Nat /\ b \in Nat /\ a <= b /\ b - a = d * (f - e)
    BY <2>1
  <2>3. b - a <= m * s
    BY <2>1, <2>2
  <2>4. (y - x) * e = -a /\ (y - x) * f = -b
    BY <2>1
  <2>5. /\ Interpolate(x, y, e, s) = x + TruncDiv(-a, s)
        /\ Interpolate(x, y, f, s) = x + TruncDiv(-b, s)
    BY <2>4 DEF Interpolate
  <2> HIDE DEF a, b
  <2>6. /\ a \div s \in Nat /\ b \div s \in Nat
        /\ a \div s <= b \div s /\ b \div s <= (a \div s) + m
    BY <2>2, <2>3, DivStep
  <2>7. \A n \in Nat : TruncDiv(-n, s) = -(n \div s)
    <3> SUFFICES ASSUME NEW n \in Nat PROVE TruncDiv(-n, s) = -(n \div s)
      OBVIOUS
    <3>1. CASE n = 0
      <4>1. 0 \div s = 0
        OBVIOUS
      <4> QED
        BY <3>1, <4>1 DEF TruncDiv
    <3>2. CASE n # 0
      <4>1. ~(-n >= 0) /\ -(-n) = n
        BY <3>2
      <4> QED
        BY <4>1 DEF TruncDiv
    <3> QED
      BY <3>1, <3>2
  <2> DEFINE p == a \div s
             q == b \div s
  <2>8. p \in Nat /\ q \in Nat /\ p <= q /\ q <= p + m
    BY <2>6
  <2>9. /\ Interpolate(x, y, e, s) = x + (-p)
        /\ Interpolate(x, y, f, s) = x + (-q)
    BY <2>2, <2>5, <2>7
  <2> HIDE DEF p, q
  <2>10. Distance(x + (-p), x + (-q)) <= m
    BY <2>8 DEF Distance
  <2> QED
    BY <2>9, <2>10
<1> QED
  BY <1>1, <1>2

\* A line begins at its beginning and ends at its end.
LEMMA InterpolateEnds ==
    ASSUME NEW x \in Int, NEW y \in Int, NEW s \in Nat \ {0}
    PROVE  Interpolate(x, y, 0, s) = x /\ Interpolate(x, y, s, s) = y
<1>1. TruncDiv((y - x) * 0, s) = 0
  <2>1. (y - x) * 0 = 0 /\ 0 \div s = 0
    OBVIOUS
  <2> QED
    BY <2>1 DEF TruncDiv
<1>2. \A n \in Int : (n * s) \div s = n
  OBVIOUS
<1>3. TruncDiv((y - x) * s, s) = y - x
  <2> DEFINE d == y - x
  <2>1. d \in Int
    OBVIOUS
  <2> HIDE DEF d
  <2>2. ASSUME d * s >= 0 PROVE TruncDiv(d * s, s) = d
    BY <1>2, <2>1, <2>2 DEF TruncDiv
  <2>3. ASSUME ~(d * s >= 0) PROVE TruncDiv(d * s, s) = d
    <3>1. -(d * s) = (-d) * s /\ -d \in Int
      BY <2>1
    <3>2. (-(d * s)) \div s = -d
      BY <1>2, <3>1
    <3> QED
      BY <2>1, <2>3, <3>2 DEF TruncDiv
  <2>4. TruncDiv(d * s, s) = d
    BY <2>2, <2>3
  <2> QED
    BY <2>4 DEF d
<1> QED
  BY <1>1, <1>3 DEF Interpolate

\* On a leg of whole control ticks, less than two of them take a joint at most
\* two steps far.
LEMMA SteadyWay ==
    ASSUME NEW d \in Nat, NEW step \in Nat, NEW span \in Nat, NEW way \in Nat,
           d * ControlTick <= step * span, way < 2 * ControlTick
    PROVE  d * way <= (step * 2) * span
<1>1. ControlTick \in Nat
  BY BoundTypes
<1>2. d * way <= d * (2 * ControlTick)
  BY <1>1
<1>3. d * (2 * ControlTick) = 2 * (d * ControlTick)
  BY <1>1
<1>4. (step * 2) * span = 2 * (step * span)
  OBVIOUS
<1> DEFINE u == d * ControlTick
           v == step * span
           w == d * way
<1>5. u \in Nat /\ v \in Nat /\ w \in Nat /\ u <= v /\ w <= 2 * u
  BY <1>1, <1>2, <1>3
<1> HIDE DEF u, v, w
<1>6. w <= 2 * v
  BY <1>5
<1> QED
  BY <1>4, <1>6 DEF v, w

\* On any leg, a control tick of it does.
LEMMA AnyWay ==
    ASSUME NEW d \in Nat, NEW step \in Nat, NEW span \in Nat \ {0}, NEW way \in Nat,
           d <= step * ((span + ControlTick - 1) \div ControlTick),
           way <= ControlTick, way <= span
    PROVE  d * way <= (step * 2) * span
<1> DEFINE c == (span + ControlTick - 1) \div ControlTick
<1>1. ControlTick \in Nat \ {0}
  BY BoundTypes
<1>2. c \in Nat /\ c * ControlTick < span + ControlTick
  BY <1>1, RoundedUp
<1>3. d <= step * c
  OBVIOUS
<1> HIDE DEF c
<1>4. CASE span >= ControlTick
  <2>1. c * ControlTick <= 2 * span
    BY <1>1, <1>2, <1>4
  <2>2. d * way <= (step * c) * ControlTick
    <3>1. step * c \in Nat
      BY <1>2
    <3>2. d * way <= d * ControlTick
      BY <1>1
    <3>3. d * ControlTick <= (step * c) * ControlTick
      BY <1>1, <1>3, <3>1
    <3> DEFINE u == d * way
               v == d * ControlTick
               w == (step * c) * ControlTick
    <3>4. u \in Int /\ v \in Int /\ w \in Int
      BY <1>1, <3>1
    <3> HIDE DEF u, v, w
    <3>5. u <= w
      BY <3>2, <3>3, <3>4 DEF u, v, w
    <3> QED
      BY <3>5 DEF u, w
  <2>3. (step * c) * ControlTick = step * (c * ControlTick)
    BY <1>1, <1>2
  <2> DEFINE g == c * ControlTick
  <2>4. g \in Nat /\ g <= 2 * span
    BY <1>1, <1>2, <2>1
  <2> HIDE DEF g
  <2>5. step * g <= step * (2 * span)
    BY <2>4
  <2>6. step * (2 * span) = (step * 2) * span
    OBVIOUS
  <2>7. d * way <= step * g
    BY <2>2, <2>3 DEF g
  <2> DEFINE u == d * way
             v == step * g
             w == (step * 2) * span
  <2>8. u \in Int /\ v \in Int /\ w \in Int /\ u <= v /\ v <= w
    BY <2>4, <2>5, <2>6, <2>7
  <2> HIDE DEF u, v, w
  <2>9. u <= w
    BY <2>8
  <2> QED
    BY <2>9 DEF u, w
<1>5. CASE ~(span >= ControlTick)
  <2>1. c <= 1
    <3> SUFFICES ASSUME c >= 2 PROVE FALSE
      BY <1>2
    <3>1. c * ControlTick >= 2 * ControlTick
      BY <1>1, <1>2
    <3> QED
      BY <1>1, <1>2, <1>5, <3>1
  <2>2. d <= step
    BY <1>2, <1>3, <2>1
  <2>3. d * way <= step * span
    <3>1. d * way <= d * span
      OBVIOUS
    <3>2. d * span <= step * span
      BY <2>2
    <3> DEFINE u == d * way
               v == d * span
               w == step * span
    <3>3. u \in Int /\ v \in Int /\ w \in Int /\ u <= v /\ v <= w
      BY <3>1, <3>2
    <3> HIDE DEF u, v, w
    <3>4. u <= w
      BY <3>3
    <3> QED
      BY <3>4 DEF u, w
  <2>4. (step * 2) * span = 2 * (step * span) /\ step * span \in Nat
    OBVIOUS
  <2> DEFINE u == d * way
             w == step * span
  <2>5. u \in Int /\ w \in Nat /\ u <= w /\ (step * 2) * span = 2 * w
    BY <2>3, <2>4
  <2> HIDE DEF u, w
  <2>6. u <= 2 * w
    BY <2>5
  <2> QED
    BY <2>5, <2>6 DEF u
<1> QED
  BY <1>4, <1>5

-----------------------------------------------------------------------------
(* The rate is an invariant of the timeline.                                 *)

\* A joint does not move in no time.
LEMMA StandingStill ==
    ASSUME TypeOK, RateInv
    PROVE  WithinStep(output, output, policy.maximumStep, 2)
<1>1. /\ output \in [Joints -> Int] /\ policy.maximumStep \in [Joints -> Int]
      /\ \A j \in Joints : policy.maximumStep[j] >= 0
  BY DEF TypeOK, RateInv, Position, Policy
<1> SUFFICES ASSUME NEW j \in Joints
             PROVE  Distance(output[j], output[j]) <= policy.maximumStep[j] * 2
  BY DEF WithinStep
<1>2. output[j] \in Int /\ policy.maximumStep[j] \in Int /\ policy.maximumStep[j] >= 0
  BY <1>1
<1>3. Distance(output[j], output[j]) = 0
  BY <1>2 DEF Distance
<1> QED
  BY <1>2, <1>3

\* What a running stream with a queue stands on.
LEMMA Legs ==
    ASSUME TypeOK, TimelineInv, state = RUNNING, queue # <<>>
    PROVE  /\ anchor.position \in [Joints -> Int]
           /\ FirstSample.position \in [Joints -> Int]
           /\ policy.maximumStep \in [Joints -> Int]
           /\ Age(anchor.tick) \in Nat /\ Age(lastStep) \in Nat
           /\ Age(FirstSample.tick) \in Nat
           /\ anchor.tick \in Tick /\ FirstSample.tick \in Tick
           /\ Since \in Nat /\ Span \in Nat \ {0} /\ Since < Span
<1>1. anchor \in Setpoint /\ queue[1] \in Setpoint /\ lastStep \in Tick
  BY DEF TypeOK
<1>2. /\ anchor.position \in [Joints -> Int] /\ FirstSample.position \in [Joints -> Int]
      /\ anchor.tick \in Tick /\ FirstSample.tick \in Tick
  BY <1>1 DEF Setpoint, Position, FirstSample
<1>3. policy.maximumStep \in [Joints -> Int]
  BY DEF TypeOK, Policy
<1>4. /\ Age(anchor.tick) \in Nat /\ Age(lastStep) \in Nat /\ Age(FirstSample.tick) \in Nat
  BY <1>1, <1>2, AgeType
<1>5. Age(anchor.tick) <= Age(lastStep) /\ Age(FirstSample.tick) > Age(lastStep)
  BY DEF TimelineInv, StepInv
<1>6. Since \in Nat /\ Span \in Nat \ {0} /\ Since < Span
  BY <1>4, <1>5 DEF Since, Span
<1> QED
  BY <1>2, <1>3, <1>4, <1>6

\* From the output to a point of the leg at most one control tick after the
\* last step no joint moves further than two steps.
LEMMA WayOnLeg ==
    ASSUME TypeOK, TimelineInv, RateInv, state = RUNNING, queue # <<>>,
           NEW e \in 0 .. Since, IsInto(e),
           NEW f \in Nat, Since <= f, f <= Since + ControlTick, f <= Span
    PROVE  WithinStep(LegOf(e), LegOf(f), policy.maximumStep, 2)
<1>1. /\ anchor.position \in [Joints -> Int] /\ FirstSample.position \in [Joints -> Int]
      /\ policy.maximumStep \in [Joints -> Int]
      /\ Since \in Nat /\ Span \in Nat \ {0} /\ Since < Span
  BY Legs
<1> SUFFICES ASSUME NEW j \in Joints
             PROVE  Distance(LegOf(e)[j], LegOf(f)[j]) <= policy.maximumStep[j] * 2
  BY DEF WithinStep
<1> DEFINE x == anchor.position[j]
           y == FirstSample.position[j]
           step == policy.maximumStep[j]
           d == Distance(x, y)
<1>2. x \in Int /\ y \in Int /\ step \in Nat
  BY <1>1 DEF RateInv
<1>3. d \in Nat
  <2> HIDE DEF x, y
  <2> QED
    BY <1>2 DEF Distance
<1>4. e \in Nat /\ e <= f /\ f - e \in Nat /\ f - e <= Span /\ ControlTick \in Nat \ {0}
  BY <1>1, BoundTypes
<1>5. d * (f - e) <= (step * 2) * Span
  <2>1. CASE /\ e = Since
             /\ WithinStep(anchor.position, FirstSample.position, policy.maximumStep,
                           (Span + ControlTick - 1) \div ControlTick)
    <3>1. d <= step * ((Span + ControlTick - 1) \div ControlTick)
      BY <2>1 DEF WithinStep
    <3>2. f - e <= ControlTick
      BY <1>1, <1>4, <2>1
    <3> HIDE DEF d, step
    <3> QED
      BY <1>1, <1>2, <1>3, <1>4, <3>1, <3>2, AnyWay
  <2>2. CASE /\ Since - e < ControlTick
             /\ Steady(anchor.position, FirstSample.position, Span)
    <3>1. d * ControlTick <= step * Span
      BY <2>2 DEF Steady
    <3>2. f - e < 2 * ControlTick
      BY <1>1, <1>4, <2>2
    <3> HIDE DEF d, step
    <3> QED
      BY <1>1, <1>2, <1>3, <1>4, <3>1, <3>2, SteadyWay
  <2> QED
    BY <2>1, <2>2 DEF IsInto
<1>6. LegOf(e)[j] = Interpolate(x, y, e, Span) /\ LegOf(f)[j] = Interpolate(x, y, f, Span)
  BY DEF LegOf, InterpolatePosition
<1>7. Distance(Interpolate(x, y, e, Span), Interpolate(x, y, f, Span)) <= step * 2
  <2> HIDE DEF x, y, step
  <2>1. step * 2 \in Nat
    BY <1>2
  <2> QED
    BY <1>1, <1>2, <1>4, <1>5, <2>1, InterpolateStep
<1> QED
  BY <1>6, <1>7

\* Before a stream is opened there is no rate to keep.
LEMMA InitRate == Init => RateInv
<1> SUFFICES ASSUME Init PROVE RateInv
  OBVIOUS
<1>1. \A j \in Joints : policy.maximumStep[j] >= 0
  BY DEF Init, NoPolicy, Zeros
<1>2. LinksInv /\ LegInv
  BY DEF Init, LinksInv, LegInv
<1> QED
  BY <1>1, <1>2 DEF Init, RateInv, CLOSED, PRIMING

\* A stream that is not on a leg, and does not prime, has no rate to keep.
LEMMA OffLegRate ==
    ASSUME RateInv, policy' = policy, queue' = queue, seamless' = seamless,
           state' # PRIMING, state' = RUNNING => queue = <<>>
    PROVE  RateInv'
<1>1. LinksInv'
  BY DEF RateInv, LinksInv, Steady
<1>2. LegInv'
  BY DEF LegInv
<1> QED
  BY <1>1, <1>2 DEF RateInv

\* Steps that touch none of it.
LEMMA SameRate ==
    ASSUME RateInv, policy' = policy, queue' = queue, seamless' = seamless,
           state' = state, outputValid' = outputValid, output' = output,
           anchor' = anchor, lastStep' = lastStep
    PROVE  RateInv'
<1>1. LinksInv'
  BY DEF RateInv, LinksInv, Steady
<1>2. LegInv'
  BY DEF RateInv, LegInv, IsInto, LegOf, Since, Span, Steady, FirstSample
<1> QED
  BY <1>1, <1>2 DEF RateInv

\* A batch appended to a queue is as steady as it is behind its tail.
LEMMA AppendRate ==
    ASSUME ShortRun, IInv, TimelineInv, RateInv, NEW b, AppendBatch(b), Fits(b)
    PROVE  RateInv'
<1> DEFINE s == b.samples
           n == Len(queue)
           bound == RunLength + HardCaps.maximumLead
<1>1. /\ Admissible(b) /\ Enqueue(b, Len(queue)) /\ TypeOK
      /\ seamless' = (seamless /\ (state = PRIMING \/ queue # <<>>))
  BY DEF AppendBatch, IInv
<1>2. /\ policy' = policy /\ state' = state /\ outputValid' = outputValid
      /\ output' = output /\ anchor' = anchor /\ lastStep' = lastStep
  BY <1>1 DEF Enqueue, timeline
<1>3. queue \in Seq(Setpoint) /\ n \in Nat /\ n \in 0 .. Len(queue)
  BY <1>1 DEF TypeOK
<1>4. /\ s \in Seq(Setpoint) /\ Len(s) \in Nat \ {0}
      /\ \A i \in 1 .. Len(s) : Age(s[i].tick) <= bound
  BY <1>1, BatchOnGrid
<1>5. /\ queue' \in Seq(Setpoint) /\ queue' # <<>> /\ Len(queue') = n + Len(s)
      /\ \A i \in 1 .. n : queue'[i] = queue[i]
      /\ \A i \in n + 1 .. n + Len(s) : queue'[i] = s[i - n]
  BY <1>1, <1>3, EnqueuedSamples
<1>6. policy.maximumStep \in [Joints -> Int] /\ ControlTick \in Nat \ {0}
  BY <1>1, BoundTypes DEF TypeOK, Policy
\* what the code checks in control ticks
<1>7. ASSUME NEW x \in Setpoint, NEW y \in Setpoint,
             Age(x.tick) <= bound, Age(y.tick) <= bound, TickAfter(y.tick, x.tick),
             TickSub(y.tick, x.tick) % ControlTick = 0,
             WithinStep(x.position, y.position, policy.maximumStep,
                        TickSub(y.tick, x.tick) \div ControlTick)
      PROVE  Steady(x.position, y.position, Age(y.tick) - Age(x.tick))
  <2>1. /\ x.tick \in Tick /\ y.tick \in Tick
        /\ x.position \in [Joints -> Int] /\ y.position \in [Joints -> Int]
    BY DEF Setpoint, Position
  <2>2. Age(x.tick) \in Nat /\ Age(y.tick) \in Nat
    BY <2>1, AgeType
  <2>3. 2 * Age(x.tick) < TickModulus /\ 2 * Age(y.tick) < TickModulus
    BY <1>7, <2>2, BoundTypes, HalfRange
  <2> DEFINE delta == TickSub(y.tick, x.tick)
             ticks == delta \div ControlTick
  <2>4. Age(y.tick) > Age(x.tick) /\ delta = Age(y.tick) - Age(x.tick)
    BY <1>7, <2>1, <2>2, <2>3, AgeOrder
  <2>5. delta % ControlTick = 0
    BY <1>7
  <2>6. \A j \in Joints : Distance(x.position[j], y.position[j])
                             <= policy.maximumStep[j] * ticks
    BY <1>7 DEF WithinStep
  <2>7. delta \in Nat
    BY <2>2, <2>4
  <2> HIDE DEF delta
  <2>8. ticks \in Int /\ delta = ControlTick * ticks
    BY <1>6, <2>5, <2>7
  <2> HIDE DEF ticks
  <2>9. ASSUME NEW j \in Joints
        PROVE  Distance(x.position[j], y.position[j]) * ControlTick
                  <= policy.maximumStep[j] * delta
    <3> DEFINE d == Distance(x.position[j], y.position[j])
               step == policy.maximumStep[j]
    <3>1. d \in Nat /\ step \in Int
      <4>1. x.position[j] \in Int /\ y.position[j] \in Int
        BY <2>1
      <4> QED
        BY <1>6, <4>1 DEF Distance
    <3>2. d <= step * ticks
      BY <2>6
    <3> HIDE DEF d, step
    <3>3. d * ControlTick <= (step * ticks) * ControlTick
      <4> DEFINE w == step * ticks
      <4>1. w \in Int /\ d <= w
        BY <2>8, <3>1, <3>2
      <4> HIDE DEF w
      <4>2. d * ControlTick <= w * ControlTick
        BY <1>6, <3>1, <4>1
      <4> QED
        BY <4>2 DEF w
    <3>4. (step * ticks) * ControlTick = step * delta
      BY <1>6, <2>8, <3>1
    <3>5. d * ControlTick <= step * delta
      BY <3>3, <3>4
    <3> QED
      BY <3>5 DEF d, step
  <2> QED
    BY <2>4, <2>9 DEF Steady
<1>8. ASSUME seamless', NEW i \in 1 .. Len(queue') - 1
      PROVE  Steady(queue'[i].position, queue'[i + 1].position,
                    Age(queue'[i + 1].tick) - Age(queue'[i].tick))
  <2>1. CASE i < n
    <3>1. i \in 1 .. Len(queue) - 1 /\ i \in 1 .. n /\ i + 1 \in 1 .. n
      BY <1>3, <2>1
    <3> QED
      BY <1>1, <1>5, <1>8, <3>1 DEF RateInv, LinksInv
  <2>2. CASE i = n
    <3>1. /\ i \in 1 .. n /\ i + 1 \in n + 1 .. n + Len(s) /\ (i + 1) - n = 1
          /\ 1 \in 1 .. Len(s) /\ n \in 1 .. Len(queue) /\ Len(queue) > 0
      BY <1>3, <1>4, <2>2
    <3>2. queue'[i] = queue[n] /\ queue'[i + 1] = s[1]
      BY <1>5, <2>2, <3>1
    <3>3. queue[n] \in Setpoint /\ s[1] \in Setpoint
      BY <1>3, <1>4, <3>1
    <3>4. Age(queue[n].tick) <= bound /\ Age(s[1].tick) <= bound
      BY <1>4, <3>1 DEF TimelineInv, GridInv
    <3>5. FirstTick(b) = s[1].tick /\ LastSample = queue[n]
      BY DEF FirstTick, LastSample
    <3>6. queue # <<>>
      BY <3>1
    <3>7. TickAfter(s[1].tick, queue[n].tick)
      BY <3>5, <3>6 DEF AppendBatch, AppendValid
    <3>8. /\ TickSub(s[1].tick, queue[n].tick) % ControlTick = 0
          /\ WithinStep(queue[n].position, s[1].position, policy.maximumStep,
                        TickSub(s[1].tick, queue[n].tick) \div ControlTick)
      BY <3>1, <3>5, <3>7 DEF AppendBatch, ContinuesTail
    <3>9. Steady(queue[n].position, s[1].position, Age(s[1].tick) - Age(queue[n].tick))
      BY <1>7, <3>3, <3>4, <3>7, <3>8
    <3> QED
      BY <3>2, <3>9
  <2>3. CASE i > n
    <3> DEFINE k == i - n
    <3>1. /\ k \in 1 .. Len(s) - 1 /\ k \in 1 .. Len(s) /\ k + 1 \in 1 .. Len(s)
          /\ i \in n + 1 .. n + Len(s) /\ i + 1 \in n + 1 .. n + Len(s)
          /\ (i + 1) - n = k + 1
      <4> DEFINE l == Len(s)
                 m == Len(queue')
      <4>1. l \in Nat \ {0} /\ n \in Nat /\ m = n + l /\ i \in 1 .. m - 1 /\ i > n
        BY <1>3, <1>4, <1>5, <2>3
      <4> HIDE DEF l, m, n
      <4>2. /\ k \in 1 .. l - 1 /\ k \in 1 .. l /\ k + 1 \in 1 .. l
            /\ i \in n + 1 .. n + l /\ i + 1 \in n + 1 .. n + l
            /\ (i + 1) - n = k + 1
        BY <4>1
      <4> QED
        BY <4>2 DEF l
    <3>2. queue'[i] = s[k] /\ queue'[i + 1] = s[k + 1]
      BY <1>5, <3>1
    <3>3. s[k] \in Setpoint /\ s[k + 1] \in Setpoint
      BY <1>4, <3>1
    <3>4. Age(s[k].tick) <= bound /\ Age(s[k + 1].tick) <= bound
      BY <1>4, <3>1
    <3>5. TickAfter(s[k + 1].tick, s[k].tick)
      BY <1>1, <3>1 DEF Admissible, BatchDecodes
    <3>6. /\ TickSub(s[k + 1].tick, s[k].tick) % ControlTick = 0
          /\ WithinStep(s[k].position, s[k + 1].position, policy.maximumStep,
                        TickSub(s[k + 1].tick, s[k].tick) \div ControlTick)
      BY <1>1, <3>1 DEF Admissible, SamplesContinuous
    <3> HIDE DEF s, k
    <3>7. Steady(s[k].position, s[k + 1].position, Age(s[k + 1].tick) - Age(s[k].tick))
      BY <1>7, <3>3, <3>4, <3>5, <3>6
    <3> QED
      BY <3>2, <3>7
  <2> QED
    BY <1>3, <2>1, <2>2, <2>3
<1>9. LinksInv'
  BY <1>2, <1>8 DEF LinksInv, Steady
<1>10. LegInv'
  <2> SUFFICES ASSUME seamless', state' = RUNNING PROVE LegInv'
    BY DEF LegInv
  <2>1. queue # <<>> /\ seamless
    BY <1>1, <1>2 DEF RUNNING, PRIMING
  <2>2. queue'[1] = queue[1]
    <3>1. 1 \in 1 .. n
      BY <1>3, <2>1
    <3> QED
      BY <1>5, <3>1
  <2> QED
    BY <1>2, <2>1, <2>2
    DEF RateInv, LegInv, IsInto, LegOf, Since, Span, Steady, FirstSample
<1> QED
  BY <1>2, <1>9, <1>10 DEF RateInv

\* A splice is not seamless.
LEMMA SpliceRate ==
    ASSUME RateInv, NEW b, SpliceBatch(b) PROVE RateInv'
<1>1. /\ seamless' = FALSE /\ policy' = policy /\ state' = state
      /\ outputValid' = outputValid
  BY DEF SpliceBatch, Enqueue
<1> QED
  BY <1>1 DEF RateInv, LinksInv, LegInv

\* The first leg is checked from the measured anchor.
LEMMA StartRate ==
    ASSUME ShortRun, IInv, TimelineInv, RateInv, ControlStart
    PROVE  RateInv'
<1>1. PICK position \in Anchors : Start(event, position)
  BY DEF ControlStart
<1>2. /\ state = PRIMING /\ state' = RUNNING /\ policy' = policy /\ queue' = queue
      /\ seamless' = seamless /\ anchor' = [tick |-> event, position |-> position]
      /\ lastStep' = event /\ outputValid' = outputValid /\ event # NoEvent
      /\ anchor'.tick = event /\ anchor'.position = position
  BY <1>1 DEF ControlStart, Start, session
<1>3. ~outputValid'
  BY <1>2 DEF RateInv
<1>4. LinksInv'
  BY <1>2 DEF RateInv, LinksInv, Steady
<1>5. ASSUME queue # <<>>
      PROVE  \E e \in 0 .. Since' : IsInto(e)'
  <2>1. /\ event \in Tick /\ Age(event) \in Nat /\ Age(event) = Fired
        /\ tick \in Tick /\ Age(tick) \in Nat /\ Age(tick) <= RunLength
        /\ timer \in 1 .. ControlTick
    BY <1>2, AgeType DEF IInv, TypeOK, TimelineInv, ClockInv
  <2>2. 1 \in 1 .. Len(queue) /\ queue[1] \in Setpoint
    BY <1>5 DEF IInv, TypeOK
  <2>3. queue[1].tick \in Tick
    BY <2>2 DEF Setpoint
  <2>4. Age(queue[1].tick) \in Nat /\ Age(queue[1].tick) <= RunLength + HardCaps.maximumLead
    BY <2>2, <2>3, AgeType DEF TimelineInv, GridInv
  <2>5. Age(event) <= RunLength
    BY <2>1, BoundTypes DEF Fired
  <2>6. 2 * Age(queue[1].tick) < TickModulus /\ 2 * Age(event) < TickModulus
    BY <2>1, <2>4, <2>5, BoundTypes, HalfRange
  <2>7. /\ TickAfter(queue[1].tick, event)
        /\ WithinStep(position, queue[1].position, policy.maximumStep,
                      (TickSub(queue[1].tick, event) + ControlTick - 1) \div ControlTick)
    BY <1>1 DEF Start, FirstSample
  <2>8. TickSub(queue[1].tick, event) = Age(queue[1].tick) - Age(event)
    BY <2>1, <2>3, <2>4, <2>6, <2>7, AgeOrder
  <2>9. Since' = Age(event) - Age(event) /\ Span' = Age(queue[1].tick) - Age(event)
    BY <1>2 DEF Since, Span, FirstSample, Age
  <2>10. Since' = 0
    BY <2>1, <2>9
  <2>11. WithinStep(position, queue[1].position, policy.maximumStep,
                    (Span' + ControlTick - 1) \div ControlTick)
    BY <2>7, <2>8, <2>9
  <2>12. IsInto(0)'
    BY <1>2, <2>10, <2>11 DEF IsInto, FirstSample
  <2>13. 0 \in 0 .. Since'
    BY <2>10
  <2> QED
    BY <2>12, <2>13
<1>6. LegInv'
  BY <1>2, <1>3, <1>5 DEF LegInv
<1> QED
  BY <1>2, <1>4, <1>6 DEF RateInv, PRIMING, RUNNING

\* A seamless finite stream moves no joint further than two steps.
SmallMove ==
    seamless /\ outputValid => WithinStep(output, output', policy.maximumStep, 2)

\* An interpolated output is a point of the leg, one control tick further on.
LEMMA InterpolateRate ==
    ASSUME ShortRun, IInv, TimelineInv, RateInv, event # NoEvent,
           StepInterpolate(event)
    PROVE  RateInv' /\ SmallMove
<1>1. /\ state = RUNNING /\ queue # <<>> /\ ~Due(event) /\ lastStep' = event
      /\ state' = state /\ policy' = policy /\ queue' = queue
      /\ seamless' = seamless /\ anchor' = anchor
      /\ outputValid' = TRUE
      /\ output' = InterpolatePosition(anchor.position, FirstSample.position,
                                       TickSub(event, anchor.tick),
                                       TickSub(FirstSample.tick, anchor.tick))
  BY DEF StepInterpolate, StepOnTime, Stepping, Emit, session, timeline
<1>2. /\ event \in Tick /\ Age(event) \in Nat
      /\ Age(event) \in {Age(lastStep), Age(lastStep) + ControlTick}
      /\ Age(FirstSample.tick) <= RunLength + HardCaps.maximumLead
      /\ ~(Age(FirstSample.tick) <= Age(event))
  BY <1>1, EventOnTime DEF IInv
<1>3. /\ Age(anchor.tick) \in Nat /\ Age(lastStep) \in Nat
      /\ Age(FirstSample.tick) \in Nat
      /\ anchor.tick \in Tick /\ FirstSample.tick \in Tick
      /\ Since \in Nat /\ Span \in Nat \ {0} /\ Since < Span
  BY <1>1, Legs DEF IInv
<1>4. PICK f \in Nat : f = Age(event) - Age(anchor.tick)
  <2>1. Age(event) - Age(anchor.tick) \in Nat
    BY <1>2, <1>3, BoundTypes DEF Since
  <2> QED
    BY <2>1
<1>5. f <= Span /\ Since <= f /\ f <= Since + ControlTick
  BY <1>2, <1>3, <1>4, BoundTypes DEF Since, Span
<1>6. output' = LegOf(f)
  <2>1. Age(event) >= Age(anchor.tick) /\ Age(FirstSample.tick) >= Age(anchor.tick)
    BY <1>2, <1>3, <1>4
  <2>2. 2 * Age(FirstSample.tick) < TickModulus
    BY <1>2, <1>3, BoundTypes, HalfRange
  <2>3. 2 * Age(event) < TickModulus /\ 2 * Age(anchor.tick) < TickModulus
    BY <1>2, <1>3, <2>1, <2>2, BoundTypes
  <2>4. TickSub(event, anchor.tick) = f
    BY <1>2, <1>3, <1>4, <2>1, <2>3, AgeOrder
  <2>5. TickSub(FirstSample.tick, anchor.tick) = Span
    BY <1>3, <2>1, <2>2, <2>3, AgeOrder DEF Span
  <2> QED
    BY <1>1, <2>4, <2>5 DEF LegOf
<1>7. ASSUME seamless
      PROVE  \E e \in 0 .. Since : IsInto(e) /\ (outputValid => output = LegOf(e))
  BY <1>1, <1>7 DEF RateInv, LegInv
<1>8. SmallMove
  <2> SUFFICES ASSUME seamless, outputValid
               PROVE  WithinStep(output, output', policy.maximumStep, 2)
    BY DEF SmallMove
  <2>1. PICK e \in 0 .. Since : IsInto(e) /\ output = LegOf(e)
    BY <1>7
  <2>2. WithinStep(LegOf(e), LegOf(f), policy.maximumStep, 2)
    BY <1>1, <1>5, <2>1, WayOnLeg DEF IInv
  <2> QED
    BY <1>6, <2>1, <2>2
<1>9. LinksInv'
  BY <1>1 DEF RateInv, LinksInv, Steady
<1>10. LegInv'
  <2> SUFFICES ASSUME seamless PROVE LegInv'
    BY <1>1 DEF LegInv
  <2>1. PICK e \in 0 .. Since : IsInto(e)
    BY <1>7
  <2>2. Since' = f /\ Span' = Span
    BY <1>1, <1>4 DEF Since, Span, FirstSample, Age
  <2>3. IsInto(f)'
    <3>1. CASE WithinStep(anchor.position, FirstSample.position, policy.maximumStep,
                          (Span + ControlTick - 1) \div ControlTick)
      BY <1>1, <2>2, <3>1 DEF IsInto, FirstSample
    <3>2. CASE Steady(anchor.position, FirstSample.position, Span)
      <4>1. f - f < ControlTick
        BY BoundTypes
      <4>2. Steady(anchor.position, FirstSample.position, Span)'
        BY <1>1, <2>2, <3>2 DEF Steady, FirstSample
      <4> QED
        BY <2>2, <4>1, <4>2 DEF IsInto
    <3> QED
      BY <2>1, <3>1, <3>2 DEF IsInto
  <2>4. LegOf(f)' = LegOf(f)
    BY <1>1, <2>2 DEF LegOf, FirstSample
  <2>5. f \in 0 .. Since'
    BY <2>2
  <2> QED
    BY <1>6, <2>3, <2>4, <2>5 DEF LegInv
<1> QED
  BY <1>1, <1>8, <1>9, <1>10 DEF RateInv, PRIMING, RUNNING

\* An applied sample is the end of its leg and the beginning of the next.
LEMMA ApplyRate ==
    ASSUME ShortRun, IInv, TimelineInv, TimelineInv', RateInv, event # NoEvent,
           StepApply(event)
    PROVE  RateInv' /\ SmallMove
<1>1. /\ state = RUNNING /\ queue # <<>> /\ Due(event) /\ lastStep' = event
      /\ state' \in {RUNNING, SUCCEEDED}
      /\ policy' = policy /\ queue' = Tail(queue)
      /\ seamless' = seamless /\ anchor' = FirstSample
      /\ outputValid' = TRUE /\ output' = FirstSample.position
  BY DEF StepApply, StepOnTime, Stepping, Emit, ConsumeFirst, Terminate
<1>2. /\ event \in Tick /\ Age(event) \in Nat
      /\ Age(event) \in {Age(lastStep), Age(lastStep) + ControlTick}
      /\ Age(FirstSample.tick) <= Age(event)
  BY <1>1, EventOnTime DEF IInv
<1>3. /\ Age(anchor.tick) \in Nat /\ Age(lastStep) \in Nat
      /\ Age(FirstSample.tick) \in Nat
      /\ Since \in Nat /\ Span \in Nat \ {0} /\ Since < Span
      /\ anchor.position \in [Joints -> Int]
      /\ FirstSample.position \in [Joints -> Int]
  BY <1>1, Legs DEF IInv
<1>4. Age(FirstSample.tick) > Age(lastStep)
  BY <1>1 DEF TimelineInv, StepInv
<1>5. \A x, y \in [Joints -> Int], span \in Nat \ {0} :
         /\ InterpolatePosition(x, y, 0, span) = x
         /\ InterpolatePosition(x, y, span, span) = y
  <2> SUFFICES ASSUME NEW x \in [Joints -> Int], NEW y \in [Joints -> Int],
                      NEW span \in Nat \ {0}
               PROVE  /\ InterpolatePosition(x, y, 0, span) = x
                      /\ InterpolatePosition(x, y, span, span) = y
    OBVIOUS
  <2>1. \A j \in Joints : /\ Interpolate(x[j], y[j], 0, span) = x[j]
                          /\ Interpolate(x[j], y[j], span, span) = y[j]
    BY InterpolateEnds
  <2> QED
    BY <2>1 DEF InterpolatePosition
<1>6. SmallMove
  <2> SUFFICES ASSUME seamless, outputValid
               PROVE  WithinStep(output, output', policy.maximumStep, 2)
    BY DEF SmallMove
  <2>1. PICK e \in 0 .. Since : IsInto(e) /\ output = LegOf(e)
    BY <1>1 DEF RateInv, LegInv
  <2>2. Since <= Span /\ Span <= Since + ControlTick /\ Span <= Span /\ Span \in Nat
    BY <1>2, <1>3, BoundTypes DEF Since, Span
  <2>3. WithinStep(LegOf(e), LegOf(Span), policy.maximumStep, 2)
    BY <1>1, <2>1, <2>2, WayOnLeg, SMTT(20) DEF IInv
  <2>4. LegOf(Span) = output'
    BY <1>1, <1>3, <1>5 DEF LegOf
  <2> QED
    BY <2>1, <2>3, <2>4
<1>7. queue \in Seq(Setpoint) /\ Len(queue) \in Nat \ {0}
  BY <1>1 DEF IInv, TypeOK
<1>8. /\ queue' \in Seq(Setpoint) /\ Len(queue') = Len(queue) - 1
      /\ \A i \in 1 .. Len(queue) - 1 : queue'[i] = queue[i + 1]
  <2>1. /\ Tail(queue) \in Seq(Setpoint) /\ Len(Tail(queue)) = Len(queue) - 1
        /\ \A i \in 1 .. Len(queue) - 1 : Tail(queue)[i] = queue[i + 1]
    BY <1>1, <1>7, HeadTailProperties
  <2> QED
    BY <1>1, <2>1
<1>9. LinksInv'
  <2> SUFFICES ASSUME seamless, NEW i \in 1 .. Len(queue') - 1
               PROVE  Steady(queue'[i].position, queue'[i + 1].position,
                             Age(queue'[i + 1].tick) - Age(queue'[i].tick))
    BY <1>1 DEF LinksInv, Steady
  <2>1. /\ i \in 1 .. Len(queue) - 1 /\ i + 1 \in 1 .. Len(queue) - 1
    <3> DEFINE l == Len(queue)
               m == Len(queue')
    <3>1. l \in Nat /\ m = l - 1 /\ i \in 1 .. m - 1
      BY <1>7, <1>8
    <3> HIDE DEF l, m
    <3>2. i \in 1 .. l - 1 /\ i + 1 \in 1 .. l - 1
      BY <3>1
    <3> QED
      BY <3>2 DEF l
  <2>2. queue'[i] = queue[i + 1] /\ queue'[i + 1] = queue[(i + 1) + 1]
    BY <1>8, <2>1
  <2> QED
    BY <2>1, <2>2 DEF RateInv, LinksInv
<1>10. LegInv'
  <2> SUFFICES ASSUME seamless, queue' # <<>>, state' = RUNNING PROVE LegInv'
    BY <1>1 DEF LegInv
  <2>1. 1 \in 1 .. Len(queue) - 1
    <3>1. Len(queue') # 0
      BY <1>8, EmptySeq
    <3> DEFINE l == Len(queue)
    <3>2. l \in Nat \ {0} /\ l - 1 # 0
      BY <1>7, <1>8, <3>1
    <3> HIDE DEF l
    <3>3. 1 \in 1 .. l - 1
      BY <3>2
    <3> QED
      BY <3>3 DEF l
  <2>2. queue'[1] = queue[2] /\ FirstSample = queue[1]
    BY <1>8, <2>1 DEF FirstSample
  <2>3. /\ Since' = Age(event) - Age(FirstSample.tick)
        /\ Span' = Age(queue[2].tick) - Age(queue[1].tick)
    BY <1>1, <2>2 DEF Since, Span, FirstSample, Age
  <2>4. Since' \in Nat /\ Since' - 0 < ControlTick
    BY <1>2, <1>3, <1>4, <2>3, BoundTypes
  <2>5. Span' \in Nat \ {0}
    <3>1. queue'[1] \in Setpoint /\ queue[1] \in Setpoint
      BY <1>7, <1>8, <2>1
    <3>2. queue[2].tick \in Tick /\ queue[1].tick \in Tick
      BY <2>2, <3>1 DEF Setpoint
    <3>3. Age(queue[2].tick) > Age(event)
      BY <1>1, <2>2 DEF TimelineInv, StepInv, FirstSample, Age
    <3>4. Age(queue[2].tick) \in Nat
      BY <3>2, AgeType
    <3> QED
      BY <1>2, <1>3, <2>2, <2>3, <3>3, <3>4
  <2>6. Steady(queue[1].position, queue[2].position,
               Age(queue[2].tick) - Age(queue[1].tick))
    BY <2>1 DEF RateInv, LinksInv
  <2>7. Steady(anchor.position, FirstSample.position, Span)'
    BY <1>1, <2>2, <2>3, <2>6 DEF Steady, FirstSample
  <2>8. IsInto(0)'
    BY <2>4, <2>7 DEF IsInto
  <2>9. output' = LegOf(0)'
    <3>1. LegOf(0)' = InterpolatePosition(queue[1].position, queue[2].position, 0, Span')
      BY <1>1, <2>2 DEF LegOf, FirstSample
    <3>2. queue'[1] \in Setpoint
      BY <1>8, <2>1
    <3>3. queue[2].position \in [Joints -> Int]
      BY <2>2, <3>2 DEF Setpoint, Position
    <3>4. queue[1].position \in [Joints -> Int]
      BY <1>3, <2>2
    <3> QED
      BY <1>1, <1>5, <2>2, <2>5, <3>1, <3>3, <3>4, ZenonT(40)
  <2>10. 0 \in 0 .. Since'
    BY <2>4
  <2> QED
    BY <2>8, <2>9, <2>10 DEF LegInv
<1> QED
  BY <1>1, <1>6, <1>9, <1>10 DEF RateInv, PRIMING, RUNNING, SUCCEEDED

\* Every step of a fitting host, clock and main loop keeps the rate.
LEMMA NextRate ==
    ASSUME ShortRun, IInv, HostFits, TimelineInv, TimelineInv', RateInv, [Next]_vars
    PROVE  RateInv'
<1>1. CASE ClockTick
  <2>1. /\ policy' = policy /\ queue' = queue /\ seamless' = seamless
        /\ state' = state /\ outputValid' = outputValid /\ output' = output
        /\ anchor' = anchor /\ lastStep' = lastStep
    BY <1>1 DEF ClockTick, session, timeline
  <2> QED
    BY <2>1, SameRate
<1>2. ASSUME NEW p \in OpenRequests(tick), Open(p) PROVE RateInv'
  <2>1. /\ policy' = p /\ queue' = <<>> /\ state' = PRIMING /\ outputValid' = FALSE
        /\ p \in Policy /\ \A j \in Joints : 0 < p.maximumStep[j]
    BY <1>2 DEF Open, PolicyValid
  <2>2. \A j \in Joints : policy'.maximumStep[j] >= 0
    <3> SUFFICES ASSUME NEW j \in Joints PROVE p.maximumStep[j] >= 0
      BY <2>1
    <3>1. p.maximumStep \in [Joints -> Int]
      BY <2>1 DEF Policy
    <3>2. p.maximumStep[j] \in Int /\ 0 < p.maximumStep[j]
      BY <2>1, <3>1
    <3> QED
      BY <3>2
  <2>3. LinksInv' /\ LegInv'
    BY <2>1 DEF LinksInv, LegInv
  <2> QED
    BY <2>1, <2>2, <2>3 DEF RateInv
<1>3. ASSUME NEW b \in BatchRequests(tick, horizon, queue),
             AppendBatch(b) \/ SpliceBatch(b)
      PROVE  RateInv'
  <2>1. Fits(b)
    BY DEF HostFits
  <2> QED
    BY <1>3, <2>1, AppendRate, SpliceRate
<1>4. CASE ControlStart
  BY <1>4, StartRate
<1>5. CASE ControlStep
  <2>1. event # NoEvent /\ Step(event)
    BY <1>5 DEF ControlStep, TakeEvent
  <2>2. CASE StepApply(event)
    BY <2>1, <2>2, ApplyRate
  <2>3. CASE StepInterpolate(event)
    BY <2>1, <2>3, InterpolateRate
  <2>4. CASE ~StepApply(event) /\ ~StepInterpolate(event)
    <3>1. /\ policy' = policy /\ queue' = queue /\ seamless' = seamless
      BY <2>1, <2>4
      DEF Step, StepRewound, StepCommandTimeout, StepUnderflow, StepKeep, StepMissed,
          StepOutOfSpan, session
    <3>2. state' # PRIMING
      BY <2>1, <2>4
      DEF Step, StepRewound, StepCommandTimeout, StepUnderflow, StepKeep, StepMissed,
          StepOutOfSpan, StepOnTime, Stepping, Terminate, PRIMING, RUNNING, HOLD, ABORTED
    <3>3. state' = RUNNING => queue = <<>>
      BY <2>1, <2>4
      DEF Step, StepRewound, StepCommandTimeout, StepUnderflow, StepKeep, StepMissed,
          StepOutOfSpan, Terminate, RUNNING, HOLD, ABORTED
    <3> QED
      BY <3>1, <3>2, <3>3, OffLegRate
  <2> QED
    BY <2>2, <2>3, <2>4
<1>6. ASSUME NEW j \in Joints, NEW error \in FeedbackErrors, CheckJointFeedback(j, error)
      PROVE  RateInv'
  <2>1. /\ policy' = policy /\ queue' = queue /\ seamless' = seamless
        /\ state' = ABORTED
    BY <1>6 DEF CheckJointFeedback, Terminate, session
  <2> QED
    BY <2>1, OffLegRate DEF ABORTED, PRIMING, RUNNING
<1>7. CASE Reset
  <2>1. /\ state' = CLOSED /\ policy' = NoPolicy /\ queue' = <<>>
    BY <1>7 DEF Reset
  <2>2. \A j \in Joints : policy'.maximumStep[j] >= 0
    BY <2>1 DEF NoPolicy, Zeros
  <2>3. LinksInv' /\ LegInv'
    BY <2>1 DEF LinksInv, LegInv
  <2> QED
    BY <2>1, <2>2, <2>3 DEF RateInv, CLOSED, PRIMING
<1>8. CASE UNCHANGED vars
  <2>1. /\ policy' = policy /\ queue' = queue /\ seamless' = seamless
        /\ state' = state /\ outputValid' = outputValid /\ output' = output
        /\ anchor' = anchor /\ lastStep' = lastStep
    BY <1>8 DEF vars
  <2> QED
    BY <2>1, SameRate
<1> QED
  BY <1>1, <1>2, <1>3, <1>4, <1>5, <1>6, <1>7, <1>8 DEF Next

\* Only an interpolation and an applied sample change the output of a finite
\* stream.
LEMMA FiniteOutputs ==
    ASSUME [Next]_vars, horizon # 0, outputValid'
    PROVE  \/ output' = output
           \/ /\ event # NoEvent
              /\ StepApply(event) \/ StepInterpolate(event)
<1>1. CASE ControlStep
  BY <1>1
  DEF ControlStep, TakeEvent, Step, StepRewound, StepCommandTimeout, StepUnderflow,
      StepKeep, StepMissed, StepOutOfSpan, StepOnTime, CommandStale
<1>2. CASE ~ControlStep
  BY <1>2
  DEF Next, ClockTick, Open, AppendBatch, SpliceBatch, Enqueue, ControlStart, Start,
      CheckJointFeedback, Reset, vars
<1> QED
  BY <1>1, <1>2

\* A stream that is seamless after a step with outputs was so before it.
LEMMA SeamlessBefore ==
    ASSUME IInv, [Next]_vars, seamless', outputValid'
    PROVE  seamless
<1>1. ASSUME NEW b, AppendBatch(b) PROVE seamless
  BY <1>1 DEF AppendBatch, IInv, TypeOK
<1>2. CASE ControlStep
  BY <1>2
  DEF ControlStep, Step, StepRewound, StepCommandTimeout, StepUnderflow, StepKeep,
      StepMissed, StepApply, StepOutOfSpan, StepInterpolate, session
<1> QED
  BY <1>1, <1>2
  DEF Next, ClockTick, Open, SpliceBatch, ControlStart, Start, CheckJointFeedback,
      Reset, vars, session

\* A seamless finite stream moves a joint by at most two maximum steps from
\* one output to the next, for any rounding of its samples to the control
\* grid, any batches they came in and any joints.
THEOREM OutputRateIsBounded ==
    ASSUME EventJitter = 0, ShortRun
    PROVE  Spec /\ []HostFits => SeamlessOutputRate
<1>1. Init => RateInv
  BY InitRate
<1>2. IInv /\ HostFits /\ TimelineInv /\ TimelineInv' /\ RateInv /\ [Next]_vars
        => RateInv'
  BY NextRate
<1>3. IInv /\ TimelineInv /\ TimelineInv' /\ RateInv /\ [Next]_vars =>
        [seamless' /\ horizon # 0 /\ outputValid /\ outputValid' =>
            WithinStep(output, output', policy.maximumStep, 2)]_vars
  <2> SUFFICES ASSUME IInv, TimelineInv, TimelineInv', RateInv, [Next]_vars,
                      seamless', horizon # 0, outputValid, outputValid'
               PROVE  WithinStep(output, output', policy.maximumStep, 2)
    OBVIOUS
  <2>1. seamless
    BY SeamlessBefore
  <2>2. CASE output' = output
    BY <2>2, StandingStill DEF IInv
  <2>3. CASE event # NoEvent /\ StepApply(event)
    BY <2>1, <2>3, ApplyRate DEF SmallMove
  <2>4. CASE event # NoEvent /\ StepInterpolate(event)
    BY <2>1, <2>4, InterpolateRate DEF SmallMove
  <2> QED
    BY <2>2, <2>3, <2>4, FiniteOutputs
<1> QED
  BY <1>1, <1>2, <1>3, Invariance, SpecTimeline, PTL DEF Spec, SeamlessOutputRate

=============================================================================
