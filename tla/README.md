# Verification of the bimanual manipulation stack

This directory holds TLA+ models of the program in `src/`: two six-joint servo
arms, an STM32G474 that drives them, and the ROS 2 host that commands the STM32.
The models are translated from the source; documents and tests are quoted only
where a run compares the code with what they say.

All paths below are relative to `src/`. `EX` stands for
`firmware/stm32_actuator/src`, `FW` for `firmware/stm32_g474_single_arm/Core/Src`
and `PY` for `ros2_ws/src/single_arm_bridge/single_arm_bridge`.

## 1. Inventory

### 1.1 The system

```
 MoveIt / action servers / teleoperation            (ROS 2 processes)
        |  goals                      MotionGoalArbiter, BackendLease
 bimanual_stream_adapter.py                          host side of a stream
        |  STREAM_OPEN, SETPOINT_BATCH, HEARTBEAT, ARM, ENABLE, ... (COBS frames)
 stream_transport_v2.py  ===== UART =====  host_uart_rx/tx.c rings (interrupts)
                                                |
                     binary_control.c           main loop of the STM32
        +-----------------+-----------------+------------------+
  safety.c         stream_executor_v2.c    bimanual_tracking_feedback.c
  (who may         (queue -> one output    (measured positions of both
   move)            per control tick)       arms, overlapped with motion)
                          |                          |
            bimanual_servo_dispatch.c          servo_bus.c, right_servo_bus.c
            (one DMA transfer per arm)         (request/reply per servo)
                          |                          |
                  left UART bus              right UART bus     (servos)
 control_tick.c: TIM6 interrupt, the 5 ms grid all of this runs on
```

### 1.2 Components

| Component | State it keeps | Operations | Interacts with |
|---|---|---|---|
| Stream executor v2, `EX/stream_executor_v2.c`, `stream_session_v2.c` | CLOSED / PRIMING / RUNNING / HOLD / SUCCEEDED / ABORTED, policy, queue, anchor, last output, last step, command age | init, open, admit (append or splice), start, step, check feedback | called by the main loop only, with ticks from two clocks |
| Stream contract v2, `EX/stream_contract_v2.c` | none | decode and validate policies and batches | executor, runtime |
| Control tick, `FW/control_tick.c` | pending event, missed events | TIM6 interrupt, take, clear | interrupt to main loop, through a critical section |
| Safety state machine, `EX/safety.c` | BOOT / SAFE_DISABLED / ARMED / ACTIVE / HOLD / FAULT / ESTOPPED, fault, heartbeat age | nine requests and a tick | runtime; decides whether torque and setpoints are allowed |
| Paired servo dispatch, `EX/bimanual_dispatch.c`, `FW/bimanual_servo_dispatch.c` | cycle state, per-arm completion, fault latch | init, launch, transmit-complete, UART error, stop | main loop and two interrupt sources |
| Tracking feedback, `FW/bimanual_tracking_feedback.c`, telemetry halves of `servo_bus.c`, `right_servo_bus.c` | sample in flight, next joint, failure streak; one request/reply machine per bus | begin, start, poll, end | shares both buses with the dispatch |
| Resident runtime, `FW/binary_control.c`, `single_arm_app.c` | stop latches, clock and dispatch flags, torque and stream flags | one handler per frame type, main-loop service, coordinated stop, two watchdogs | everything above |
| Host UART rings, `FW/host_uart_rx.c`, `host_uart_tx.c` | ring indices, fault latch | interrupt producer/consumer, main-loop consumer/producer | runtime |
| Servo buses (synchronous), `FW/servo_bus.c`, `right_servo_bus.c`, `servo_rx_window.c`, `servo_response_parser.c` | receive window | blocking register reads and writes | runtime, before and after a stream |
| Frame protocol, `EX/protocol.c`, `cobs.c`, `crc32c.c`, `PY/protocol.py` | parser buffer | encode, decode, resynchronise | both ends of the host link |
| Goal map and calibration, `EX/bimanual_goal_map.c`, `calibration.c`, `FW/bimanual_operational_limits.c`, `PY/calibration.py` | none | unit conversion and limits | dispatch, feedback |
| Joint unwrapping, `EX/joint_unwrap.c`, `PY/joint_unwrap.py` | last raw value, turns | update | v1 feedback |
| Protocol v1 buffered execution, `EX/buffered_executor.c`, `setpoint_queue.c`, `buffered_command_route.c`, `PY/buffered_*.py` | the single-arm predecessor of the stream executor | open, append, start, step | not compiled into the two-arm routes |
| Host stream adapter, `PY/bimanual_stream_adapter.py`, `stream_protocol_v2.py`, `stream_transport_v2.py` | its own copy of the planned queue, epochs, phase of the stream | prepare, start, append, splice, poll, stop | firmware over a lossy request/response link |
| Backend lease, `PY/backend_lease.py` | a lock file | acquire, release | other processes |
| Motion goal arbiter, `PY/motion_goal_arbiter.py` | owner of the arms | acquire, release | action servers |
| Camera manager, `ros2_ws/src/manipulation_camera_manager` | latest-frame slot, phase schedule | publish, take, schedule | capture and decode threads |
| Simulation, perception, descriptions, tools, vendor HAL | - | - | not modelled: numeric, declarative, one-shot or third party |

### 1.3 What is hard here

* **Two clocks and two contexts.** TIM6 leaves the tick *it* read; the main loop
  stamps commands with the tick *it* reads. Ages, deadlines and apply ticks mix both.
* **A queue rewritten while it drains.** Appends need a tail to be rate-checked
  against, splices cut the queue, the horizon may be extended, the queue may run dry.
* **Rounding.** Samples need not lie on the control grid; they are rounded up when
  applied, rounded up when rate-checked, and not rounded when interpolated.
* **Interrupts between statements.** Launching a paired transfer takes two DMA starts;
  completions and errors arrive between them.
* **Two buses, one deadline.** Feedback reads one joint of both arms at once, while
  the same buses carry the setpoints; one arm may fail while the other still waits.
* **Stopping.** A stop requested in one handler is performed in the main loop later;
  what is left running, latched or cleared decides whether the arms can be used again.
* **A silent host.** Frames are lost or late; the host may die with a stream open.
* **Two pictures of one queue.** The adapter never asks the firmware for its queue; it
  appends and splices against its own copy of what it sent, while the firmware drains it.
* **Bytes that are lost.** The host's bytes keep arriving while the main loop waits for a
  servo; what follows a gap must not move the arms.

`PROJECT.json` lists each hazard at its line with the properties that cover it.

### 1.4 What makes each component correct

* Executor: outputs inside the joint limits; the queue ordered and bounded; samples
  applied once, on time, in order; bounded motion per tick; success only when the plan
  was completed; safety stops latched; abandoned streams end.
* Dispatch: both arms or neither; a cycle completes only when both transfers did; a
  fault stays latched and is never followed by another launch.
* Feedback: a sample is a pair read in the same cycle; the two buses are never used by
  two parties; a tolerated failure does not end the stream.
* Safety: setpoints only in ACTIVE, no torque outside ACTIVE and HOLD; faults and the emergency stop are left
  only by an explicit clear and never straight into motion.
* Runtime: nothing is launched after a stop; every latched stop reaches both arms; the
  arms are never moved unwatched; every stream starts from a fresh anchor.
* Adapter: its copy of the queue is the firmware's; a late answer is never taken for
  another request's; a plan is reported done only when it is; torque is never taken off by
  mistake, and always in the end.
* Host UART: a gap in the bytes stops the arms before anything acts on what follows; a
  reply is not overwritten on its way out; replies leave.

## 2. Plan

Order: what decides where the arms go and whether they stop comes first, the host's
side second, encodings and conversions last.

| # | Module | Stands for | State |
|---|---|---|---|
| 1 | `Ticks`, `StreamContract` | uint32 tick arithmetic; policies and batches | done |
| 2 | `StreamExecutor`, `MCStreamExecutor`, `StreamExecutorProofs` | the executor and its session | done; every safety property proved |
| 3 | `PairedCycle` (abstract), `PairedDispatch`, `PairedDispatchProofs` | the paired DMA dispatch | done, with the refinement proved |
| 4 | `SafetyState`, `ResidentRuntime`, `ResidentRuntimeProofs` | main loop, frames, watchdogs, stops | done |
| 5 | `TrackingFeedback`, `TrackingFeedbackProofs` | in-motion position reads of both buses, terminal settling | done |
| 6 | `StreamTransport`, `FirmwareSession`, `AdapterSession`, `MCAdapterSession`, `AdapterSessionProofs`, `SessionTypeProofs`, `SessionQueueProofs` | the host adapter, the exchange below it over a link that loses and delays frames, and the firmware as a session meets it | done |
| 7 | `HostUart`, `HostUartProofs` | interrupt/main-loop rings of the host UART, fault latches, the burst between them | done |
| 8 | `ResponseParser` | the servos' answers, resynchronised, against a reference scanner | open |
| 9 | `JointUnwrap`, `GoalMap` | encoder unwrapping and unit conversion, against exact arithmetic | open |
| 10 | `BufferedExecutor` | the v1 single-arm executor, refining the same "samples in order, once" abstraction as the v2 one | open |
| 11 | `CameraSlot` | latest-frame hand-over of the camera manager | open |

The lease of the serial port and the goal arbiter, once planned here, have no
interleaving of their own: one is a file lock, the other two fields behind a mutex.

Abstract specifications worth stating: `PairedCycle` (done: what the runtime may assume
of the dispatch); a *command stream* (each accepted sample is applied at most once, in
order, or replaced) that both executors implement.

Every invariant and action property of the passing runs is now also a theorem (section 6).
Worth proving next: that `StreamExecutor` and `TrackingFeedback` implement what
`ResidentRuntime` assumes of them, as `PairedDispatch` is proved to implement `PairedCycle`; the
theorems of the modules that are still open.

## 3. Modules and the code

`PROJECT.json` maps every definition to its lines. This is the reading guide.

### 3.1 Ticks, StreamContract

A tick is a member of `0 .. TickModulus - 1`. `TickAfter`/`TickBefore` are the signed
comparison of the difference, as in `stream_contract_v2.c`; every subtraction wraps.
`PolicyValid`, `BatchDecodes`, `WindowValid` and `SamplesContinuous` are the contract's
checks in the order the code makes them; a batch is a record, its bytes are left out.

### 3.2 StreamExecutor

One variable per field of `actuator_v2_stream_executor_t`, its session and its
diagnostics that control depends on, plus three of the environment: `tick`
(`HAL_GetTick()`), `timer` (phase of TIM6) and `event` (the tick TIM6 left for the main
loop). Actions: `Open`, `AppendBatch` and `SpliceBatch` (a batch that a check refuses changes
nothing), `ControlStart`, `ControlStep` with one operator per outcome (output, hold for
a timeout or an empty queue, planned success, each abort), `CheckJointFeedback`, `Reset`,
and `ClockTick`. Two contexts touch it: frames are stamped
with `tick`, steps with `event`, and any number of frames may come between the interrupt
and the step that uses its tick. `seamless` is a history variable: it becomes false
when a batch is queued behind an empty queue, the one place where the code has nothing to
rate-check a batch against.

Positions are integers per joint; interpolation truncates as the code's integer division
does.

### 3.3 PairedCycle, PairedDispatch

`pc` is the statement of `BimanualServoDispatch_Launch` the main loop has reached; transmit
and error interrupts are actions enabled at every value of it, including a completion
between the DMA start and `begin`, and an error between `begin`'s checks and its
assignments. `tx` says what each UART carries, so that telemetry requests compete for the
same wires. Setting `launch_in_progress` and starting the first transfer are two statements and
two steps: an error interrupt between them latches the fault, and the packet is started all
the same; so is the right one if the error comes after the left. `LaunchRefused` covers a
packet that cannot be built as well.

`PairedCycle` is what the rest of the firmware relies on: packets go out in pairs. A pair is
begun only when the last one is out on both buses (`StartPair`), each arm gets one packet of it
(`StartPacket`), and only the last delivery of a pair that was started on every arm makes the
dispatch ready again (`CompletePair`). A fault (`GiveUp`) ends this until a reset; what the
interrupted pair has not sent may still follow, once per arm. `InPairs` says what this amounts
to, and is proved of `PairedCycle` alone. The refinement maps `phase` to `faulted`, `active`
and `pc`, and `started`, `sending` and `pairs` to the place in the launch, the setpoint
packets on the buses and the completed cycles.

One assumption about interrupt priorities is taken from the configuration: the DMA
completions (priority 1) and the UART completions (priority 2) may interrupt the main loop
anywhere, and each other's order is free.

### 3.4 SafetyState, ResidentRuntime

`SafetyState` has the safety state as a record and each request of `safety.c` as a function
of it. `ResidentRuntime` is the main loop: `loop` says which part of
`SingleArmApp_Process` runs next. In `frames` any number of frames are handled, one action
per frame type with its refusals; then come `Watchdogs` (`BinaryControl_Service`), the
tracking service and the executor service, one action per outcome. Interrupts and time
are interleaved everywhere. The executor appears by its state, the dispatch by the phase of
`PairedCycle`, the telemetry by "off", "idle", "pending". `torque` are the arms on which a servo
may hold torque, whatever the flags say of them.

Two facts about duration matter and are in the model: a frame that configures, reads
or switches off the arms is synchronous and takes longer than two control ticks, so that a control event has been missed
when it returns (`event = "missed"`: taking torque off, `TorqueOff`; and `ClearFault`, whose reads of
the left arm wait six times 10 ms before the latch is dropped); and the right bus refuses a
register write while the telemetry owns it (`RightBusTaken`).

### 3.5 TrackingFeedback

`loop` is the part of the main loop that runs next: poll, request, then the judgement of
the settling or the executor service. `open` are the buses whose telemetry state is not
IDLE, `sent` those whose request is out, `reply` what their receive windows hold, `owed`
which servo has still to answer. A servo may answer at any time, with an error status,
into a later request's window, or not at all; a position is within its tolerance, off it, or
beyond the tracking limit. `origin`, `atGoal` and `clean` are history variables: the joint a
position came from, the joints last measured at the goal, and whether a pair has failed
since the settling began.

### 3.6 StreamTransport, FirmwareSession, AdapterSession

`StreamTransport` is `_send` and `_receive`: one request at a time, numbered, and the
frames on the wire in both directions. A frame keeps of its number only whether it is the
latest request's (`mine`); a request that gives up leaves its frames on the wire. Loss is
an action, delay is that nothing obliges the firmware to answer before `GiveUp`.

`FirmwareSession` is the firmware as the adapter meets it: one action per frame the
adapter sends, with the order of checks of the handlers (`Admit` queues a batch before the
runtime refuses it), the control ticks, the watchdog, and `FirmwareStops` for everything
that stops the arms from inside (`ResidentRuntime` and `TrackingFeedback` have the
reasons). Whether the firmware counts the arms as powered (`armsOn`), whether a servo may hold
torque (`torque`) and whether the safety state is FAULT (`faulted`) are three things: a
`CoordinatedStop` on which a bus fails switches the arms off all the same, leaves the torque, reports
a fault and answers SAFE_STOP with a status ("FAILED"); an ARM that fails half-way may leave
torque on arms that are not counted as powered. A sample is its tick and the epoch it was made in. After a stop the queue, the
limit and the epoch are cleared in the model although the executor keeps them: every batch
is refused from then on, and nothing reads them.

`AdapterSession` is `ResidentBimanualStreamAdapter` and the node that calls it. An
operation is a *script*, `todo`, of exchanges: `Begin` sets it, one action asks each kind of
request, `GetAnswer` reads and judges the answer, `TimeOut` is an exchange without one,
and `...Ends` is what the operation does after its last exchange. The callbacks of the node run
on one thread, so one operation runs at a time; the firmware runs on between its
exchanges. `route`, `horizon` and `pending` are the adapter's copy of the plan, `draft` what
it becomes if the batch on its way is accepted. `Fault` sends SAFE_STOP if the session is
armed; the plan is cleared there, as nothing reads it any more. `Crash` kills the process.

What is abstracted: positions (whether points are within limits is a choice of the caller);
DISPATCH and TRACKING diagnostics are one exchange; the diagnostics collected after a stop
change nothing and are left out, and so are operations by callers other than the owner, which
are refused without effect. The session begins with arms that do not count as powered, as on a
board that was reset or stopped, with or without torque, a fault or a latch of an earlier
session. With `ControlTick = 1` every tick is on the control grid.

### 3.7 HostUart

The receive ring, the transmit queue and `SingleArmApp_Process` in binary mode. `at` is
the main loop's place: the fault check before a burst, the burst byte by byte, the handling
of a frame, the check after it, the services. Each interrupt is one action: a byte, a receive
error, a DMA error, the end of a transfer. (LPUART1 may interrupt the DMA's handlers; the only
callback it can then repeat is the error callback, which stores the same zeros.) A frame is
two bytes; of a byte the model keeps which of them it is, whether it is damaged, and whether
the stream is broken at it. `broken` and `cut` are history variables: the parser was given
bytes from both sides of a break; a slot was written while the DMA sent it. The HAL may refuse
a transfer or to wait for a byte at any time.

## 4. Runs

| Run | Module | Shows | Bounds |
|---|---|---|---|
| `program_streams` | StreamExecutor | order, rate, timing, freshness and accounting of the finite and open streams the resident adapter makes, splices on the control grid included | 10 ms, 4 samples |
| `any_caller` | StreamExecutor | limits of the output, however the executor is stepped and spliced, as its unit tests do | all 12 ticks, 2 samples |
| `run_ends` | StreamExecutor | abandoned streams end, planned ones succeed | tick modulus 14, so the clock never stops |
| `paired_interrupts` | PairedDispatch | pairing, quiet buses, what follows a fault, end of every cycle, refinement of `PairedCycle` | 4 launches |
| `resident_host` | ResidentRuntime | stops reach the arms and end the output, no unwatched motion, torque goes off on both arms or faults, fresh anchors, a silent host's arms are switched off | no counters; ages saturate |
| `tracking` | TrackingFeedback | samples match their joint, requests and setpoints do not meet, what "settled" means, it ends, every joint is read | 2 joints, 4 settling pairs, limit 3 |
| `session` | AdapterSession | the adapter knows the queue, keeps torque while it must, a stop is confirmed, failed torque-offs are on record, done means done, plans end, unattended arms are switched off | 4 ticks, queue and batch of 2, 2 epochs, 2 frames left on the wire |
| `host_uart` | HostUart | a gap in the bytes latches a stop before the services run, replies are whole and leave | ring 4, queue 2, burst 3 |
| `stale_command`, `prepare_in_motion`, `failed_pair`, `stop_unverified` | | a statement of the documents that the code does not keep (section 7) | as above |

Why the bounds are enough:

* **Ticks.** A control tick is 2 ms instead of 5, so that a sample can be on or off the
  grid and a timeout can fall inside a control period; leads, timeouts and horizons are a
  few ticks for the same reason. `TickModulus` is 64 and `StartTick` 60: the tick wraps 4 ms into
  the run, with streams open across it. No distance in the runs comes near half of the
  modulus. `RunLength` (the milliseconds modelled) covers opening, filling, draining, running dry
  and being fed again, and a second stream after the first.
* **Samples.** The queue holds 3 (16 in the firmware), a batch 2 (9) and a stream `MaxSamples`
  in all: the full queue, the refused batch, the splice in the middle and the refill
  are all reached.
* **Joints.** One joint and both arms: joints are treated alike and independently; the
  proofs are for any set of joints.
* **Dispatch.** Four launches: the state between launches carries only counters.
* **Runtime.** A heartbeat timeout of 1 with ages saturating just above it: only "fresh" and
  "stale" matter to the code.
* **Tracking.** Two joints: a late answer is of another joint or the same one, and a
  sweep is two pairs. Four settling pairs are two sweeps, as the firmware's 12 are for 6
  joints. The failure limit is the firmware's.
* **Session.** A sample due at once, one ahead and one beyond the window; a plan of three
  samples, so that the feeder has to send one later; a second stream or a splice (epoch 2)
  after the first; a queue that is full with two; two late frames, so that an exchange may
  read past one answer while another request is still unhandled. The heartbeat timeout and the
  failure limit only separate "in time" from "too late" and the first failure from the last.
* **Host UART.** A ring of 4 holds one frame and the first byte of the next, or the halves of two;
  a burst of 3 ends inside a frame; a queue of 2 is one reply being sent and one waiting,
  the least the code allows. The proofs are for every size.

The history variables `broken` and `cut` of `host_uart` are never reset: its safety properties judge
the first break of a session and what was sent until the first fault, after which the stop is
latched until a restart. `SilenceStops` is about arms that count as on; of torque that outlives
the flag, `ArmsGoOffTogether` says what is recorded.

Deadlock is checked in every run but those of the session, where the arms are off, the adapter has
stopped and time has reached its bound in the end. The restart of the MCU is always possible where the code
can stop for good, so that what must happen without it is stated as liveness instead.

## 5. Fairness

* Executor: `ClockTick` (time passes) and `ControlStep` (the main loop serves a control
  event). The host owes nothing.
* Dispatch: the main loop goes on inside `Launch`, packets that were started get out, and
  the control timer goes on asking. An interrupt that was lost owes nothing.
* Runtime: `Tick` and `Service`. `BinaryControl_Service` runs in every pass, and a pass
  handles a bounded burst of received bytes before it.
* Tracking: the main loop, the three clocks (telemetry timeout, settling limit, TIM6) and the
  end of a dispatch, which the dispatch guarantees or faults. Servos owe nothing, and the
  buses may fail. `EveryJointIsRead` is conditional on passes of the main loop falling
  between the end of a dispatch and the next control tick: nothing in the code
  guarantees that a position request is made for every setpoint.
* Session: the node's callbacks run to their end (every exchange has a deadline), the poll timer
  gets its turn among the other callbacks again and again (strongly fair: it may be kept
  waiting while another callback runs), the firmware handles frames, takes control ticks and runs
  its watchdog, and time passes. The link may lose every frame.
* Host UART: the main loop goes round and a transfer that was started ends. Nobody owes a byte.

## 6. Proofs

TLAPS checks eight modules of theorems, for every value of the constants. Together they
state every invariant and every action property that a passing run checks; only liveness is
left to TLC.

* **StreamExecutorProofs**, from `TickModulusAssumption`, `ContractAssumption`,
  `ExecutorAssumption`. The inductive invariant is `TypeOK`, `PositionsWithinLimits`,
  `QueueOrdered`, `SamplesAccounted`, `SuccessIsComplete` and `StopStates`.
  `OutputWithinLimits` is not inductive: an output is interpolated, so anchor and every queued
  position must be within limits, and truncating interpolation must be shown to stay
  between its ends (`DivOfProduct` and the lemmas after it). `StopIsLatched` needs
  `StopStates`: a safety stop is only in HOLD or ABORTED. `OpenStreamIsFresh` adds the two clocks:
  an event that waits is no older than the time since TIM6 fired and its jitter
  (`EventIsRecent`), and distances on the ring of ticks obey the triangle inequality
  (`TickTriangle`), whether or not the tick wraps on the way.

  *The timeline* (`TimelineHolds`, `AppliedOnTime`) is proved under three conditions, hypotheses
  of the theorems and not assumptions of the module: `EventJitter = 0`; `ShortRun`, the run and what
  is queued at its end lie within half the range of a tick (24.8 days), where the signed comparison
  orders ticks; and `[]HostFits`, what `bimanual_stream_adapter.py:913-928` and `997-1002` see to:
  no sample of a batch lies beyond its last one, and a splice begins on the control grid of the tail
  it replaces. All three hold in `program_streams`, where TLC was also run on `HostFits` and the
  inductive invariants. `Age` unwinds the ring at `StartTick`. `TimelineInv` says that a
  waiting event is the last one TIM6 fired (`ClockInv`), that queued samples lie whole control
  ticks apart, whichever batches they came in (`GridInv`), and that a running stream has taken the
  last event or has it to take, on the grid of its own epoch and with its queue ahead of it
  (`StepInv`). Then a sample is due exactly when its tick is reached and `Lateness` is zero
  (`EventOnTime`), and the sample behind an applied one is still ahead (`ApplyTimeline`).

  *The rate* (`SeamlessOutputRate`) is proved under the same conditions. Bounded steps between
  samples do not bound the outputs by themselves: a leg that spans no whole number of control
  ticks is checked rounded up, an applied sample may be up to a control tick old when it becomes the
  output, and interpolation truncates. `LegInv` therefore says how far into its leg the last output
  is, and that this is either up to date or on a leg of whole control ticks (`IsInto`); in both cases
  less than two steps remain to the next output (`AnyWay`, `SteadyWay`), and truncating at
  both ends adds nothing to a whole bound (`InterpolateStep`).
* **PairedDispatchProofs**, from `DispatchAssumption`. `Lockstep` is not inductive: what is in
  flight must be counted (`Counted`), per place in the launch (`InLaunch`, `PairStarted`,
  `BetweenPairs`, `InCycle`), and what survives a fault as well (`OneMore`, `Owed`: an arm that is
  still to get its packet is not ahead). The same invariant gives the step simulation of
  `PairedCycle` (`ImplementsPairedCycle`). `CyclePairs` proves of `PairedCycle` itself, whatever
  implements it, that arms receive packets in pairs (`InPairs`).
* **ResidentRuntimeProofs**, under `~PrepareInMotion`, the condition whose violation
  `prepare_in_motion` shows. The invariant ties the flags together: a control clock that is on
  and has not yet run into a stop belongs to a watched stream that has used its anchor or is
  about to (`ClockIsWatched`), in the safety state ACTIVE unless an event was missed
  (`ClockIsActive`), a pending start has all it needs, the settling has no clock, a
  requested stop has faulted the dispatch. `OutputIsWatched` needs the missed event that these slow
  frames leave behind: without it a HOLD and a CLEAR_FAULT in one burst would let
  the stream run on. `SpecTypeOK` and `SpecArmsGoOffTogether` need no condition.
* **TrackingFeedbackProofs**, from `TrackingAssumption`. Whatever an arm has answered to
  the pending request is of its joint (`RequestMatches`); a bus is busy without a request
  only after a failed pair (`LeftOver`); a request in the settling still lacks pairs
  (`StillSettling`), without which the type of `steady` is not inductive. `SettledAtGoal`
  follows the turns of the joints (`SteadyAtGoal`): a joint read within the last
  `steady` pairs was at its goal, and with `SettlingAssumption` (12 pairs for 6 joints in the
  program) these pairs reach every joint.
* **HostUartProofs**, from `UartAssumption`, for every ring, queue and burst.
  `BreakEndsWithBurst` needs that a break anywhere, in the ring or already parsed, has the fault
  flag up, is being handled, or was (`BreakIsFlagged`). `CutReplyIsStopped` needs that
  queue and DMA agree until the first fault (`QueueAgrees`, `ActiveIsHead`): the slot that is
  written is then the first free one, and not the one being sent.
* **AdapterSessionProofs**, for links, plans and clocks of every size. Three
  invariants, each inductive by the ones before it. `ScriptInv`: only a START asks for power,
  after its claim; only a session that is not armed prepares; what waits for an answer is the
  next step of the script. `LinkInv`: the latest request is the last frame on its way, so
  when it was answered nothing is left behind it (`AnsweredIsEmpty`), the step that late answers
  make hard. `ArmsInv`: a session that is not armed has sent no ARM, and a preparation on its
  way is waited for or its session is over; `NoTorqueGap` and `StopIsConfirmed` follow. Whether
  torque goes off is up to the buses (`ArmsAreOff`: the arms do not count as powered, and torque
  that may be left is on record as a fault).
* **SessionTypeProofs**, from `TransportAssumption`, `FirmwareAssumption` and `AdapterAssumption`.
  `TypeOK` of the session holds more than types: both copies of the queue, the route, the draft
  and the samples of every batch on the link are in the order of their ticks. It needs lemmas about
  what cuts, joins and windows of sorted sequences are (`Before`, `After`, `InWindow`), about the
  plans (`PlanOrder`, by a minimal counterexample), and about the shapes a script can have
  at each exchange, since what an answer does depends on the steps that are left.
* **SessionQueueProofs**, from the same assumptions. `HostKnowsQueue` compares the queues of two
  ends that never exchange them, over a link that loses and delays frames. The chain of invariants,
  each inductive by those before it:
  * what the adapter asks for (`Reopens`, `OrderInv`): the START of an armed session never
    claims as the first one does, and samples are in the order of their ticks wherever they are
    on their way;
  * the talk (`TalkInv`): a live session has nothing on its way to the firmware but the request
    that waits, and feedback that may have been given up (`Quiet`); the ticks in answers are not
    ahead of the firmware's (`InThePast`); requests that matter are answered with a verdict
    (`AnswersFit`);
  * the power (`PowerInv`): while no stop is latched, the arms are powered once the ARM of the
    script is behind, and accept setpoints once its ENABLE is;
  * the queue (`QueueInv`): an opened stream is empty until the first batch (`OpenInv`), and then
    the adapter's copy and the firmware's queue agree beyond the clock, up to the one batch that
    is being asked for: the firmware holds the copy (`Holds`), or holds the draft and an
    accepting answer is on its way (`BatchHolds`, `Mirror`).

  `ReadyMeansDone` adds `Settled` and `PollInv`: a poll that ends a plan was answered by a firmware
  that had applied every sample and settled, in this session and not an earlier one.

Only model-checked, as liveness is out of the prover's reach: every
liveness property (`RunEnds`, `PlannedRunSucceeds`, `CycleEnds`, `SilenceStops`,
`EveryJointIsRead`, `SettlingEnds`, `StopReachesArms`, `PlanEnds`, `LossIsStopped`,
`RepliesLeave`).

## 7. Where the code and its documents differ

Each has a run that refutes the statement; `PROJECT.json` quotes it.

* **stale_command**: a batch between a control event and its step makes the command's age
  wrap, and the stream is held as stale (`stream_executor_v2.c:326`).
* **prepare_in_motion**: PREPARE_SHADOW during a stream clears the flags by which the
  watchdogs know that the arms are on (`binary_control.c:3499`).
* **failed_pair**: after one failed read, if the other arm is still waiting, the next
  request stops both arms (`bimanual_tracking_feedback.c:132`).
* **stop_unverified**: a STOP whose torque-off failed on an arm is answered with the latch set
  and a status nobody looks at; the session is `stopped` with a servo that may hold torque, and
  nothing tries again (`bimanual_stream_adapter.py:1151`, `stream_transport_v2.py:189`,
  `binary_control.c:2707-2724`). What holds is `StopIsConfirmed`: the failure is on record as a fault.

Met while modelling, without a run of their own:

* A stream that ran dry and is fed again is not rate-checked against the position it holds
  (`stream_executor_v2.c:189`), while `FIRMWARE_DUAL_ARM_ARCHITECTURE.md:487-488` counts on
  the rate limit there. `SeamlessOutputRate` leaves this case out by its history variable.
* `single_arm_app.c:388-393` says that only an intact burst reaches the parser, and
  `binary_control.c:4349` that a transmit fault latches HOLD before another command is
  parsed. Bytes behind a gap, or frames behind a transmit fault, are parsed and handled in the rest
  of the same burst; what holds is `BreakEndsWithBurst`: no control tick acts on them.
* A receive error empties the transmit queue while the DMA may still send from it. A reply
  that is queued between the service that takes the fault and the end of the transfer is refused or
  overwrites the one being sent; a stop is latched by then. A queue that filled up while it
  was not active after a stop refuses replies until the next receive error or reset.
* When the HAL refuses to wait for the next byte, nobody tries again: the host is heard again
  after a reset only. The stop is latched (`LossIsStopped`).
* An APPEND or SPLICE before the first START is refused but claims the stream; every other
  caller's START is then refused (`bimanual_stream_adapter.py:897`).
* The owner's APPEND during a finite plan whose samples are not all sent goes behind the ones
  that are, and the rest of the plan is then late; a SPLICE of a finite plan is sent with horizon 0
  and always refused, though `BIMANUAL_UPPER_APPLICATION_INTERFACE.md:321` plans with it. Both
  end the session with a stop.
* The adapter's count of free slots takes a sample that is due for applied; a full queue may
  then refuse a batch, which also ends the session.
* A batch's samples are compared with their neighbours and only the last one with the lead window
  (`stream_contract_v2.c:180`, `224`): offsets that go round the ring of ticks once would be
  admitted. The resident adapter's increase within the window; the theorems about apply times
  assume so (`HostFits`).
* An ARM that fails half-way takes torque off again with the results ignored, and reports no fault
  (`binary_control.c:2736-2770`); the SAFE_STOP that the adapter sends then is the second try.
* RIGHT_ARM_DISABLE clears the flag by which the watchdog knows of powered arms although the left
  arm may still be (`binary_control.c:1049-1051`).
* PREPARE_SHADOW is sent by `prepare()` before the diagnostics it asked for are judged.
* Policies carry a rate limit, but no stage limits the rate per control tick: it is only
  checked at admission.
* A finite stream whose queue runs dry at or after its horizon, without a sample at it, is
  aborted; a splice off the tail's control grid stops the stream it was meant to continue.
* A coordinated stop leaves the executor RUNNING; a fault of the dispatch and a stopped
  executor are left only by an MCU reset.
* `FIRMWARE_DUAL_ARM_ARCHITECTURE.md:792-799` stops by holding position; the code stops by
  taking torque off.
* The right bus's error flags are cleared when a motion begins and by nothing else, so one
  UART error makes every later pair of the motion fail (`right_servo_bus.c:896`).
* A left bus that times out recovers with blocking delays that can reach the next control
  tick, so that a second timeout in a row may stop the arms as a missed tick.
* Terminal settling counts pairs and restarts on a position off the goal, not on a failed pair:
  a joint that never answers is not measured, and two complete sweeps are not implied.
* A transmit-complete interrupt between starting a telemetry request and setting its state is
  lost; the request then times out (`servo_bus.c:840-852`).

## 8. What is not modelled

* The values of positions beyond what the properties tell apart: unit conversion, limits per
  joint, calibration. Not modelled yet.
* The bytes of frames, CRCs and COBS; the firmware's protocol v1; diagnostics and statistics.
* The host in `ResidentRuntime` is an environment that sends any frame at any time; in
  `AdapterSession` it is the resident adapter. Other hosts (the tools, the v1 bridge) are not
  modelled, nor is the lease: two processes are kept apart by the lock and the exclusive port.
* HAL, CMSIS and start-up code: third party; the models have what the code relies on.
* Simulation, perception, robot descriptions and tools: numeric or declarative, or one-shot
  scripts with no state of their own.
* Combination: `ResidentRuntime` sees the executor, dispatch and telemetry through abstractions of
  them, each of which has its detailed module; that `StreamExecutor` and `TrackingFeedback` implement
  what `ResidentRuntime` assumes is argued here (the choices it allows include all of
  theirs), not checked. Only the dispatch's refinement is. The same goes for
  `FirmwareSession`, which restates what the adapter can tell of the firmware: it needs a
  clock shared with the host, which the detailed modules do not have.
* Most of the repository's lines are vendored HAL, CMSIS and generated code, which no module
  translates; the lines mapped are those of the resident stream from the node to the servo buses.
