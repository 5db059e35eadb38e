--------------------------- MODULE TrackingFeedback ---------------------------
(* The tracking feedback of a motion (bimanual_tracking_feedback.c and the    *)
(* telemetry of the two servo buses): after each setpoint the position of one *)
(* joint is requested from both arms, the pair of answers is compared with     *)
(* the command, and after the last setpoint the arms must settle.              *)
(*                                                                             *)
(* The main loop polls, requests, judges the settling and serves the control   *)
(* tick (Host_ServiceV2TrackingFeedback, Host_ServiceV2Executor); transmit     *)
(* interrupts, replies, timeouts and TIM6 come between any two of these.       *)
(* Servos answer late, with an error status, or not at all.                    *)
EXTENDS Naturals

CONSTANTS
    LEFT, RIGHT,
    Joints,         \* SINGLE_ARM_JOINT_COUNT
    FailureLimit,   \* HOST_BIMANUAL_TRACKING_READ_FAILURE_LIMIT
    SettlePairs,    \* HOST_BIMANUAL_TERMINAL_SETTLE_CONSECUTIVE_PAIRS
    BusFaults       \* may UARTs and DMA fail, and not only reads?

Arms == {LEFT, RIGHT}
Joint == 0 .. Joints - 1

ASSUME TrackingAssumption ==
    /\ LEFT # RIGHT /\ BusFaults \in BOOLEAN
    /\ Joints \in Nat \ {0} /\ SettlePairs \in Nat \ {0}
    /\ FailureLimit \in Nat /\ FailureLimit >= 2

\* Settling takes at least one pair of every joint: 12 pairs, 6 joints.
ASSUME SettlingAssumption == SettlePairs >= Joints

VARIABLES
    motion,      \* "running", "settling", "settled", "stopped"
    loop,        \* the part of the main loop that runs next
    pending,     \* tracking.snapshot.pending
    joint,       \* tracking.joint_index
    next,        \* host_v2_tracking_next_joint
    failures,    \* tracking.snapshot.consecutive_failed_pairs
    open,        \* arms whose telemetry state is not IDLE
    sent,        \* arms whose request is out (tx_completed)
    owed,        \* arm -> the joint, if any, whose servo has still to answer
    reply,       \* arm -> "none", "position" or "error" in the receive window
    origin,      \* arm -> the joint that the position came from
    fault,       \* arms with a UART or DMA error flagged
    expired,     \* the telemetry timeout has passed
    phase,       \* of the paired dispatch: "ready" or "busy"
    due,         \* a pair was sent since the last request
    event,       \* TIM6: "none", "due" or "missed"
    steady,      \* completed pairs since the settling baseline
    late,        \* HOST_BIMANUAL_TERMINAL_SETTLE_MAX_MS has passed
    atGoal,      \* history: joints last measured at the goal while settling
    clean        \* history: no pair has failed while settling

bus == <<open, sent, owed, reply, origin, fault>>
request == <<pending, joint, expired>>
control == <<phase, due, event>>
settling == <<steady, late, atGoal, clean>>
vars == <<motion, loop, pending, joint, next, failures, open, sent, owed,
          reply, origin, fault, expired, phase, due, event, steady, late,
          atGoal, clean>>

Moving == motion \in {"running", "settling"}

Init ==
    /\ motion = "stopped" /\ loop = "poll"
    /\ pending = FALSE /\ joint = 0 /\ next = 0 /\ failures = 0
    /\ open = {} /\ sent = {} /\ owed = [a \in Arms |-> {}]
    /\ reply = [a \in Arms |-> "none"] /\ origin = [a \in Arms |-> 0]
    /\ fault = {} /\ expired = FALSE
    /\ phase = "ready" /\ due = FALSE /\ event = "none"
    /\ steady = 0 /\ late = FALSE /\ atGoal = {} /\ clean = TRUE

\* A motion begins, after a restart if the last one was stopped.
Begin ==
    /\ ~Moving /\ motion' = "running" /\ loop' = "poll"
    /\ pending' = FALSE /\ failures' = 0 /\ next' = 0 /\ joint' = 0
    /\ open' = {} /\ sent' = {} /\ fault' = {} /\ expired' = FALSE
    /\ reply' = [a \in Arms |-> "none"] /\ origin' = [a \in Arms |-> 0]
    /\ phase' = "ready" /\ due' = FALSE /\ event' = "none"
    /\ steady' = 0 /\ late' = FALSE /\ atGoal' = {} /\ clean' = TRUE
    /\ UNCHANGED owed

\* Host_RequestV2CoordinatedStop; what is left of the motion does not matter.
Stops == motion' = "stopped" /\ loop' = "poll"

-----------------------------------------------------------------------------
(* Interrupts, the servos, and time.                                         *)

\* ..._InMotionTelemetryOnTxComplete.  A servo that has not answered when the
\* next request is out stays silent.
TxComplete ==
    \E a \in open \ sent :
       /\ sent' = sent \cup {a}
       /\ owed' = [owed EXCEPT ![a] = {joint}]
       /\ UNCHANGED <<motion, loop, request, next, failures, open, reply,
                      origin, fault, control, settling>>

\* Mutant: an answer of any servo on the bus is accepted.
MutantAnyServo(j) == j \in Joint

\* The parser rejects the frame of a servo that was not asked.
Accepted(j) == j = joint

\* A servo answers: into the window of the request, if there is one.
Reply ==
    \E a \in Arms : \E j \in owed[a], answer \in {"position", "error"} :
       /\ owed' = [owed EXCEPT ![a] = @ \ {j}]
       /\ IF a \in open /\ reply[a] = "none" /\ Accepted(j)
          THEN /\ reply' = [reply EXCEPT ![a] = answer]
               /\ origin' = [origin EXCEPT ![a] = j]
          ELSE UNCHANGED <<reply, origin>>
       /\ UNCHANGED <<motion, loop, request, next, failures, open, sent, fault,
                      control, settling>>

Silence ==
    \E a \in Arms : \E j \in owed[a] :
       /\ owed' = [owed EXCEPT ![a] = @ \ {j}]
       /\ UNCHANGED <<motion, loop, request, next, failures, open, sent, reply,
                      origin, fault, control, settling>>

\* ServoBus_HandleUartError, RightServoBus_InMotionTelemetryOnUartError.  What
\* the left bus meets between requests its next request clears.
UartError ==
    /\ BusFaults /\ Moving
    /\ \E a \in (open \cup {RIGHT}) \ fault : fault' = fault \cup {a}
    /\ UNCHANGED <<motion, loop, request, next, failures, open, sent, owed,
                   reply, origin, control, settling>>

Deadline ==
    /\ pending /\ ~expired /\ expired' = TRUE
    /\ UNCHANGED <<motion, loop, pending, joint, next, failures, bus, control,
                   settling>>

SettleDeadline ==
    /\ motion = "settling" /\ ~late /\ late' = TRUE
    /\ UNCHANGED <<motion, loop, request, next, failures, bus, control, steady,
                   atGoal, clean>>

\* ControlTick_OnInterrupt
ControlTimer ==
    /\ motion = "running" /\ event' = IF event = "none" THEN "due" ELSE "missed"
    /\ UNCHANGED <<motion, loop, request, next, failures, bus, phase, due,
                   settling>>

\* The setpoint packets are out.
DispatchEnds ==
    /\ phase = "busy" /\ phase' = "ready" /\ due' = (motion = "running")
    /\ UNCHANGED <<motion, loop, request, next, failures, bus, event, settling>>

-----------------------------------------------------------------------------
(* BimanualTrackingFeedback_Poll: both buses are polled, then the pair is     *)
(* judged.                                                                    *)

Polling == Moving /\ loop = "poll"

Answered(a) ==
    \/ a \notin open
    \/ a \notin fault /\ a \in sent /\ reply[a] = "position"

Failed(a) ==
    /\ ~Answered(a)
    /\ a \in fault \/ (a \in sent /\ reply[a] = "error") \/ expired

\* A bus is idle again when its poll succeeds or fails, and its window is not
\* read again.  The left bus recovers from its errors; those of the right one
\* stay until the next motion.
Polled ==
    /\ open' = {a \in open : ~Answered(a) /\ ~Failed(a)}
    /\ sent' = sent \cap open'
    /\ reply' = [a \in Arms |-> IF a \in open' THEN reply[a] ELSE "none"]
    /\ fault' = fault \ (open \cap {LEFT})
    /\ UNCHANGED owed

\* The request is over, whatever its positions were.
PairEnds ==
    /\ pending' = FALSE /\ expired' = FALSE
    /\ origin' = [a \in Arms |-> 0]

PollNothing ==
    /\ Polling /\ ~pending /\ loop' = "request"
    /\ UNCHANGED <<motion, request, next, failures, bus, control, settling>>

PollWaits ==
    /\ Polling /\ pending /\ loop' = "request"
    /\ ~\E a \in Arms : Failed(a)
    /\ \E a \in Arms : ~Answered(a)
    /\ Polled
    /\ UNCHANGED <<origin, motion, request, next, failures, control, settling>>

\* Mutant: one more failure is tolerated.
MutantTooMany == failures + 1 > FailureLimit

\* RecordPairFailure gives the limit-th failure in a row away as a fault.
TooMany == failures + 1 >= FailureLimit

\* The pair is given up when one arm fails, also if the other has not answered.
PollFails ==
    /\ Polling /\ pending
    /\ \E a \in Arms : Failed(a)
    /\ Polled /\ PairEnds
    /\ failures' = failures + 1
    /\ clean' = (clean /\ motion # "settling")
    /\ IF TooMany THEN Stops ELSE loop' = "request" /\ UNCHANGED motion
    /\ UNCHANGED <<joint, next, control, steady, late, atGoal>>

\* Mutant: a position off the goal does not restart the count.
MutantSteadied(near) == steady + 1

\* Completed pairs since the last that was off the goal.
Steadied(near) ==
    IF motion # "settling" THEN steady ELSE IF near THEN steady + 1 ELSE 0

\* Both positions are measured, and within the tracking limits.
PollSample ==
    /\ Polling /\ pending
    /\ \A a \in Arms : Answered(a)
    /\ Polled /\ PairEnds /\ failures' = 0
    /\ loop' = "request"
    /\ \E near \in BOOLEAN :
          /\ steady' = Steadied(near)
          /\ atGoal' = IF motion # "settling" THEN atGoal
                       ELSE IF near THEN atGoal \cup {joint}
                       ELSE atGoal \ {joint}
    /\ UNCHANGED <<motion, joint, next, control, late, clean>>

\* One of them is not.
PollTrackingError ==
    /\ Polling /\ pending
    /\ \A a \in Arms : Answered(a)
    /\ Polled /\ PairEnds /\ failures' = 0
    /\ Stops
    /\ UNCHANGED <<joint, next, control, settling>>

-----------------------------------------------------------------------------
(* BimanualTrackingFeedback_Start                                            *)

Requesting == Moving /\ loop = "request"

MayRequest ==
    /\ ~pending /\ phase = "ready"
    /\ IF motion = "settling" THEN steady < SettlePairs ELSE due

NoRequest ==
    /\ Requesting /\ ~MayRequest /\ loop' = "control"
    /\ UNCHANGED <<motion, request, next, failures, bus, control, settling>>

\* Mutant: the last joint is skipped.
MutantFollowing(j) == IF j + 2 >= Joints THEN 0 ELSE j + 1

Following(j) == (j + 1) % Joints

\* The left receiver is armed again if it was not.
Request ==
    /\ Requesting /\ MayRequest /\ open = {} /\ loop' = "control"
    /\ pending' = TRUE /\ joint' = next /\ next' = Following(next)
    /\ expired' = FALSE
    /\ open' = Arms /\ sent' = {} /\ fault' = fault \ {LEFT}
    /\ reply' = [a \in Arms |-> "none"]
    /\ due' = FALSE
    /\ UNCHANGED <<motion, failures, owed, origin, phase, event, settling>>

\* The telemetry of a bus is not idle.
RequestRefused ==
    /\ Requesting /\ MayRequest /\ open # {} /\ Stops
    /\ UNCHANGED <<request, next, failures, bus, control, settling>>

RequestFails ==
    /\ BusFaults /\ Requesting /\ MayRequest /\ open = {} /\ Stops
    /\ UNCHANGED <<request, next, failures, bus, control, settling>>

-----------------------------------------------------------------------------
(* The terminal settling, when the control clock is off.  The snapshot of    *)
(* positions is complete since PREPARE_SHADOW filled it.                      *)

Settling == motion = "settling" /\ loop = "control"

\* Mutant: the time limit spares a request that is out.
MutantTooLate == late /\ ~pending

TooLate == late

SettleFails ==
    /\ Settling /\ TooLate /\ Stops
    /\ UNCHANGED <<request, next, failures, bus, control, settling>>

Settled == steady >= SettlePairs /\ ~pending /\ phase = "ready"

SettleEnds ==
    /\ Settling /\ ~TooLate /\ Settled
    /\ motion' = "settled" /\ loop' = "poll"
    /\ open' = {} /\ sent' = {}
    /\ UNCHANGED <<owed, reply, origin, fault, request, next, failures, control,
                   settling>>

SettleGoesOn ==
    /\ Settling /\ ~TooLate /\ ~Settled
    /\ loop' = "poll"
    /\ UNCHANGED <<motion, request, next, failures, bus, control, settling>>

-----------------------------------------------------------------------------
(* Host_ServiceV2Executor                                                    *)

Controlling == motion = "running" /\ loop = "control"

NoControlEvent ==
    /\ Controlling /\ event = "none" /\ loop' = "poll"
    /\ UNCHANGED <<motion, request, next, failures, bus, control, settling>>

\* Mutant: a request that is out does not matter to the control tick.
MutantMayLaunch == event = "due" /\ phase = "ready"

MayLaunch == event = "due" /\ phase = "ready" /\ ~pending

ControlLate ==
    /\ Controlling /\ event # "none" /\ ~MayLaunch
    /\ event' = "none" /\ Stops
    /\ UNCHANGED <<request, next, failures, bus, phase, due, settling>>

\* A setpoint is sent.  The last one begins the settling, at the first joint.
Launch ==
    /\ Controlling /\ MayLaunch
    /\ event' = "none" /\ phase' = "busy" /\ loop' = "poll"
    /\ \/ UNCHANGED <<motion, next, due, settling>>
       \/ /\ motion' = "settling" /\ next' = 0
          /\ due' = FALSE /\ steady' = 0 /\ late' = FALSE
          /\ atGoal' = {} /\ clean' = TRUE
    /\ UNCHANGED <<request, failures, bus>>

-----------------------------------------------------------------------------
Service ==
    \/ PollNothing \/ PollWaits \/ PollFails \/ PollSample \/ PollTrackingError
    \/ NoRequest \/ Request \/ RequestRefused \/ RequestFails
    \/ SettleFails \/ SettleEnds \/ SettleGoesOn
    \/ NoControlEvent \/ ControlLate \/ Launch

Environment ==
    \/ TxComplete \/ Reply \/ Silence \/ UartError
    \/ Deadline \/ SettleDeadline \/ ControlTimer \/ DispatchEnds

Next == Begin \/ Service \/ Environment

Spec == Init /\ [][Next]_vars

(* Fairness: the main loop goes round, time passes, and what the dispatch     *)
(* sends gets out.  The servos owe nothing.                                   *)
FairSpec ==
    /\ Spec /\ WF_vars(Service)
    /\ WF_vars(Deadline) /\ WF_vars(SettleDeadline)
    /\ WF_vars(ControlTimer) /\ WF_vars(DispatchEnds)

-----------------------------------------------------------------------------
\* The type invariant; while the arms move the failure limit is not reached.
TypeOK ==
    /\ motion \in {"running", "settling", "settled", "stopped"}
    /\ loop \in {"poll", "request", "control"}
    /\ pending \in BOOLEAN /\ joint \in Joint /\ next \in Joint
    /\ failures \in 0 .. FailureLimit /\ (Moving => failures < FailureLimit)
    /\ open \subseteq Arms /\ sent \subseteq Arms
    /\ owed \in [Arms -> SUBSET Joint]
    /\ reply \in [Arms -> {"none", "position", "error"}]
    /\ origin \in [Arms -> Joint]
    /\ fault \subseteq Arms /\ expired \in BOOLEAN
    /\ phase \in {"ready", "busy"} /\ due \in BOOLEAN
    /\ event \in {"none", "due", "missed"}
    /\ steady \in 0 .. SettlePairs /\ late \in BOOLEAN
    /\ atGoal \subseteq Joint /\ clean \in BOOLEAN

\* The positions of a sample came from the joint it is compared for, on both
\* arms, however late earlier answers arrive.
SamplesMatch ==
    [][PollSample \/ PollTrackingError => \A a \in Arms : origin[a] = joint]_vars

\* No setpoint is put on a bus that carries a request or awaits its answer,
\* unless the last pair failed.
SetpointsAvoidRequests == [][Launch /\ failures = 0 => open = {}]_vars

\* When the arms are taken as settled, and no pair failed meanwhile, every
\* joint was last measured at its goal.
SettledAtGoal == [][SettleEnds /\ clean => atGoal = Joint]_vars

\* While a motion goes on every joint is requested again and again, as long as
\* passes of the main loop fall between a setpoint and the next control tick.
EveryJointIsRead ==
    \A j \in Joint :
        /\ <>[](motion = "running")
        /\ []<>(Requesting /\ MayRequest)
        => []<>(pending /\ joint = j)

\* A motion that settles comes to an end, answers or not.
SettlingEnds == motion = "settling" ~> ~Moving

\* A pair that failed with fewer than the limit in a row does not stop the
\* motion: the next pair can be requested.
FailuresAreTolerated == [][~RequestRefused]_vars

=============================================================================
