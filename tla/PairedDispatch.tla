---------------------------- MODULE PairedDispatch ----------------------------
(* The paired servo dispatch (bimanual_servo_dispatch.c over                 *)
(* bimanual_dispatch.c): the main loop starts one DMA transfer per arm, and   *)
(* the UART interrupts report their completion or failure.                   *)
(*                                                                           *)
(* Launch() is not atomic: interrupts are taken between its statements, at    *)
(* each value of `pc`; one interrupt is one step.  The UARTs also carry the   *)
(* position requests of the tracking feedback, which the main loop starts     *)
(* when the dispatch is ready.                                               *)
EXTENDS Naturals

CONSTANTS
    LEFT, RIGHT,
    MaxLaunches   \* bound: launches since the reset

Arms == {LEFT, RIGHT}

ASSUME DispatchAssumption ==
    LEFT # RIGHT /\ MaxLaunches \in Nat

VARIABLES
    pc,         \* the statement of Launch() the main loop is at
    launching,  \* launch_in_progress
    active, faulted, complete, launches, completions,  \* dispatch_state.snapshot
    tx,         \* what each UART transmits
    sent        \* history: setpoint packets each arm received

vars == <<pc, launching, active, faulted, complete, launches, completions,
          tx, sent>>
counts == <<launches, completions, sent>>

-----------------------------------------------------------------------------
Quiet == [arm \in Arms |-> "none"]

\* Mutant: a faulted dispatch may launch again.
MutantCanLaunchFaulted == ~active

\* actuator_bimanual_dispatch_can_launch
CanLaunch == ~active /\ ~faulted

\* Mutant: a failed cycle stays active.
MutantFailActive == faulted' = TRUE /\ active' = active

\* actuator_bimanual_dispatch_fail
Fail == faulted' = TRUE /\ active' = FALSE

\* HAL_UART_Transmit_DMA: refused while the UART transmits, and may fail.
Transmit(arm) ==
    /\ tx[arm] = "none"
    /\ tx' = [tx EXCEPT ![arm] = "dispatch"]

Init ==
    /\ pc = "idle" /\ launching = FALSE
    /\ active = FALSE /\ faulted = FALSE /\ complete = {}
    /\ launches = 0 /\ completions = 0
    /\ tx = Quiet /\ sent = [arm \in Arms |-> 0]

-----------------------------------------------------------------------------
(* BimanualServoDispatch_Launch, statement by statement.                     *)

\* The dispatch may not launch, or a packet cannot be built.
LaunchRefused ==
    /\ pc = "idle"
    /\ Fail
    /\ UNCHANGED <<pc, launching, complete, tx, counts>>

\* The checks, and launch_in_progress: until it is set, no interrupt can fail
\* a dispatch that may launch.
LaunchBegins ==
    /\ pc = "idle" /\ CanLaunch
    /\ launches < MaxLaunches
    /\ launching' = TRUE /\ pc' = "startLeft"
    /\ UNCHANGED <<active, faulted, complete, tx, counts>>

\* The left packet is started also if an interrupt has failed the launch.
LaunchLeft ==
    /\ pc = "startLeft" /\ pc' = "startRight"
    /\ Transmit(LEFT)
    /\ UNCHANGED <<launching, active, faulted, complete, counts>>

LaunchLeftFails ==
    /\ pc = "startLeft" /\ pc' = "idle"
    /\ Fail /\ launching' = FALSE
    /\ UNCHANGED <<complete, tx, counts>>

LaunchRight ==
    /\ pc = "startRight"
    /\ Transmit(RIGHT)
    /\ pc' = "begin"
    /\ UNCHANGED <<launching, active, faulted, complete, counts>>

\* Only the left transfer was started, and is aborted.
LaunchRightFails ==
    /\ pc = "startRight" /\ pc' = "idle"
    /\ tx' = [tx EXCEPT ![LEFT] = "none"]
    /\ Fail /\ launching' = FALSE
    /\ UNCHANGED <<complete, counts>>

\* The checks of actuator_bimanual_dispatch_begin.
BeginRefused ==
    /\ pc = "begin" /\ pc' = "idle"
    /\ faulted \/ active
    /\ tx' = Quiet
    /\ Fail /\ launching' = FALSE
    /\ UNCHANGED <<complete, counts>>

BeginChecked ==
    /\ pc = "begin" /\ pc' = "commit"
    /\ ~faulted /\ ~active
    /\ UNCHANGED <<launching, active, faulted, complete, tx, counts>>

\* Its assignments; an interrupt may have failed the cycle since the checks.
BeginCommit ==
    /\ pc = "commit" /\ pc' = "ending"
    /\ complete' = {} /\ active' = TRUE /\ launches' = launches + 1
    /\ UNCHANGED <<launching, faulted, tx, completions, sent>>

LaunchEnds ==
    /\ pc = "ending" /\ pc' = "idle"
    /\ launching' = FALSE
    /\ UNCHANGED <<active, faulted, complete, tx, counts>>

-----------------------------------------------------------------------------
(* Interrupts.                                                               *)

\* Mutant: one arm's completion ends the cycle.
MutantPairDone(done) == done # {}

PairDone(done) == done = Arms

\* complete() of an active cycle.
Complete(arm) ==
    IF faulted \/ arm \in complete
    THEN Fail /\ UNCHANGED <<complete, completions>>
    ELSE /\ complete' = complete \cup {arm}
         /\ IF PairDone(complete')
            THEN active' = FALSE /\ completions' = completions + 1
            ELSE UNCHANGED <<active, completions>>
         /\ UNCHANGED faulted

\* HAL_UART_TxCpltCallback and BimanualServoDispatch_OnTxComplete: without an
\* active cycle the completion is dropped, also that of a cycle being launched.
OnTxComplete(arm) ==
    /\ tx[arm] # "none"
    /\ tx' = [tx EXCEPT ![arm] = "none"]
    /\ sent' = IF tx[arm] = "dispatch"
               THEN [sent EXCEPT ![arm] = @ + 1] ELSE sent
    /\ IF active
       THEN Complete(arm)
       ELSE UNCHANGED <<active, faulted, complete, completions>>
    /\ UNCHANGED <<pc, launching, launches>>

\* HAL_UART_ErrorCallback: an error of the transfer ends it, one of the
\* receiver does not.
OnUartError(arm) ==
    /\ tx' \in {tx, [tx EXCEPT ![arm] = "none"]}
    /\ IF launching \/ active THEN Fail ELSE UNCHANGED <<active, faulted>>
    /\ UNCHANGED <<pc, launching, complete, counts>>

-----------------------------------------------------------------------------
(* The other calls of the main loop.                                         *)

\* BimanualServoDispatch_Stop
Stop ==
    /\ pc = "idle"
    /\ launching' = FALSE /\ tx' = Quiet
    /\ IF active THEN Fail ELSE UNCHANGED <<active, faulted>>
    /\ UNCHANGED <<pc, complete, counts>>

\* BimanualServoDispatch_LatchFault
LatchFault ==
    /\ pc = "idle"
    /\ launching' = FALSE /\ tx' = Quiet
    /\ Fail
    /\ UNCHANGED <<pc, complete, counts>>

\* Host_ServiceV2Executor at a control event that finds a cycle unfinished.
ControlEventNotReady == active /\ LatchFault

\* Host_ServiceV2TrackingFeedback sends a position request.
RequestPosition(arm) ==
    /\ pc = "idle" /\ CanLaunch
    /\ tx[arm] = "none"
    /\ tx' = [tx EXCEPT ![arm] = "request"]
    /\ UNCHANGED <<pc, launching, active, faulted, complete, counts>>

\* The MCU is reset: BimanualServoDispatch_Init.
Reset ==
    /\ pc' = "idle" /\ launching' = FALSE
    /\ active' = FALSE /\ faulted' = FALSE /\ complete' = {}
    /\ launches' = 0 /\ completions' = 0
    /\ tx' = Quiet /\ sent' = [arm \in Arms |-> 0]

MainLoop ==
    \/ LaunchRefused \/ LaunchBegins
    \/ LaunchLeft \/ LaunchLeftFails
    \/ LaunchRight \/ LaunchRightFails
    \/ BeginRefused \/ BeginChecked \/ BeginCommit \/ LaunchEnds
    \/ Stop \/ LatchFault
    \/ \E arm \in Arms : RequestPosition(arm)

Interrupt == \E arm \in Arms : OnTxComplete(arm) \/ OnUartError(arm)

Next == MainLoop \/ Interrupt \/ Reset

Spec == Init /\ [][Next]_vars

-----------------------------------------------------------------------------
(* Fairness: the main loop goes on inside Launch(), packets get out, and the  *)
(* control timer keeps asking whether the dispatch is ready.                 *)
Fairness ==
    /\ WF_vars(BeginRefused \/ BeginChecked \/ BeginCommit \/ LaunchEnds)
    /\ WF_vars(LaunchLeft \/ LaunchLeftFails)
    /\ WF_vars(LaunchRight \/ LaunchRightFails)
    /\ \A arm \in Arms : WF_vars(OnTxComplete(arm))
    /\ WF_vars(ControlEventNotReady)

FairSpec == Spec /\ Fairness

-----------------------------------------------------------------------------
\* The type invariant.
TypeOK ==
    /\ pc \in {"idle", "startLeft", "startRight", "begin", "commit", "ending"}
    /\ launching \in BOOLEAN /\ active \in BOOLEAN /\ faulted \in BOOLEAN
    /\ complete \subseteq Arms
    /\ launches \in Nat /\ completions \in Nat
    /\ tx \in [Arms -> {"none", "dispatch", "request"}]
    /\ sent \in [Arms -> Nat]

\* When the dispatch says that it may launch, no setpoint packet is still on
\* a bus, wherever interrupts hit the last launch: the telemetry and the next
\* pair never share a bus with it (begin, complete, the launch's error paths).
ReadyMeansQuiet ==
    pc = "idle" /\ CanLaunch => \A arm \in Arms : tx[arm] # "dispatch"

\* When it may launch, both arms have received exactly the pairs that were
\* launched: no arm is a setpoint ahead of the other.
Lockstep ==
    pc = "idle" /\ CanLaunch =>
        /\ sent[LEFT] = sent[RIGHT]
        /\ completions = launches

\* Whatever fails, one arm is never more than one setpoint ahead.
AtMostOneAhead ==
    sent[LEFT] <= sent[RIGHT] + 1 /\ sent[RIGHT] <= sent[LEFT] + 1

\* After a fault no launch is begun, whoever asks for one, and a packet that is
\* still started belongs to the launch the fault interrupted: its arm has
\* received nothing of that pair, so no arm ever gets a second packet.
FaultEndsOutput ==
    [][faulted /\ faulted' =>
          /\ pc = "idle" => pc' = "idle"
          /\ \A arm \in Arms :
                tx'[arm] = "dispatch" /\ tx[arm] # "dispatch" =>
                    sent[arm] = completions]_vars

\* A launched cycle never stays open: it completes, or the next control event
\* finds it unfinished and stops the arms, even if its completions were lost.
CycleEnds == active ~> ~active

\* The dispatch implements the paired cycle: a pair is open from the launch's
\* checks until both completions were counted.
Cycle == INSTANCE PairedCycle WITH
    phase <- IF faulted THEN "faulted"
             ELSE IF active \/ pc \notin {"idle", "ending"} THEN "busy"
             ELSE "ready",
    started <- CASE pc = "startLeft" -> {} [] pc = "startRight" -> {LEFT}
                 [] OTHER -> Arms,
    sending <- {arm \in Arms : tx[arm] = "dispatch"},
    received <- sent,
    pairs <- completions

ImplementsCycle == Cycle!CycleSpec

=============================================================================
