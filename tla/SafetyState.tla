----------------------------- MODULE SafetyState -----------------------------
(* The safety state machine (safety.c) as functions of its state.  A request *)
(* that is refused returns the state it was given.  actuator_safety_set_estop *)
(* has no caller in the firmware, so the state is never ESTOPPED.  The fault  *)
(* code and hold_requested are only reported, never read back.                *)
EXTENDS Naturals

CONSTANT HeartbeatTimeout   \* in units of the model's clock

ASSUME SafetyAssumption == HeartbeatTimeout \in Nat \ {0}

Safety == [state         : {"SAFE_DISABLED", "ARMED", "ACTIVE", "HOLD", "FAULT"},
           heartbeatSeen : BOOLEAN,
           torqueDisable : BOOLEAN]

\* actuator_safety_init and complete_boot
Booted == [state |-> "SAFE_DISABLED", heartbeatSeen |-> FALSE,
           torqueDisable |-> TRUE]

Fresh(s, age) == s.heartbeatSeen /\ age <= HeartbeatTimeout

OnHeartbeat(s) == [s EXCEPT !.heartbeatSeen = TRUE]

RequestArm(s, healthy, matches) ==
    IF s.state = "SAFE_DISABLED" /\ healthy /\ matches
    THEN [s EXCEPT !.state = "ARMED", !.torqueDisable = TRUE] ELSE s

RequestEnable(s, age) ==
    IF s.state = "ARMED" /\ Fresh(s, age)
    THEN [s EXCEPT !.state = "ACTIVE", !.torqueDisable = FALSE] ELSE s

RequestHold(s) ==
    IF s.state = "ACTIVE" THEN [s EXCEPT !.state = "HOLD"] ELSE s

RequestDisable(s) == IF s.state = "FAULT" THEN s ELSE Booted

ReportFault(s) == [s EXCEPT !.state = "FAULT", !.torqueDisable = TRUE]

ClearLatchedStop(s) == IF s.state = "FAULT" THEN Booted ELSE s

SafetyTick(s, age) == IF Fresh(s, age) THEN s ELSE RequestHold(s)

AcceptsSetpoint(s) == s.state = "ACTIVE" /\ ~s.torqueDisable

=============================================================================
