----------------------------- MODULE PairedCycle -----------------------------
(* What the paired servo dispatch promises the rest of the firmware: setpoint *)
(* packets go to the two arms in pairs.  A pair is begun only when the last   *)
(* one is out on both buses, and a fault ends the output until a reset: what  *)
(* the pair it interrupted has not sent may still follow, once for each arm.  *)
(* PairedDispatch is shown to implement this.                                 *)
EXTENDS Naturals

CONSTANT Arms

VARIABLES
    phase,     \* "ready", "busy" (launching or transmitting), "faulted"
    started,   \* arms whose packet of the last pair was started or given up
    sending,   \* arms whose packet is on the bus
    received,  \* packets each arm received
    pairs      \* pairs that both arms received

cycle == <<phase, started, sending, received, pairs>>

CycleInit ==
    /\ phase = "ready" /\ started = Arms /\ sending = {}
    /\ received = [arm \in Arms |-> 0] /\ pairs = 0

\* A launch begins; the packet of no arm is started yet.
StartPair ==
    /\ phase = "ready" /\ phase' = "busy"
    /\ started' = {}
    /\ UNCHANGED <<sending, received, pairs>>

\* Each arm gets one packet of the pair, a fault in between or not.
StartPacket(arm) ==
    /\ phase \in {"busy", "faulted"}
    /\ arm \notin started
    /\ started' = started \cup {arm} /\ sending' = sending \cup {arm}
    /\ UNCHANGED <<phase, received, pairs>>

Out(arm) ==
    /\ sending' = sending \ {arm}
    /\ received' = [received EXCEPT ![arm] = @ + 1]
    /\ UNCHANGED started

Deliver(arm) == arm \in sending /\ Out(arm) /\ UNCHANGED <<phase, pairs>>

\* The last packet of a pair is out.
CompletePair(arm) ==
    /\ phase = "busy" /\ phase' = "ready"
    /\ started = Arms /\ sending = {arm}
    /\ Out(arm) /\ pairs' = pairs + 1

\* A transfer failed, or the caller stopped the arms: packets may be aborted,
\* and what was not started may be given up.
GiveUp ==
    /\ phase' = "faulted"
    /\ sending' \in SUBSET sending
    /\ started' \in {started, Arms}
    /\ UNCHANGED <<received, pairs>>

MCUReset ==
    /\ phase' = "ready" /\ started' = Arms /\ sending' = {}
    /\ received' = [arm \in Arms |-> 0] /\ pairs' = 0

CycleNext ==
    \/ StartPair \/ GiveUp \/ MCUReset
    \/ \E arm \in Arms : StartPacket(arm) \/ Deliver(arm) \/ CompletePair(arm)

CycleSpec == CycleInit /\ [][CycleNext]_cycle

-----------------------------------------------------------------------------
(* What this specification amounts to, whatever implements it.               *)

\* An arm has received the pairs that are out on both buses and at most the
\* packet of one more; it is sent that one only once, and a dispatch that is
\* ready has delivered every pair to every arm.
InPairs ==
    /\ \A arm \in Arms :
          /\ received[arm] \in {pairs, pairs + 1}
          /\ arm \in sending => arm \in started /\ received[arm] = pairs
          /\ arm \notin started => received[arm] = pairs
    /\ phase = "ready" =>
          sending = {} /\ \A arm \in Arms : received[arm] = pairs

=============================================================================
