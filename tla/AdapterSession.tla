---------------------------- MODULE AdapterSession ----------------------------
(* A session of the host: ResidentBimanualStreamAdapter, the node whose       *)
(* services and timers call it (bimanual_stream_adapter.py and                *)
(* bimanual_stream_node.py), the link, and the firmware behind it.            *)
(*                                                                            *)
(* The node runs on one thread: a callback runs to its end before the next    *)
(* one starts, but the firmware and its control ticks run on.  An operation   *)
(* of the adapter is a script of exchanges; what it sends may depend on the   *)
(* answers so far.  Callers other than the owner are refused without effect,  *)
(* and positions are left out: a batch is the ticks it is for.                *)
EXTENDS FirmwareSession

CONSTANTS
    Plans,         \* the offsets a caller may ask for: sequences of Nat
    MaxBatch,      \* samples of a batch
    MaxEpoch,      \* bound on the epochs of a run
    FailureLimit   \* feedback failures in a row that end a session

ASSUME AdapterAssumption ==
    /\ \A p \in Plans :
          /\ p \in Seq(Nat \ {0}) /\ p # <<>>
          /\ \A i \in 1 .. Len(p) : p[i] % ControlTick = 0
          /\ \A i \in 1 .. Len(p) - 1 : p[i] < p[i + 1]
    /\ MaxBatch \in Nat \ {0} /\ MaxEpoch \in Nat /\ FailureLimit \in Nat \ {0}

VARIABLES
    host,       \* _state, or "DEAD" when the process is gone
    owned,      \* _owner is not None
    epoch,      \* _epoch
    armed,      \* _armed
    route,      \* _route_samples; the last one is the tail
    horizon,    \* _finite_horizon_tick, or 0
    pending,    \* _pending_finite_samples
    streak,     \* _feedback_transport_failure_streak
    job,        \* the operation that runs
    todo,       \* its exchanges that are not answered yet
    draft,      \* the stream as it will be when the batch on its way is accepted
    seen        \* what the answers of this operation said

plan == <<route, horizon, pending>>
operation == <<job, todo, draft, seen>>
adapter == <<host, owned, epoch, armed, plan, streak, operation>>
vars == <<firmware, link, adapter>>

-----------------------------------------------------------------------------
NoContent == [horizon |-> 0, epoch |-> 0, samples |-> <<>>]
NoDraft == [route |-> <<>>, horizon |-> 0, pending |-> <<>>]
NothingSeen == [base |-> 0, healthy |-> TRUE, exec |-> "NONE", idle |-> TRUE]

Init ==
    /\ FirmwareInit
    /\ up = <<>> /\ down = <<>> /\ asked = "NONE"
    /\ host = "NEW" /\ owned = FALSE /\ epoch = 0 /\ armed = FALSE
    /\ route = <<>> /\ horizon = 0 /\ pending = <<>> /\ streak = 0
    /\ job = "none" /\ todo = <<>> /\ draft = NoDraft /\ seen = NothingSeen

Idle == job = "none" /\ host # "DEAD"

\* heartbeat_required
HeartbeatRequired == armed /\ host \in {"READY", "ACTIVE"}

Begin(name, script) ==
    /\ Idle
    /\ job' = name /\ todo' = script
    /\ UNCHANGED <<draft, seen, firmware, link>>

Done == job' = "none" /\ todo' = <<>> /\ draft' = NoDraft /\ seen' = NothingSeen

NoPlan == route' = <<>> /\ horizon' = 0 /\ pending' = <<>>

\* _fault: SAFE_STOP follows if the session is armed.  The node does not
\* survive a preparation that fails.  The plan is not read any more, and is
\* left out.
Fault ==
    /\ host' = IF job = "prepare" THEN "DEAD" ELSE "FAULTED"
    /\ draft' = NoDraft /\ seen' = NothingSeen
    /\ IF armed THEN job' = "fault" /\ todo' = <<"SAFE_STOP">>
                ELSE job' = "none" /\ todo' = <<>>
    /\ NoPlan
    /\ UNCHANGED <<armed, owned, epoch, streak>>

-----------------------------------------------------------------------------
(* Operations begin.                                                         *)

Prepare ==
    /\ host = "NEW"
    /\ Begin("prepare", <<"HELLO", "HEARTBEAT", "TRACKING", "SHADOW">>)
    /\ UNCHANGED <<host, owned, epoch, armed, plan, streak>>

\* Mutant: the anchor can be refreshed whenever no stream runs.
MutantMayRefresh == host = "READY"

MayRefresh == host = "READY" /\ ~armed /\ ~owned

RefreshUnarmedAnchor ==
    /\ MayRefresh
    /\ Begin("refresh", <<"HEARTBEAT", "SHADOW">>)
    /\ UNCHANGED <<host, owned, epoch, armed, plan, streak>>

Opening == <<"CLAIM", "HEARTBEAT", "OPEN", "APPEND">>
Arming == <<"HEARTBEAT", "SHADOW", "CLAIM", "ARM", "HEARTBEAT", "ENABLE",
            "HEARTBEAT", "OPEN", "APPEND">>

\* START: the first one refreshes the anchor before it claims and arms.
Start ==
    /\ host = "READY" /\ epoch < MaxEpoch
    /\ armed \/ MayRefresh
    /\ Begin("start", IF armed THEN Opening ELSE Arming)
    /\ UNCHANGED <<host, owned, epoch, armed, plan, streak>>

AppendPoints ==
    /\ host = "ACTIVE"
    /\ Begin("append", <<"HEARTBEAT", "APPEND">>)
    /\ UNCHANGED <<host, owned, epoch, armed, plan, streak>>

SplicePoints ==
    /\ host = "ACTIVE" /\ epoch < MaxEpoch
    /\ Begin("splice", <<"HEARTBEAT", "SPLICE">>)
    /\ UNCHANGED <<host, owned, epoch, armed, plan, streak>>

\* APPEND or SPLICE without a stream is refused, after the claim.
StrayClaim ==
    /\ Idle /\ ~owned /\ host \in {"READY", "FAULTED"} /\ epoch < MaxEpoch
    /\ owned' = TRUE /\ epoch' = epoch + 1
    /\ UNCHANGED <<host, armed, plan, streak, operation, firmware, link>>

\* The poll timer; a finite plan is fed first.
Poll ==
    /\ host = "ACTIVE"
    /\ Begin("poll",
             (IF pending = <<>> THEN <<>> ELSE <<"HEARTBEAT", "PUMP">>) \o
             <<"HEARTBEAT", "EXECUTOR", "HEARTBEAT", "TRACKING", "HEARTBEAT">>)
    /\ UNCHANGED <<host, owned, epoch, armed, plan, streak>>

\* The heartbeat timer, or a status request.
Keepalive ==
    /\ HeartbeatRequired
    /\ Begin("keepalive", <<"HEARTBEAT">>)
    /\ UNCHANGED <<host, owned, epoch, armed, plan, streak>>

\* The feedback timer.
PublishFeedback ==
    /\ host = "READY" /\ ~HeartbeatRequired
    /\ Begin("feedback", <<"FEEDBACK">>)
    /\ UNCHANGED <<host, owned, epoch, armed, plan, streak>>

\* STOP, by a service call or at the end of the node; it claims like any.
StopStream ==
    /\ host \in {"READY", "ACTIVE", "FAULTED"}
    /\ owned \/ epoch < MaxEpoch
    /\ Begin("stop", <<"SAFE_STOP">>)
    /\ owned' = TRUE /\ epoch' = IF owned THEN epoch ELSE epoch + 1
    /\ UNCHANGED <<host, armed, plan, streak>>

\* The process is killed; nobody reads the port any more.
Crash ==
    /\ host # "DEAD" /\ host' = "DEAD"
    /\ owned' = FALSE /\ epoch' = 0 /\ armed' = FALSE /\ streak' = 0
    /\ NoPlan /\ Done
    /\ asked' = "NONE" /\ down' = <<>>
    /\ UNCHANGED <<firmware, up>>

-----------------------------------------------------------------------------
(* Requests.                                                                 *)

Next1(kind) == job # "none" /\ ~Waiting /\ todo # <<>> /\ Head(todo) = kind

Ask(kind, content) ==
    /\ Send(kind, content)
    /\ seen' = [seen EXCEPT !.base = 0]
    /\ UNCHANGED <<job, todo, owned, armed, host, plan, streak, firmware>>

\* The tick of the last heartbeat's answer, asked for right before it is used.
Base == seen.base

Sample(e, t) == [tick |-> t, epoch |-> e]
SamplesAt(offsets, start, e) ==
    [i \in 1 .. Len(offsets) |-> Sample(e, start + offsets[i])]

PlainKinds == {"HELLO", "HEARTBEAT", "TRACKING", "SHADOW", "ARM", "ENABLE",
               "SAFE_STOP", "EXECUTOR", "FEEDBACK"}

AskPlain ==
    /\ \E kind \in PlainKinds : Next1(kind) /\ Ask(kind, NoContent)
    /\ UNCHANGED <<epoch, draft>>

\* start(): the points are judged against the anchor, and refused without any
\* effect; or the stream is claimed, and the session counts as armed.
Claim ==
    /\ Next1("CLAIM")
    /\ \/ owned' = TRUE /\ epoch' = epoch + 1 /\ armed' = TRUE
          /\ todo' = Tail(todo) /\ UNCHANGED <<job, draft, seen>>
       \/ Done /\ UNCHANGED <<owned, epoch, armed>>
    /\ UNCHANGED <<host, plan, streak, firmware, link>>

\* How many of the samples a batch may carry: those inside the lead window.
InWindow(samples) == Passed(samples, Base + MaxLead)
AtMost(n, m) == IF n <= m THEN n ELSE m

Take(samples, n) == SubSeq(samples, 1, n)
Drop(samples, n) == SubSeq(samples, n + 1, Len(samples))

\* A finite plan opens up to its end and begins with what the window holds.
OpenPlan ==
    /\ Next1("OPEN")
    /\ \E p \in Plans, finite \in BOOLEAN :
          LET samples == SamplesAt(p, Base, epoch)
              first == AtMost(MaxBatch, InWindow(samples))
              end == IF finite THEN LastTick(samples) ELSE 0
          IN
          /\ p[1] >= MinLead /\ first >= MinStart
          /\ ~finite => first = Len(p)
          /\ LastTick(samples) <= MaxTime
          /\ draft' = [route   |-> Take(samples, first), horizon |-> end,
                       pending |-> Drop(samples, first)]
          /\ Ask("OPEN", [NoContent EXCEPT !.horizon = end])
    /\ UNCHANGED epoch

AskFirstBatch ==
    /\ Next1("APPEND") /\ job = "start"
    /\ Ask("APPEND", [horizon |-> draft.horizon, epoch |-> epoch,
                      samples |-> draft.route])
    /\ UNCHANGED <<epoch, draft>>

\* The way from t to the next point on the grid of the tail.
Alignment(t) == (LastTick(route) - t) % ControlTick

\* append(): the points must follow the tail inside the window, and be within
\* the limits of the joints.
AskAppend ==
    /\ Next1("APPEND") /\ job = "append"
    /\ \/ Fault /\ UNCHANGED <<link, firmware>>
       \/ \E p \in Plans :
          LET first == Base + p[1]
              shift == Alignment(first)
              samples == SamplesAt(p, Base + shift, epoch)
          IN
          /\ Len(p) <= MaxBatch /\ LastTick(samples) <= MaxTime
          /\ first > LastTick(route) /\ Last(p) + shift <= MaxLead
          /\ draft' = [route   |-> After(route, Base) \o samples,
                       horizon |-> horizon, pending |-> pending]
          /\ Ask("APPEND", [horizon |-> horizon, epoch |-> epoch,
                            samples |-> samples])
          /\ UNCHANGED epoch

\* splice(): the first sample continues the route at the splice point, the
\* others replace it from there on.  Points that cannot do so are a fault.
AskSplice ==
    /\ Next1("SPLICE")
    /\ \/ Fault /\ UNCHANGED <<link, firmware>>
       \/ \E p \in Plans :
          LET at == Base + p[1]
              shift == Alignment(at)
              future == After(route, Base)
              samples == SamplesAt(p, Base + shift, epoch + 1)
          IN
          /\ p[1] >= MinLead /\ Len(p) \in 2 .. MaxBatch
          /\ LastTick(samples) <= MaxTime
          /\ Last(p) + shift <= MaxLead /\ OnRoute(future, at + shift)
          /\ epoch' = epoch + 1
          /\ draft' = [route   |-> Before(future, at + shift) \o samples,
                       horizon |-> horizon, pending |-> pending]
          /\ Ask("SPLICE", [horizon |-> 0, epoch |-> epoch + 1,
                            samples |-> samples])

\* _pump_finite_plan: what fits the window and the queue, as the host knows
\* it.  A plan whose next sample is due too soon has failed.
Pump ==
    /\ Next1("PUMP")
    /\ LET future == After(route, Base)
           room == AtMost(MaxBatch, QueueCapacity - Len(future))
           ready == Take(pending, AtMost(room, InWindow(pending)))
       IN
       IF FirstTick(pending) < Base + MinLead
       THEN Fault /\ UNCHANGED <<link, firmware>>
       ELSE IF ready = <<>>
       THEN /\ todo' = Tail(todo)
            /\ UNCHANGED <<host, owned, epoch, armed, plan, streak, job, draft,
                           seen, firmware, link>>
       ELSE /\ draft' = [route   |-> future \o ready, horizon |-> horizon,
                         pending |-> Drop(pending, Len(ready))]
            /\ Ask("APPEND", [horizon |-> horizon, epoch |-> epoch,
                              samples |-> ready])
            /\ UNCHANGED epoch

-----------------------------------------------------------------------------
(* Answers.                                                                  *)

\* Mutant: a latched stop is no reason to give up.
MutantUnhealthyLatched(says) == says = "REFUSED"

\* Mutant: a batch counts as accepted whatever the status says.
MutantUnhealthyRefused(says) == says = "LATCHED" /\ asked # "SAFE_STOP"

\* What _healthy_heartbeat, _require_accepted, enable() and the like raise on:
\* SAFE_STOP alone is there to latch a stop, and its status is not looked at.
Unhealthy(says) == says \in {"REFUSED", IF asked = "SAFE_STOP" THEN "OK" ELSE "LATCHED"}

\* prepare() judges its diagnostics after the last of them.
JudgedLater == job = "prepare" /\ asked \in {"HEARTBEAT", "TRACKING"}

Learn(says, at) ==
    seen' = [seen EXCEPT
        !.base = IF asked = "HEARTBEAT" THEN at ELSE @,
        !.healthy = @ /\ ~Unhealthy(says),
        !.exec = IF asked = "EXECUTOR" THEN says ELSE @,
        !.idle = IF asked = "TRACKING" THEN says = "IDLE" ELSE @]

\* An accepted batch is part of the route.
Adopt ==
    IF asked \in {"APPEND", "SPLICE"}
    THEN /\ route' = draft.route /\ horizon' = draft.horizon
         /\ pending' = draft.pending /\ draft' = NoDraft
    ELSE UNCHANGED <<plan, draft>>

\* A plan that succeeded is measured once more, right away.
Rest(says) ==
    (IF asked = "EXECUTOR" /\ says = "SUCCEEDED" THEN <<"FEEDBACK">> ELSE <<>>)
    \o Tail(todo)

GetAnswer ==
    \E i \in DOMAIN down :
        /\ Receive(i)
        /\ LET answer == down[i] IN
           IF job # "fault" /\ Unhealthy(answer.says) /\ ~JudgedLater
           THEN Fault
           ELSE /\ Learn(answer.says, answer.at)
                /\ Adopt
                /\ todo' = Rest(answer.says)
                /\ UNCHANGED <<host, owned, epoch, armed, streak, job>>
        /\ UNCHANGED firmware

\* Mutant: one failure more is borne.
MutantBorne == job = "feedback" /\ streak < FailureLimit

\* A failure of the feedback that does not end the session.
Borne == job = "feedback" /\ streak + 1 < FailureLimit

\* Mutant: a stop that is not answered is taken for done.
MutantTimeOut ==
    /\ GiveUp
    /\ IF job \in {"fault", "stop"}
       THEN Done /\ armed' = FALSE /\ host' = "STOPPED"
            /\ UNCHANGED <<owned, epoch, plan, streak>>
       ELSE Fault
    /\ UNCHANGED firmware

\* The adapter gives up on any exchange but a few of the feedback's.
TimeOut ==
    /\ GiveUp
    /\ IF job = "fault"
       THEN Done /\ armed' = FALSE
            /\ UNCHANGED <<host, owned, epoch, plan, streak>>
       ELSE IF Borne
       THEN Done /\ streak' = streak + 1
            /\ UNCHANGED <<host, owned, epoch, armed, plan>>
       ELSE Fault
    /\ UNCHANGED firmware

-----------------------------------------------------------------------------
(* Operations end.                                                           *)

Ends(name) == job = name /\ todo = <<>> /\ ~Waiting /\ UNCHANGED <<firmware, link>>

PrepareEnds ==
    /\ Ends("prepare")
    /\ IF seen.healthy /\ seen.idle
       THEN host' = "READY" /\ Done
            /\ UNCHANGED <<owned, epoch, armed, plan, streak>>
       ELSE Fault

StartEnds ==
    /\ Ends("start") /\ host' = "ACTIVE" /\ Done
    /\ UNCHANGED <<owned, epoch, armed, plan, streak>>

\* Mutant: the tracking feedback is not asked about.
MutantPlanDone == seen.exec = "SUCCEEDED"

PlanDone == seen.exec = "SUCCEEDED" /\ seen.idle

PollEnds ==
    /\ Ends("poll")
    /\ IF seen.exec = "ENDED" THEN Fault
       ELSE /\ Done
            /\ IF PlanDone
               THEN host' = "READY" /\ NoPlan
               ELSE UNCHANGED <<host, plan>>
            /\ UNCHANGED <<owned, epoch, armed, streak>>

FeedbackEnds ==
    /\ Ends("feedback") /\ streak' = 0 /\ Done
    /\ UNCHANGED <<host, owned, epoch, armed, plan>>

StopEnds ==
    /\ Ends("stop") /\ host' = "STOPPED" /\ armed' = FALSE /\ NoPlan /\ Done
    /\ UNCHANGED <<owned, epoch, streak>>

FaultEnds ==
    /\ Ends("fault") /\ armed' = FALSE /\ Done
    /\ UNCHANGED <<host, owned, epoch, plan, streak>>

OtherEnds ==
    /\ \E name \in {"refresh", "append", "splice", "keepalive"} : Ends(name)
    /\ Done
    /\ UNCHANGED <<host, owned, epoch, armed, plan, streak>>

-----------------------------------------------------------------------------
Operation ==
    \/ Prepare \/ RefreshUnarmedAnchor \/ Start \/ AppendPoints \/ SplicePoints
    \/ StrayClaim \/ Poll \/ Keepalive \/ PublishFeedback \/ StopStream

Exchange ==
    \/ AskPlain \/ Claim \/ OpenPlan \/ AskFirstBatch \/ AskAppend \/ AskSplice
    \/ Pump \/ GetAnswer \/ TimeOut
    \/ PrepareEnds \/ StartEnds \/ PollEnds \/ FeedbackEnds \/ StopEnds
    \/ FaultEnds \/ OtherEnds

Environment ==
    /\ Clock \/ Watchdog \/ FirmwareStops \/ Control
    /\ UNCHANGED <<link, adapter>>

Firmware == Handle /\ UNCHANGED adapter

Loss == (LoseRequest \/ LoseAnswer) /\ UNCHANGED <<firmware, adapter>>

Next == Operation \/ Exchange \/ Crash \/ Firmware \/ Environment \/ Loss

\* The callbacks of the node run to their end, the deadlines of the port are
\* kept, and the poll timer gets its turn among the others; the firmware
\* handles frames, takes its control ticks and watches the heartbeat.
Fairness ==
    /\ WF_vars(Exchange) /\ SF_vars(Poll)
    /\ WF_vars(Firmware)
    /\ WF_vars(Clock /\ UNCHANGED <<link, adapter>>)
    /\ WF_vars((Watchdog \/ Control) /\ UNCHANGED <<link, adapter>>)

Spec == Init /\ [][Next]_vars /\ Fairness

-----------------------------------------------------------------------------
(* Properties.                                                               *)

Kinds == PlainKinds \cup StatusKinds
Samples == Seq([tick : Nat, epoch : Nat])
Contents == [horizon : Nat, epoch : Nat, samples : Samples]
ExecStates == {"CLOSED", "PRIMING", "RUNNING", "SUCCEEDED", "ENDED"}
Words == {"OK", "LATCHED", "FAILED", "REFUSED", "ACTIVE", "IDLE"} \cup ExecStates

\* Every variable has its type.
TypeOK ==
    /\ up \in Seq([kind : Kinds, mine : BOOLEAN, content : Contents])
    /\ down \in Seq([kind : Kinds \cup {"STATE", "STATUS"}, mine : BOOLEAN,
                     says : Words, at : Nat])
    /\ asked \in Kinds \cup {"NONE"}
    /\ now \in Nat /\ silence \in 0 .. Stale
    /\ exec \in ExecStates
    /\ queue \in Samples /\ Len(queue) <= QueueCapacity
    /\ limit \in Nat /\ streamEpoch \in Nat
    /\ {starting, enabled, latched, anchored, tracking} \subseteq BOOLEAN
    /\ {armsOn, torque, faulted} \subseteq BOOLEAN
    /\ host \in {"NEW", "READY", "ACTIVE", "STOPPED", "FAULTED", "DEAD"}
    /\ {owned, armed} \subseteq BOOLEAN
    /\ epoch \in 0 .. MaxEpoch /\ streak \in 0 .. FailureLimit - 1
    /\ route \in Samples /\ horizon \in Nat /\ pending \in Samples
    /\ job \in {"none", "prepare", "refresh", "start", "append", "splice", "poll",
                "keepalive", "feedback", "stop", "fault"}
    /\ todo \in Seq(PlainKinds \cup StatusKinds \cup {"CLAIM", "PUMP"})
    /\ draft \in [route : Samples, horizon : Nat, pending : Samples]
    /\ seen \in [base : Nat, healthy : BOOLEAN, exec : Words \cup {"NONE"},
               idle : BOOLEAN]

\* The adapter never asks the firmware for its queue: it plans appends and
\* splices against its own copy of what it sent.  Between operations of an
\* active stream the copy is right: what the firmware has still to apply is
\* what the adapter believes to be ahead, under the same horizon and epoch,
\* and the arms are powered; unless the firmware has stopped.
HostKnowsQueue ==
    (host = "ACTIVE" /\ job = "none" /\ ~latched) =>
        /\ After(queue, now) = After(route, now)
        /\ limit = horizon
        /\ streamEpoch = epoch
        /\ armsOn /\ enabled

\* PREPARE_SHADOW takes the torque off the arms before anything else.  None is
\* ever on its way to a firmware whose arms are powered.
NoTorqueGap ==
    \A i \in DOMAIN up : up[i].kind = "SHADOW" => ~armsOn

\* The arms count as off; a servo can hold torque only if the failure is on
\* record as a fault.
ArmsAreOff == ~armsOn /\ (torque => faulted)

\* When STOP has succeeded, the stop is latched and the arms are off or known
\* to have failed, whatever answer of an exchange that was given up came in its
\* place, and nothing on its way powers them again.
StopIsConfirmed == host = "STOPPED" => latched /\ ArmsAreOff

\* The STOP of the interface document (BIMANUAL_UPPER_APPLICATION_INTERFACE.md):
\* SAFE_STOP, verified torque disable and latch as one operation.  False: the
\* status of SAFE_STOP is ignored, by stop() and by the transport.
StoppedIsOff == host = "STOPPED" => ~torque

\* The adapter reports a finite plan as done (it is READY again) only when all
\* of it was sent, but for what its owner's own APPEND overtook, the firmware
\* has applied it up to its horizon, and the tracking feedback of the stream is
\* over: the next START finds a firmware that can begin.
ReadyMeansDone ==
    [][host = "ACTIVE" /\ host' = "READY" =>
           /\ LastTick(route) = horizon /\ ~tracking
           /\ latched \/ (exec = "SUCCEEDED" /\ limit = horizon /\ anchored)]_vars

\* Whatever happens to the adapter (a fault whose SAFE_STOP is lost, a process
\* that is killed), arms it does not keep alive are switched off, or known to
\* have failed.
StopReachesArms == armsOn /\ ~HeartbeatRequired ~> ArmsAreOff

\* A finite plan does not stay active for ever: it is done, or the session
\* ends.
PlanEnds == host = "ACTIVE" /\ horizon # 0 ~> host # "ACTIVE"

=============================================================================
