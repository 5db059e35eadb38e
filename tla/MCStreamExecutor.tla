-------------------------- MODULE MCStreamExecutor --------------------------
(* Constants for model-checking StreamExecutor.  One control tick is two     *)
(* milliseconds, so that a sample can lie on or off the control grid, and    *)
(* ticks wrap shortly after the start.                                       *)
EXTENDS StreamExecutor

CONSTANTS
    OpenStreams,     \* may the host open streams with no horizon?
    FiniteHorizons,  \* distances of the horizon of a finite stream
    MinimumStarts,   \* minimum start samples of the finite policies
    Splices,         \* splices of the host: "none", "aligned" to the control
                     \* grid of the tail, as the resident adapter, or "any"
    OpenTargets,     \* positions of the samples of an open stream
    TargetValues,    \* positions of the samples of a finite stream
    StepSize,        \* maximum step of the finite policies
    FirstLeads,      \* leads of a batch's first sample
    SecondGaps       \* distances to its second sample

OneJoint == {"j"}

At(x) == [j \in Joints |-> x]

MCHardCaps ==
    [minimumLead |-> 2, maximumLead |-> 6, commandTimeout |-> 6,
     openCommandTimeout |-> 4, maximumLateness |-> 2,
     trackingLimit |-> At(2), maximumStep |-> At(2)]

MCMinPosition == At(0)
MCMaxPosition == At(4)

Targets == {At(x) : x \in TargetValues}
MCAnchors == {At(1)}

BasePolicy ==
    [minimumStart |-> 1, arms |-> Arms, minimumLead |-> 2, horizon |-> 0,
     maximumLead |-> 6, commandTimeout |-> 4, maximumLateness |-> 0,
     trackingLimit |-> At(2), maximumStep |-> At(StepSize)]

\* Open streams may be twice as fast.
OpenPolicy == [BasePolicy EXCEPT !.maximumStep = At(2)]

\* Good policies, and one the contract rejects for its timeout.
MCOpenRequests(now) ==
    (IF OpenStreams
     THEN {OpenPolicy, [OpenPolicy EXCEPT !.commandTimeout = 5]}
     ELSE {})
    \cup {[BasePolicy EXCEPT !.horizon = TickAdd(now, d), !.minimumStart = m] :
             d \in FiniteHorizons, m \in MinimumStarts}

SampleSequences(now, h) ==
    LET targets == IF h = 0 THEN {At(x) : x \in OpenTargets} ELSE Targets
        gaps == IF h = 0 THEN SecondGaps \cap {ControlTick} ELSE SecondGaps
    IN
    {<<[tick |-> TickAdd(now, l), position |-> x]>> :
        l \in FirstLeads, x \in targets}
    \cup {<<[tick |-> TickAdd(now, 2), position |-> At(5)]>>}
    \cup {<<[tick |-> TickAdd(now, l), position |-> x],
            [tick |-> TickAdd(now, l + g), position |-> y]>> :
        l \in FirstLeads, g \in gaps, x \in targets, y \in targets}

Aligned(t, q) ==
    q # <<>> /\ TickSub(q[Len(q)].tick, t) % ControlTick = 0

MCBatchRequests(now, h, q) ==
    {[kind |-> "APPEND", arms |-> Arms, horizon |-> h, epoch |-> 1,
      spliceAt |-> 0, samples |-> s] : s \in SampleSequences(now, h)}
    \cup {[kind |-> "SPLICE", arms |-> Arms, horizon |-> h, epoch |-> 2,
           spliceAt |-> s[1].tick, samples |-> s] :
              s \in {x \in SampleSequences(now, h) :
                        \/ Splices = "any"
                        \/ Splices = "aligned" /\ h = 0 /\ Aligned(x[1].tick, q)}}

\* A caller that, as the unit tests do, hands the executor any tick at all.
AnyEvent ==
    /\ event = NoEvent
    /\ event' \in Tick
    /\ UNCHANGED <<tick, timer, state, reason, safeStop, accepted, applied,
                   splices, lastCommand, session, timeline, output,
                   outputValid, lastStep>>

AnyCallerSpec == Init /\ [][Next \/ AnyEvent]_vars

=============================================================================
