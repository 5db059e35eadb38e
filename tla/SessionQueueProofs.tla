-------------------------- MODULE SessionQueueProofs --------------------------
(* Proofs about AdapterSession, concluded: between the operations of an       *)
(* active stream the adapter's copy of the queue is right, and it reports a   *)
(* finite plan as done only when the firmware is done with it.                *)
EXTENDS SessionTypeProofs

-----------------------------------------------------------------------------
(* What the steps of the adapter do, seen from the firmware.                 *)

Alive == host \in {"NEW", "READY", "ACTIVE"}

\* A START of an armed session never claims as the first one does.
Reopens == job = "start" /\ armed => todo # Claiming

\* The session is over, if it was not.
Over ==
    /\ asked' = "NONE" /\ up' = up
    /\ down' = down \/ down' = <<>> \/ \E i \in DOMAIN down : Receive(i)
    /\ host' \notin {"NEW", "READY", "ACTIVE"}
    /\ seen' = NothingSeen /\ draft' = NoDraft /\ job' \in {"none", "fault"}
    /\ NoPlan \/ (~Planned /\ plan' = plan)

\* Nothing is said: an operation begins, ends or goes on by itself, or gives up
\* a feedback that may fail.
Calm ==
    /\ asked' = "NONE" /\ up' = up /\ down' = down
    /\ asked = "NONE" \/ (asked = "FEEDBACK" /\ job' = "none")
    /\ Alive' => Alive
    /\ \/ seen' = seen
       \/ seen' = NothingSeen /\ job' = "none"
    /\ \/ draft' = NoDraft
       \/ draft' = draft /\ (job' \in {"none", "start"} => job \in {"none", "start"})
    /\ job' = "start" => todo' # <<"APPEND">>
    /\ \/ Planned' /\ Planned /\ plan' = plan /\ epoch' = epoch
       \/ ~Planned' /\ (NoPlan \/ (~Planned /\ plan' = plan))

\* The arms that a session may count on were powered before.
KeepsPower ==
    armed' /\ host' \in {"READY", "ACTIVE"} =>
        /\ host \in {"READY", "ACTIVE"}
        /\ \A k \in {"ARM", "ENABLE"} : Lacks(todo', k) => armed /\ Lacks(todo, k)

\* How a poll begins, or goes on without a batch.
KeepsPoll ==
    job' = "poll" =>
        /\ seen' = seen /\ ~Lacks(todo', "EXECUTOR") /\ ~Lacks(todo', "TRACKING")
        /\ (job = "poll" /\ ~Lacks(todo, "EXECUTOR")) \/ seen = NothingSeen

\* Operations begin in silence.
LEMMA OperationIsCalm ==
    ASSUME TypeInv, ScriptInv, ShapeInv, Operation
    PROVE  Calm /\ KeepsPower /\ KeepsPoll
<1>1. /\ up' = up /\ down' = down /\ asked' = asked /\ host' = host /\ armed' = armed
      /\ plan' = plan /\ draft' = draft /\ seen' = seen /\ job = "none"
  BY DEF Operation, Prepare, RefreshUnarmedAnchor, Start, AppendPoints, SplicePoints,
         StrayClaim, Poll, Keepalive, PublishFeedback, StopStream, Begin, operation, link,
         Idle
<1>2. asked = "NONE" /\ todo = <<>> /\ seen = NothingSeen
  BY <1>1, IdleWaitsNot DEF ShapeInv, Shapes
<1>3. job' = "start" => todo' # <<>> /\ todo' # <<"APPEND">>
  <2>1. CASE Start
    <3>1. Opening # <<>> /\ Opening # <<"APPEND">> /\ Arming # <<>> /\ Arming # <<"APPEND">>
      BY DEF Opening, Arming
    <3> QED
      BY <2>1, <3>1 DEF Start, Begin
  <2>2. CASE ~Start
    BY <2>2 DEF Operation, Prepare, RefreshUnarmedAnchor, AppendPoints, SplicePoints,
                StrayClaim, Poll, Keepalive, PublishFeedback, StopStream, Begin, Idle,
                operation
  <2> QED
    BY <2>1, <2>2
<1>4. host = "ACTIVE" => epoch' = epoch
  <2>1. host = "ACTIVE" => owned
    BY DEF ShapeInv, Claims
  <2> QED
    BY <2>1 DEF Operation, Prepare, RefreshUnarmedAnchor, Start, AppendPoints, SplicePoints,
         StrayClaim, Poll, Keepalive, PublishFeedback, StopStream
<1>5. Calm
  BY <1>1, <1>2, <1>3, <1>4 DEF Calm, Alive, Planned
<1>6. KeepsPower
  <2>1. \A k : Lacks(todo, k)
    BY <1>2, ShortScripts
  <2>2. host # "NEW" \/ ~armed
    BY DEF ScriptInv, HostJob
  <2>3. host \in {"NEW", "READY", "ACTIVE", "STOPPED", "FAULTED", "DEAD"}
    BY DEF TypeInv, HostTyped
  <2> QED
    BY <1>1, <2>1, <2>2, <2>3 DEF KeepsPower
<1>7. KeepsPoll
  <2>1. CASE Poll
    <3> DEFINE feed == IF pending = <<>> THEN <<>> ELSE <<"HEARTBEAT", "PUMP">>
    <3>1. todo' = feed \o Looking
      BY <2>1 DEF Poll, Begin, Looking
    <3>2. \A i \in 1 .. 5 : (feed \o Looking)[Len(feed) + i] = Looking[i]
      BY DEF Looking
    <3>3. Len(feed) \in {0, 2} /\ Len(feed \o Looking) = Len(feed) + 5
      BY DEF Looking
    <3>4. Looking[2] = "EXECUTOR" /\ Looking[4] = "TRACKING"
      BY DEF Looking
    <3> HIDE DEF feed
    <3>5. Len(feed) + 2 \in 1 .. Len(todo') /\ Len(feed) + 4 \in 1 .. Len(todo')
      BY <3>1, <3>3
    <3>6. /\ (feed \o Looking)[Len(feed) + 2] = "EXECUTOR"
          /\ (feed \o Looking)[Len(feed) + 4] = "TRACKING"
      <4>1. 2 \in 1 .. 5 /\ 4 \in 1 .. 5
        OBVIOUS
      <4> QED
        BY <3>2, <3>4, <4>1
    <3> QED
      BY <1>1, <1>2, <3>1, <3>5, <3>6 DEF KeepsPoll, Lacks
  <2>2. CASE ~Poll
    BY <2>2, <1>1 DEF Operation, Prepare, RefreshUnarmedAnchor, Start, AppendPoints,
         SplicePoints, StrayClaim, Keepalive, PublishFeedback, StopStream, Begin, KeepsPoll,
         operation
  <2> QED
    BY <2>1, <2>2
<1> QED
  BY <1>5, <1>6, <1>7

\* The claim of a START.
LEMMA ClaimIsCalm ==
    ASSUME TypeInv, ScriptInv, ShapeInv, Reopens, Claim
    PROVE  Calm /\ KeepsPower /\ KeepsPoll
<1>1. /\ link' = link /\ host' = host /\ plan' = plan /\ asked = "NONE"
      /\ job # "none" /\ todo # <<>> /\ Head(todo) = "CLAIM"
  BY DEF Claim, Next1, Waiting
<1>2. todo \in Seq(Steps) /\ ~Lacks(todo, "CLAIM")
  BY <1>1, TailLacks DEF ScriptInv, Scripts
<1>3. job = "start" /\ todo \in StartScripts /\ host = "READY"
  BY <1>2 DEF ScriptInv, Scripts, ShapeInv, Shapes, HostJob
<1>4. Tail(todo) # <<>> /\ Tail(todo) # <<"APPEND">>
  BY <1>1, <1>3, StartGoesOn
<1>5. ~Planned
  BY <1>1, <1>3 DEF Planned
<1>6. CASE Done /\ owned' = owned /\ armed' = armed /\ epoch' = epoch
  <2>1. Calm /\ KeepsPoll
    BY <1>1, <1>3, <1>5, <1>6 DEF Calm, KeepsPoll, Done, Alive, Planned, link
  <2>2. armed => todo = Opening
    <3>1. todo \in {Claiming, Opening}
      BY <1>1, <1>3 DEF StartScripts, Arming, Preparing, Claiming, Opening, Powering, Enabling
    <3> QED
      BY <1>3, <3>1 DEF Reopens
  <2>3. \A k \in {"ARM", "ENABLE"} : Lacks(Opening, k)
    BY DEF Lacks, Opening
  <2> QED
    BY <1>1, <1>3, <1>6, <2>1, <2>2, <2>3 DEF KeepsPower
<1>7. CASE /\ owned' = TRUE /\ epoch' = epoch + 1 /\ armed' = TRUE
           /\ todo' = Tail(todo) /\ UNCHANGED <<job, draft, seen>>
  <2>1. Calm /\ KeepsPoll
    BY <1>1, <1>3, <1>4, <1>5, <1>7 DEF Calm, KeepsPoll, Alive, Planned, link
  <2>2. CASE armed
    <3>1. todo \in {Claiming, Opening}
      BY <1>1, <1>3 DEF StartScripts, Arming, Preparing, Claiming, Opening, Powering, Enabling
    <3>2. todo = Opening
      BY <1>3, <2>2, <3>1 DEF Reopens
    <3>3. \A k \in {"ARM", "ENABLE"} : Lacks(Opening, k)
      BY DEF Lacks, Opening
    <3> QED
      BY <1>1, <1>3, <1>7, <2>1, <2>2, <3>2, <3>3 DEF KeepsPower
  <2>3. CASE ~armed
    <3>1. todo = Claiming
      <4>1. todo \in Unarmed
        BY <1>3, <2>3 DEF ScriptInv, Scripts
      <4> QED
        BY <1>1, <4>1 DEF Unarmed, Arming, Preparing, Claiming
    <3>2. todo' = Powering
      BY <1>7, <3>1 DEF Claiming, Powering
    <3>3. \A k \in {"ARM", "ENABLE"} : ~Lacks(Powering, k)
      BY DEF Lacks, Powering
    <3> QED
      BY <1>1, <1>3, <2>1, <3>2, <3>3 DEF KeepsPower
  <2> QED
    BY <2>2, <2>3
<1> QED
  BY <1>6, <1>7 DEF Claim

\* A fault is the end of the session.
LEMMA FaultIsOver ==
    ASSUME Fault, asked' = "NONE", up' = up,
           down' = down \/ \E i \in DOMAIN down : Receive(i)
    PROVE  Over
  BY DEF Over, Fault

\* Operations end in silence, or with the session.
LEMMA EndIsCalm ==
    ASSUME TypeInv, ScriptInv, ShapeInv,
           TimeOut \/ PrepareEnds \/ StartEnds \/ PollEnds \/ FeedbackEnds \/ StopEnds
           \/ FaultEnds \/ OtherEnds
    PROVE  Over \/ (Calm /\ KeepsPower /\ KeepsPoll)
<1>1. up' = up /\ down' = down /\ asked' = "NONE"
  BY DEF TimeOut, GiveUp, PrepareEnds, StartEnds, PollEnds, FeedbackEnds, StopEnds,
         FaultEnds, OtherEnds, Ends, Waiting, link
<1>2. CASE Fault
  BY <1>1, <1>2, FaultIsOver
<1>3. CASE ~Fault
  <2>1. Done /\ epoch' = epoch
    BY <1>3 DEF TimeOut, PrepareEnds, StartEnds, PollEnds, FeedbackEnds, StopEnds,
                FaultEnds, OtherEnds
  <2>2. CASE job \in {"fault", "stop"}
    <3>1. CASE StopEnds
      BY <1>1, <2>1, <3>1 DEF StopEnds, Ends, Over, Done
    <3>2. CASE ~StopEnds
      <4>1. job = "fault" /\ host' = host /\ plan' = plan
        BY <1>3, <2>2, <3>2 DEF TimeOut, PrepareEnds, StartEnds, PollEnds, FeedbackEnds,
                StopEnds, FaultEnds, OtherEnds, Ends, Borne
      <4>2. host = "FAULTED" /\ ~Planned
        BY <4>1 DEF ScriptInv, HostJob, Planned
      <4> QED
        BY <1>1, <2>1, <4>1, <4>2 DEF Over, Done
    <3> QED
      BY <3>1, <3>2
  <2>3. CASE job \notin {"fault", "stop"}
    <3>1. /\ armed' = armed
          /\ \/ todo = <<>> /\ asked = "NONE"
             \/ TimeOut /\ job = "feedback"
          /\ \/ job # "start" /\ host' = host /\ plan' = plan
             \/ job = "prepare" /\ host' = "READY" /\ plan' = plan
             \/ job = "start" /\ todo = <<>> /\ host' = "ACTIVE" /\ plan' = plan
             \/ job = "poll" /\ host' = "READY" /\ NoPlan
      BY <1>3, <2>3 DEF TimeOut, PrepareEnds, StartEnds, PollEnds, FeedbackEnds,
                StopEnds, FaultEnds, OtherEnds, Ends, Borne, Waiting
    <3>2. asked \in {"NONE", "FEEDBACK"}
      <4>1. CASE TimeOut /\ job = "feedback"
        <5>1. asked # "NONE" /\ todo # <<>>
          BY <4>1 DEF TimeOut, GiveUp, Waiting, ScriptInv, AskedIsNext
        <5>2. todo = <<"FEEDBACK">>
          BY <4>1, <5>1 DEF ShapeInv, Shapes
        <5> QED
          BY <5>1, <5>2 DEF ScriptInv, AskedIsNext, Waiting
      <4> QED
        BY <3>1, <4>1
    <3>3. /\ job \in {"append", "splice", "poll"} => host = "ACTIVE"
          /\ job = "prepare" => host = "NEW"
          /\ job \in {"start", "feedback"} => host = "READY"
          /\ host = "NEW" => ~armed
      BY DEF ScriptInv, HostJob
    <3>4. Calm /\ KeepsPoll
      <4>1. job' = "none" /\ seen' = NothingSeen /\ draft' = NoDraft
        BY <2>1 DEF Done
      <4>2. Alive' => Alive
        BY <3>1, <3>3 DEF Alive
      <4>3. \/ Planned' /\ Planned /\ plan' = plan
            \/ ~Planned' /\ (NoPlan \/ (~Planned /\ plan' = plan))
        BY <3>1, <3>3, <4>1 DEF Planned
      <4> QED
        BY <1>1, <2>1, <3>2, <4>1, <4>2, <4>3 DEF Calm, KeepsPoll
    <3>5. armed /\ host' \in {"READY", "ACTIVE"} =>
             host \in {"READY", "ACTIVE"} /\ \A k \in {"ARM", "ENABLE"} : Lacks(todo, k)
      <4>1. CASE todo = <<>> /\ asked = "NONE"
        BY <3>1, <3>3, <4>1, ShortScripts
      <4>2. CASE TimeOut /\ job = "feedback"
        <5>1. todo \in {<<"FEEDBACK">>, <<>>} /\ host = "READY"
          BY <3>3, <4>2 DEF ShapeInv, Shapes
        <5>2. \A k \in {"ARM", "ENABLE"} : Lacks(<<"FEEDBACK">>, k) /\ Lacks(<<>>, k)
          BY DEF Lacks
        <5> QED
          BY <5>1, <5>2
      <4> QED
        BY <3>1, <4>1, <4>2
    <3> QED
      BY <3>1, <3>4, <3>5 DEF KeepsPower
  <2> QED
    BY <2>2, <2>3
<1> QED
  BY <1>2, <1>3

LEMMA CrashIsOver ==
    ASSUME Crash
    PROVE  Over
  BY DEF Crash, Over, Done

-----------------------------------------------------------------------------
(* What the adapter asks for.                                                *)

\* All samples are in the order of their ticks, wherever they are on their way.
OrderInv ==
    /\ Sorted(queue) /\ Sorted(pending) /\ Sorted(draft.pending)
    /\ \A i \in 1 .. Len(up) : Sorted(up[i].content.samples)
    /\ job \in {"none", "start"} => Sorted(draft.route)

\* A route that a batch continues, or continues from the splice point on.
Continued(kind, r, samples, base) ==
    (IF kind = "APPEND" THEN After(r, base)
     ELSE Before(After(r, base), FirstTick(samples))) \o samples

\* A request, and the plan that goes with it.
OrderedAsk(kind, c) ==
    /\ TypedAsk(kind, c)
    /\ asked = "NONE" /\ job # "none" /\ todo # <<>>
    /\ Head(todo) = kind \/ (Head(todo) = "PUMP" /\ kind = "APPEND")
    /\ Sorted(c.samples) /\ Sorted(draft'.pending)
    /\ job = "start" => Sorted(draft'.route)
    /\ kind # "SPLICE" => epoch' = epoch
    /\ kind \in PlainKinds => draft' = draft
    /\ kind = "OPEN" => draft'.horizon = c.horizon
    /\ kind \in {"APPEND", "SPLICE"} =>
          /\ c.epoch = epoch'
          /\ job = "start" => draft' = draft /\ c.samples = draft.route
          /\ job # "start" => /\ draft'.horizon = horizon
                              /\ draft'.route = Continued(kind, route, c.samples, Base)

LEMMA EmptyOrder == Sorted(<<>>) /\ NoContent.samples = <<>> /\ NoDraft.pending = <<>>
<1>1. Sorted(<<>>)
  BY DEF Sorted
<1> QED
  BY <1>1 DEF NoContent, NoDraft

\* The requests that are not about the stream.
LEMMA PlainView ==
    ASSUME AskPlain, TypeInv, OrderInv
    PROVE  \E kind, c : OrderedAsk(kind, c)
<1>1. PICK kind \in PlainKinds : Next1(kind) /\ Ask(kind, NoContent)
  BY DEF AskPlain
<1>2. draft' = draft /\ epoch' = epoch
  BY DEF AskPlain
<1>3. /\ draft \in Drafts /\ kind \in Kinds /\ NoContent \in Contents
      /\ kind \notin {"OPEN", "APPEND", "SPLICE"}
  BY <1>1, ContentParts DEF TypeInv, PlanTyped, Kinds, PlainKinds
<1>4. TypedAsk(kind, NoContent)
  BY <1>1, <1>2, <1>3 DEF TypedAsk, Ask, plan, TypeInv, HostTyped
<1>5. Sorted(NoContent.samples)
  BY EmptyOrder
<1>6. OrderedAsk(kind, NoContent)
  BY <1>1, <1>2, <1>3, <1>4, <1>5 DEF OrderedAsk, OrderInv, Next1, Waiting
<1> QED
  BY <1>6

\* A plan is opened with what the window holds of it, and the rest is kept.
LEMMA OpenView ==
    ASSUME OpenPlan, TypeInv, OrderInv
    PROVE  \E kind, c : OrderedAsk(kind, c)
<1>1. PICK p \in Plans, finite \in BOOLEAN :
         LET samples == SamplesAt(p, Base, epoch)
             first == AtMost(MaxBatch, InWindow(samples))
             end == IF finite THEN LastTick(samples) ELSE 0
         IN
         /\ first >= MinStart
         /\ draft' = [route   |-> Take(samples, first), horizon |-> end,
                      pending |-> Drop(samples, first)]
         /\ Ask("OPEN", [NoContent EXCEPT !.horizon = end])
  BY DEF OpenPlan
<1> DEFINE samples == SamplesAt(p, Base, epoch)
           first == AtMost(MaxBatch, InWindow(samples))
           end == IF finite THEN LastTick(samples) ELSE 0
           c == [NoContent EXCEPT !.horizon = end]
<1>2. /\ first >= MinStart
      /\ draft' = [route   |-> Take(samples, first), horizon |-> end,
                   pending |-> Drop(samples, first)]
      /\ Ask("OPEN", c)
  BY <1>1
<1>3. Base \in Nat /\ epoch \in Nat
  BY SeenParts, AdapterAssumption DEF Base, TypeInv, HostTyped
<1>4. samples \in Samples /\ samples # <<>> /\ LastTick(samples) \in Nat /\ Sorted(samples)
  BY <1>3, PlanSamples, SamplesAreTicked
<1>5. end \in Nat
  BY <1>4
<1>6. InWindow(samples) \in 0 .. Len(samples) /\ Len(samples) \in Nat
  BY <1>4, WindowType DEF TypeInv
<1>7. first \in Nat /\ first <= Len(samples)
  BY <1>6, AdapterAssumption DEF AtMost
<1>8. c \in Contents /\ "OPEN" \in Kinds /\ c.samples = <<>> /\ c.horizon = end
  BY <1>5, ContentParts, EmptyOrder DEF Kinds, StatusKinds, NoContent
<1> HIDE DEF samples, first, end, c
<1>9. samples \in Seq(SampleSet)
  BY <1>4, SamplesAreTicked
<1>10. first >= 1
  BY <1>2, <1>7, FirmwareAssumption
<1>11. /\ Take(samples, first) \in Samples /\ Drop(samples, first) \in Samples
       /\ Len(Take(samples, first)) # 0
  BY <1>4, <1>7, <1>10, FirstSamples
<1>12. Sorted(Take(samples, first)) /\ Sorted(Drop(samples, first))
  <2>1. 1 \in Nat \ {0} /\ first + 1 \in Nat \ {0} /\ first \in Int /\ Len(samples) \in Int
    BY <1>6, <1>7
  <2> QED
    BY <1>4, <1>6, <1>7, <1>9, <2>1, PartOrder, SamplesAreTicked DEF Take, Drop
<1>13. draft' \in Drafts /\ draft'.route # <<>>
  BY <1>2, <1>5, <1>11, DraftParts
<1>14. Next1("OPEN") /\ epoch' = epoch
  BY DEF OpenPlan
<1>15. TypedAsk("OPEN", c)
  BY <1>2, <1>8, <1>13, <1>14 DEF TypedAsk, Ask, plan, TypeInv, HostTyped
<1>16. Sorted(draft'.pending) /\ Sorted(draft'.route) /\ draft'.horizon = c.horizon
  BY <1>2, <1>8, <1>12
<1>17. OrderedAsk("OPEN", c)
  BY <1>8, <1>14, <1>15, <1>16, EmptyOrder DEF OrderedAsk, Next1, Waiting, PlainKinds
<1> QED
  BY <1>17

\* The first batch is what was kept for it.
LEMMA FirstBatchView ==
    ASSUME AskFirstBatch, TypeInv, ScriptInv, ShapeInv, OrderInv
    PROVE  \E kind, c : OrderedAsk(kind, c)
<1> DEFINE c == [horizon |-> draft.horizon, epoch |-> epoch, samples |-> draft.route]
<1>1. job = "start" /\ todo = <<"APPEND">> /\ Next1("APPEND")
  BY WhoseStep DEF AskFirstBatch, Next1
<1>2. draft \in Drafts /\ draft.route \in Samples /\ draft.horizon \in Nat
      /\ draft.route # <<>> /\ epoch \in Nat
  BY <1>1, DraftParts, AdapterAssumption DEF TypeInv, PlanTyped, RouteKnown, HostTyped
<1>3. /\ c \in Contents /\ c.samples # <<>> /\ "APPEND" \in Kinds
      /\ c.samples = draft.route /\ c.epoch = epoch
  BY <1>2, ContentParts DEF Kinds, StatusKinds
<1>4. Ask("APPEND", c) /\ UNCHANGED <<epoch, draft>>
  BY DEF AskFirstBatch
<1> HIDE DEF c
<1>5. TypedAsk("APPEND", c)
  BY <1>2, <1>3, <1>4 DEF TypedAsk, Ask, plan, TypeInv, HostTyped
<1>6. OrderedAsk("APPEND", c)
  BY <1>1, <1>3, <1>4, <1>5 DEF OrderedAsk, OrderInv, Next1, Waiting, PlainKinds
<1> QED
  BY <1>6

\* A batch of an active stream continues its route, or a part of it.
LEMMA AppendView ==
    ASSUME AskAppend, ~Fault, TypeInv, ScriptInv, OrderInv, job = "append"
    PROVE  \E kind, c : OrderedAsk(kind, c)
<1>1. PICK p \in Plans :
         LET first == Base + p[1]
             shift == Alignment(first)
             samples == SamplesAt(p, Base + shift, epoch)
         IN
         /\ draft' = [route   |-> After(route, Base) \o samples,
                      horizon |-> horizon, pending |-> pending]
         /\ Ask("APPEND", [horizon |-> horizon, epoch |-> epoch, samples |-> samples])
         /\ UNCHANGED epoch
  BY DEF AskAppend
<1>a. Base \in Nat /\ epoch \in Nat
  BY TailKnown
<1>b. \A t \in Nat : Alignment(t) \in Nat
  BY TailKnown
<1>c. After(route, Base) \in Seq(SampleSet)
  BY TailKnown
<1> DEFINE first == Base + p[1]
           shift == Alignment(first)
           samples == SamplesAt(p, Base + shift, epoch)
           future == After(route, Base)
           c == [horizon |-> horizon, epoch |-> epoch, samples |-> samples]
<1>2. /\ draft' = [route |-> future \o samples, horizon |-> horizon, pending |-> pending]
      /\ Ask("APPEND", c) /\ UNCHANGED epoch
  BY <1>1
<1>3. p[1] \in Nat
  BY PlanOrder
<1>4. first \in Nat
  BY <1>a, <1>3
<1>5. shift \in Nat
  BY <1>b, <1>4
<1>6. Base + shift \in Nat /\ epoch \in Nat
  BY <1>a, <1>5
<1>7. samples \in Samples /\ samples # <<>> /\ Sorted(samples)
  BY <1>6, PlanSamples
<1>8. future \in Seq(SampleSet) /\ samples \in Seq(SampleSet)
  BY <1>c, <1>7, SamplesAreTicked
<1>9. horizon \in Nat /\ pending \in Samples
  BY DEF TypeInv, PlanTyped
<1>10. c \in Contents /\ c.samples # <<>> /\ "APPEND" \in Kinds
       /\ c.samples = samples /\ c.epoch = epoch
  BY <1>6, <1>7, <1>9, ContentParts DEF Kinds, StatusKinds
<1>11. future \o samples = Continued("APPEND", route, samples, Base)
  BY DEF Continued
<1> HIDE DEF first, shift, samples, future, c
<1>12. future \o samples \in Seq(SampleSet) /\ future \o samples # <<>>
  BY <1>7, <1>8
<1>13. draft' \in Drafts /\ draft'.route # <<>>
  BY <1>2, <1>9, <1>12, DraftParts, SamplesAreTicked
<1>14. TypedAsk("APPEND", c)
  BY <1>2, <1>10, <1>13 DEF TypedAsk, Ask, plan, TypeInv, HostTyped
<1>15. draft'.pending = pending /\ draft'.horizon = horizon /\ draft'.route = future \o samples
  BY <1>2
<1>16. Next1("APPEND")
  BY DEF AskAppend
<1>17. OrderedAsk("APPEND", c)
  BY <1>2, <1>7, <1>10, <1>11, <1>14, <1>15, <1>16
     DEF OrderedAsk, OrderInv, Next1, Waiting, PlainKinds
<1> QED
  BY <1>17

LEMMA SpliceView ==
    ASSUME AskSplice, ~Fault, TypeInv, ScriptInv, OrderInv, job = "splice", epoch < MaxEpoch
    PROVE  \E kind, c : OrderedAsk(kind, c)
<1>1. PICK p \in Plans :
         LET at == Base + p[1]
             shift == Alignment(at)
             future == After(route, Base)
             samples == SamplesAt(p, Base + shift, epoch + 1)
         IN
         /\ epoch' = epoch + 1
         /\ draft' = [route   |-> Before(future, at + shift) \o samples,
                      horizon |-> horizon, pending |-> pending]
         /\ Ask("SPLICE", [horizon |-> 0, epoch |-> epoch + 1, samples |-> samples])
  BY DEF AskSplice
<1>a. Base \in Nat /\ epoch \in Nat
  BY TailKnown
<1>b. \A t \in Nat : Alignment(t) \in Nat
  BY TailKnown
<1>c. After(route, Base) \in Seq(SampleSet)
  BY TailKnown
<1> DEFINE at == Base + p[1]
           shift == Alignment(at)
           future == After(route, Base)
           samples == SamplesAt(p, Base + shift, epoch + 1)
           kept == Before(future, at + shift)
           c == [horizon |-> 0, epoch |-> epoch + 1, samples |-> samples]
<1>2. /\ draft' = [route |-> kept \o samples, horizon |-> horizon, pending |-> pending]
      /\ Ask("SPLICE", c) /\ epoch' = epoch + 1
  BY <1>1
<1>3. p[1] \in Nat
  BY PlanOrder
<1>4. at \in Nat
  BY <1>a, <1>3
<1>5. shift \in Nat
  BY <1>b, <1>4
<1>6. Base + shift \in Nat /\ epoch + 1 \in Nat /\ at + shift \in Int
  BY <1>a, <1>4, <1>5
<1>7. /\ samples \in Samples /\ samples # <<>> /\ Sorted(samples)
      /\ FirstTick(samples) = (Base + shift) + p[1]
  BY <1>6, PlanSamples
<1>8. future \in Seq(SampleSet) /\ samples \in Seq(SampleSet)
  BY <1>c, <1>7, SamplesAreTicked
<1>9. horizon \in Nat /\ pending \in Samples /\ epoch + 1 \in 0 .. MaxEpoch
  BY AdapterAssumption DEF TypeInv, PlanTyped, HostTyped
<1>10. c \in Contents /\ c.samples # <<>> /\ "SPLICE" \in Kinds
       /\ c.samples = samples /\ c.epoch = epoch + 1
  BY <1>6, <1>7, ContentParts DEF Kinds, StatusKinds
<1>11. kept \in Seq(SampleSet)
  BY <1>6, <1>8, BeforeType
<1>12. at + shift = (Base + shift) + p[1]
  <2> HIDE DEF shift
  <2> QED
    BY <1>a, <1>3, <1>5
<1>13. kept \o samples = Continued("SPLICE", route, samples, Base)
  BY <1>7, <1>12 DEF Continued
<1> HIDE DEF at, shift, samples, future, kept, c
<1>14. kept \o samples \in Seq(SampleSet) /\ kept \o samples # <<>>
  BY <1>7, <1>8, <1>11
<1>15. draft' \in Drafts /\ draft'.route # <<>>
  BY <1>2, <1>9, <1>14, DraftParts, SamplesAreTicked
<1>16. TypedAsk("SPLICE", c)
  BY <1>2, <1>9, <1>10, <1>15 DEF TypedAsk, Ask, plan
<1>17. draft'.pending = pending /\ draft'.horizon = horizon /\ draft'.route = kept \o samples
  BY <1>2
<1>18. Next1("SPLICE")
  BY DEF AskSplice
<1>19. OrderedAsk("SPLICE", c)
  BY <1>2, <1>7, <1>10, <1>13, <1>16, <1>17, <1>18
     DEF OrderedAsk, OrderInv, Next1, Waiting, PlainKinds
<1> QED
  BY <1>19

LEMMA PumpView ==
    ASSUME Pump, ~Fault, TypeInv, ScriptInv, ShapeInv, OrderInv, job = "poll"
    PROVE  (\E kind, c : OrderedAsk(kind, c)) \/ (Calm /\ KeepsPower /\ KeepsPoll)
<1> DEFINE future == After(route, Base)
           room == AtMost(MaxBatch, QueueCapacity - Len(future))
           n == AtMost(room, InWindow(pending))
           ready == Take(pending, n)
           c == [horizon |-> horizon, epoch |-> epoch, samples |-> ready]
<1>a. Next1("PUMP")
  BY DEF Pump
<1>1. CASE ready = <<>>
  <2>1. /\ todo' = Tail(todo)
        /\ UNCHANGED <<host, owned, epoch, armed, plan, streak, job, draft,
                       seen, firmware, link>>
    BY <1>1 DEF Pump
  <2>2. asked = "NONE" /\ todo # <<>> /\ Head(todo) = "PUMP" /\ host = "ACTIVE"
    BY <1>a DEF Next1, Waiting, ScriptInv, HostJob
  <2>3. todo = Pumping
    <3>1. todo \in PollScripts
      BY DEF ShapeInv, Shapes
    <3> QED
      BY <2>2, <3>1 DEF PollScripts, Feeding, Pumping, Looking
  <2>4. todo' = Looking
    BY <2>1, <2>3 DEF Pumping, Looking
  <2>5. Calm
    BY <2>1, <2>2 DEF Calm, Alive, Planned, link
  <2>6. \A k \in {"ARM", "ENABLE"} : Lacks(Pumping, k)
    BY DEF Lacks, Pumping
  <2>7. KeepsPower
    BY <2>1, <2>2, <2>3, <2>6 DEF KeepsPower
  <2>8. /\ ~Lacks(Pumping, "EXECUTOR") /\ ~Lacks(Looking, "EXECUTOR")
        /\ ~Lacks(Looking, "TRACKING")
    BY DEF Lacks, Pumping, Looking
  <2>9. KeepsPoll
    BY <2>1, <2>3, <2>4, <2>8 DEF KeepsPoll
  <2> QED
    BY <2>5, <2>7, <2>9
<1>2. CASE ready # <<>>
  <2>1. /\ draft' = [route |-> future \o ready, horizon |-> horizon,
                     pending |-> Drop(pending, Len(ready))]
        /\ Ask("APPEND", c) /\ UNCHANGED epoch
    BY <1>2 DEF Pump
  <2>2. future \in Seq(SampleSet) /\ epoch \in Nat
    BY TailKnown
  <2>3. InWindow(pending) \in 0 .. Len(pending) /\ Len(pending) \in Nat
        /\ pending \in Samples /\ horizon \in Nat
    BY WindowType DEF TypeInv, PlanTyped
  <2>4. room \in Int
    <3>1. Len(future) \in Nat
      BY <2>2
    <3> HIDE DEF future
    <3> QED
      BY <3>1, FirmwareAssumption, AdapterAssumption DEF AtMost
  <2>5. \A s : future \o s = Continued("APPEND", route, s, Base)
    BY DEF Continued
  <2> HIDE DEF room
  <2>6. n \in Int /\ n <= Len(pending)
    BY <2>3, <2>4 DEF AtMost
  <2> HIDE DEF n, future
  <2>7. ready \in Samples /\ Len(ready) = IF 1 <= n THEN n ELSE 0
    BY <2>3, <2>6, FirstSamples
  <2>8. Len(ready) \in Nat /\ Len(ready) <= Len(pending)
    BY <2>3, <2>6, <2>7
  <2>9. Drop(pending, Len(ready)) \in Samples
    BY <2>3, <2>8, FirstSamples
  <2>10. pending \in Seq(SampleSet) /\ Sorted(pending)
    BY <2>3, SamplesAreTicked DEF OrderInv
  <2>11. Sorted(ready)
    <3>1. 1 \in Nat \ {0}
      OBVIOUS
    <3> QED
      BY <2>6, <2>10, <3>1, PartOrder, SamplesAreTicked DEF Take
  <2>12. Sorted(Drop(pending, Len(ready)))
    <3>1. Len(ready) + 1 \in Nat \ {0} /\ Len(pending) \in Int
      BY <2>3, <2>8
    <3>2. Len(pending) <= Len(pending)
      BY <2>3
    <3> QED
      BY <2>10, <3>1, <3>2, PartOrder, SamplesAreTicked DEF Drop
  <2>13. c \in Contents /\ c.samples # <<>> /\ "APPEND" \in Kinds
         /\ c.samples = ready /\ c.epoch = epoch
    BY <1>2, <2>2, <2>3, <2>7, ContentParts DEF Kinds, StatusKinds
  <2> HIDE DEF ready, c
  <2>14. future \o ready \in Samples /\ future \o ready # <<>>
    <3>1. ready \in Seq(SampleSet) /\ ready # <<>>
      BY <1>2, <2>7, SamplesAreTicked
    <3>2. future \o ready \in Seq(SampleSet) /\ future \o ready # <<>>
      BY <2>2, <3>1
    <3> QED
      BY <3>2, SamplesAreTicked
  <2>15. draft' \in Drafts /\ draft'.route # <<>>
    BY <2>1, <2>3, <2>9, <2>14, DraftParts
  <2>16. TypedAsk("APPEND", c)
    BY <2>1, <2>13, <2>15 DEF TypedAsk, Ask, plan, TypeInv, HostTyped
  <2>17. /\ draft'.pending = Drop(pending, Len(ready)) /\ draft'.horizon = horizon
         /\ draft'.route = Continued("APPEND", route, ready, Base)
    BY <2>1, <2>5
  <2>18. OrderedAsk("APPEND", c)
    BY <1>a, <2>1, <2>11, <2>12, <2>13, <2>16, <2>17
       DEF OrderedAsk, Next1, Waiting, PlainKinds
  <2> QED
    BY <2>18
<1> QED
  BY <1>1, <1>2

\* The answer that was waited for came, and was not a reason to give up.
Answered(i) ==
    /\ Receive(i) /\ Waiting
    /\ Learn(down[i].says, down[i].at) /\ Adopt /\ todo' = Rest(down[i].says)
    /\ job = "fault" \/ ~Unhealthy(down[i].says) \/ JudgedLater
    /\ host' = host /\ epoch' = epoch /\ armed' = armed /\ job' = job

LEMMA AnswerViewed ==
    ASSUME GetAnswer
    PROVE  Over \/ \E i \in DOMAIN down : Answered(i)
<1>1. PICK i \in DOMAIN down :
         /\ Receive(i)
         /\ LET answer == down[i] IN
            IF job # "fault" /\ Unhealthy(answer.says) /\ ~JudgedLater
            THEN Fault
            ELSE /\ Learn(answer.says, answer.at)
                 /\ Adopt
                 /\ todo' = Rest(answer.says)
                 /\ UNCHANGED <<host, owned, epoch, armed, streak, job>>
  BY DEF GetAnswer
<1>2. asked' = "NONE" /\ up' = up /\ Waiting
  BY <1>1 DEF Receive
<1>3. CASE Fault
  BY <1>1, <1>2, <1>3, FaultIsOver
<1>4. CASE ~Fault
  BY <1>1, <1>2, <1>4 DEF Answered
<1> QED
  BY <1>3, <1>4

\* All that a step of the adapter can be.
LEMMA AdapterView ==
    ASSUME TypeInv, ScriptInv, ShapeInv, Reopens, OrderInv, AdapterStep
    PROVE  \/ Over
           \/ Calm /\ KeepsPower /\ KeepsPoll
           \/ \E kind, c : OrderedAsk(kind, c)
           \/ \E i \in DOMAIN down : Answered(i)
<1>1. CASE AskAppend
  <2>1. ~Waiting /\ job = "append" /\ asked = "NONE"
    BY <1>1 DEF AskAppend, Next1, Waiting
  <2>2. CASE Fault
    <3>1. UNCHANGED link
      BY <1>1, <2>1, <2>2 DEF AskAppend, Ask, Fault, ScriptInv, HostJob
    <3> QED
      BY <2>1, <2>2, <3>1, FaultIsOver DEF link
  <2> QED
    BY <1>1, <2>1, <2>2, AppendView
<1>2. CASE AskSplice
  <2>1. ~Waiting /\ job # "none" /\ todo # <<>> /\ Head(todo) = "SPLICE" /\ asked = "NONE"
    BY <1>2 DEF AskSplice, Next1, Waiting
  <2>2. job = "splice"
    BY <2>1, WhoseStep
  <2>3. epoch < MaxEpoch
    BY <2>1, <2>2 DEF ShapeInv, Claims
  <2>4. CASE Fault
    <3>1. UNCHANGED link
      BY <1>2, <2>2, <2>4 DEF AskSplice, Ask, Fault, ScriptInv, HostJob
    <3> QED
      BY <2>1, <2>4, <3>1, FaultIsOver DEF link
  <2> QED
    BY <1>2, <2>2, <2>3, <2>4, SpliceView
<1>3. CASE Pump
  <2>1. ~Waiting /\ job # "none" /\ todo # <<>> /\ Head(todo) = "PUMP" /\ asked = "NONE"
    BY <1>3 DEF Pump, Next1, Waiting
  <2>2. job = "poll"
    BY <2>1, WhoseStep
  <2>3. CASE Fault
    <3>1. UNCHANGED link
      BY <1>3, <2>2, <2>3 DEF Pump, Ask, Fault, ScriptInv, HostJob
    <3> QED
      BY <2>1, <2>3, <3>1, FaultIsOver DEF link
  <2> QED
    BY <1>3, <2>2, <2>3, PumpView
<1>4. CASE AskPlain \/ OpenPlan \/ AskFirstBatch
  BY <1>4, PlainView, OpenView, FirstBatchView
<1>5. CASE GetAnswer
  BY <1>5, AnswerViewed
<1>6. CASE \/ TimeOut \/ PrepareEnds \/ StartEnds \/ PollEnds \/ FeedbackEnds \/ StopEnds
           \/ FaultEnds \/ OtherEnds
  BY <1>6, EndIsCalm
<1> QED
  BY <1>1, <1>2, <1>3, <1>4, <1>5, <1>6, OperationIsCalm, ClaimIsCalm, CrashIsOver
     DEF AdapterStep, Exchange

-----------------------------------------------------------------------------
(* OrderInv.                                                                 *)

\* A batch that is admitted leaves the queue in order.
LEMMA BatchOrder ==
    ASSUME NEW b \in Contents, b.samples # <<>>, Sorted(b.samples), FirmwareTyped,
           Sorted(queue)
    PROVE  /\ AppendAdmitted(b) => Sorted(queue \o b.samples)
           /\ SpliceAdmitted(b) => Sorted(Before(queue, FirstTick(b.samples)) \o b.samples)
<1>1. /\ queue \in Seq(SampleSet) /\ b.samples \in Seq(SampleSet) /\ Ticked(SampleSet)
      /\ FirstTick(b.samples) \in Int /\ FirstTick(b.samples) \in Nat
  BY ContentParts, SamplesAreTicked DEF FirmwareTyped
<1>2. AppendAdmitted(b) => Sorted(queue \o b.samples)
  <2> SUFFICES ASSUME AppendAdmitted(b) PROVE Sorted(queue \o b.samples)
    OBVIOUS
  <2>1. queue # <<>> => LastTick(queue) < FirstTick(b.samples)
    <3>1. queue # <<>> => LastTick(queue) \in Nat /\ FirstTick(b.samples) > LastTick(queue)
      BY SamplesAreTicked DEF AppendAdmitted, FirmwareTyped
    <3>2. FirstTick(b.samples) \in Nat
      BY <1>1
    <3> QED
      BY <3>1, <3>2
  <2> QED
    BY <1>1, <2>1, JoinOrder
<1>3. Sorted(Before(queue, FirstTick(b.samples)) \o b.samples)
  <2> DEFINE s == Before(queue, FirstTick(b.samples))
  <2>1. s \in Seq(SampleSet) /\ Sorted(s)
    BY <1>1, BeforeType, BeforeOrder
  <2>2. \A i \in 1 .. Len(s) : s[i].tick < FirstTick(b.samples)
    BY <1>1, BeforeOrder
  <2> HIDE DEF s
  <2>3. s # <<>> => LastTick(s) < FirstTick(b.samples)
    <3>1. s # <<>> => Len(s) \in 1 .. Len(s)
      BY <2>1
    <3> QED
      BY <2>2, <3>1 DEF LastTick
  <2> QED
    BY <1>1, <2>1, <2>3, JoinOrder DEF s
<1> QED
  BY <1>2, <1>3

LEMMA HandleOrder ==
    ASSUME TypeInv, OrderInv, Handle
    PROVE  Sorted(queue')
<1>1. /\ up # <<>> /\ Head(up) \in Frames /\ Head(up) = up[1] /\ 1 \in 1 .. Len(up)
      /\ Head(up).content \in Contents
  BY HandleEffect, TailOfLink, FrameParts DEF TypeInv, LinkTyped
<1>2. Sorted(Head(up).content.samples) /\ Sorted(queue) /\ Sorted(<<>>)
  BY <1>1, EmptyOrder DEF OrderInv
<1>3. CASE queue' = queue \/ queue' = <<>>
  BY <1>2, <1>3
<1>4. CASE SetpointBatch \/ SpliceBatch
  <2>1. Head(up).content.samples # <<>>
    BY <1>1, <1>4 DEF SetpointBatch, SpliceBatch, Handles, TypeInv, FullBatches
  <2>2. FirmwareTyped
    BY DEF TypeInv
  <2>3. \/ queue' = queue
        \/ /\ AppendAdmitted(Head(up).content)
           /\ queue' = queue \o Head(up).content.samples
        \/ /\ SpliceAdmitted(Head(up).content)
           /\ queue' = Before(queue, FirstTick(Head(up).content.samples))
                          \o Head(up).content.samples
    BY <1>4 DEF SetpointBatch, SpliceBatch, Admit, firmware, stream
  <2> QED
    BY <1>1, <1>2, <2>1, <2>2, <2>3, BatchOrder
<1>5. CASE StreamOpen
  BY <1>3, <1>5 DEF StreamOpen
<1>6. CASE ~SetpointBatch /\ ~SpliceBatch /\ ~StreamOpen
  BY <1>3, <1>6 DEF Handle, Hello, Heartbeat, PrepareShadow, ArmRequest, Enable, SafeStop,
       Stop, CoordinatedStop, ExecutorDiagnostics, TrackingDiagnostics, FeedbackSnapshot, firmware, stream
<1> QED
  BY <1>4, <1>5, <1>6

LEMMA EnvironmentOrder ==
    ASSUME TypeInv, OrderInv, Environment
    PROVE  Sorted(queue')
<1>1. Sorted(queue) /\ Sorted(<<>>)
  BY EmptyOrder DEF OrderInv
<1>2. CASE SampleApplied
  <2>1. queue \in Seq(SampleSet) /\ queue # <<>> /\ queue' = Tail(queue) /\ Ticked(SampleSet)
    BY <1>2, SamplesAreTicked DEF SampleApplied, TypeInv, FirmwareTyped
  <2>2. Tail(queue) = SubSeq(queue, 2, Len(queue)) /\ 2 \in Nat \ {0} /\ Len(queue) \in Int
    BY <2>1
  <2>3. Len(queue) <= Len(queue)
    BY <2>2
  <2>4. Sorted(SubSeq(queue, 2, Len(queue)))
    <3>1. /\ queue \in Seq(SampleSet) /\ Ticked(SampleSet) /\ Sorted(queue)
          /\ 2 \in Nat \ {0} /\ Len(queue) \in Int /\ Len(queue) <= Len(queue)
      BY <1>1, <2>1, <2>2, <2>3
    <3> QED
      BY ONLY <3>1, PartOrder
  <2> QED
    BY <2>1, <2>2, <2>4, Zenon
<1>3. CASE queue' = queue \/ queue' = <<>>
  BY <1>1, <1>3
<1>4. CASE ~SampleApplied
  BY <1>3, <1>4 DEF Environment, Clock, Watchdog, FirmwareStops, Control, StreamStarts,
       Underflow, SettleEnds, Stop, CoordinatedStop, stream
<1> QED
  BY <1>2, <1>4

\* What is left of a script after an answer.
LEMMA RestOfScript ==
    ASSUME ScriptInv, ShapeInv, Waiting, NEW says
    PROVE  /\ job # "none" /\ todo # <<>> /\ todo \in Seq(Steps)
           /\ Head(todo) = asked \/ (Head(todo) = "PUMP" /\ asked = "APPEND")
           /\ \/ Rest(says) = Tail(todo) /\ ~(asked = "EXECUTOR" /\ says = "SUCCEEDED")
              \/ /\ asked = "EXECUTOR" /\ says = "SUCCEEDED" /\ job = "poll"
                 /\ Rest(says) = <<"FEEDBACK">> \o Tail(todo)
           /\ \A k : Lacks(Rest(says), k) => Head(todo) = k \/ Lacks(todo, k)
<1>1. /\ job # "none" /\ todo # <<>> /\ todo \in Seq(Steps)
      /\ Head(todo) = asked \/ (Head(todo) = "PUMP" /\ asked = "APPEND")
  BY DEF ScriptInv, Scripts, AskedIsNext
<1>2. Tail(todo) \in Seq(Steps) /\ <<"FEEDBACK">> \in Seq(Steps)
  BY <1>1, TailLacks, ShortScripts DEF Steps, PlainKinds
<1>3. \/ Rest(says) = Tail(todo) /\ ~(asked = "EXECUTOR" /\ says = "SUCCEEDED")
      \/ /\ asked = "EXECUTOR" /\ says = "SUCCEEDED"
         /\ Rest(says) = <<"FEEDBACK">> \o Tail(todo)
  BY <1>2, ConcatEmptySeq DEF Rest
<1>4. asked = "EXECUTOR" => job = "poll"
  BY <1>1, WhoseStep
<1>5. \A k : Lacks(Tail(todo), k) => Head(todo) = k \/ Lacks(todo, k)
  <2> SUFFICES ASSUME NEW k, Lacks(Tail(todo), k), Head(todo) # k,
                      NEW i \in 1 .. Len(todo)
               PROVE  todo[i] # k
    BY DEF Lacks
  <2>1. /\ Head(todo) = todo[1] /\ Len(Tail(todo)) = Len(todo) - 1 /\ Len(todo) \in Nat
        /\ \A j \in 1 .. Len(Tail(todo)) : Tail(todo)[j] = todo[j + 1]
    BY <1>1, TailOfLink
  <2>2. CASE i = 1
    BY <2>1, <2>2
  <2>3. CASE i # 1
    <3>1. i - 1 \in 1 .. Len(Tail(todo)) /\ (i - 1) + 1 = i
      BY <2>1, <2>3
    <3>2. Tail(todo)[i - 1] = todo[i]
      BY <2>1, <3>1
    <3> QED
      BY <3>1, <3>2 DEF Lacks
  <2> QED
    BY <2>2, <2>3
<1>6. \A k : Lacks(<<"FEEDBACK">> \o Tail(todo), k) => Lacks(Tail(todo), k)
  <2> SUFFICES ASSUME NEW k, Lacks(<<"FEEDBACK">> \o Tail(todo), k),
                      NEW i \in 1 .. Len(Tail(todo))
               PROVE  Tail(todo)[i] # k
    BY DEF Lacks
  <2> DEFINE t == Tail(todo)
  <2>1. t \in Seq(Steps) /\ i \in 1 .. Len(t) /\ Len(t) \in Nat
    BY <1>2
  <2> HIDE DEF t
  <2>2. /\ Len(<<"FEEDBACK">> \o t) = Len(t) + 1
        /\ (<<"FEEDBACK">> \o t)[i + 1] = t[i]
    BY <2>1
  <2>3. i + 1 \in 1 .. Len(<<"FEEDBACK">> \o t)
    BY <2>1, <2>2
  <2> QED
    BY <2>2, <2>3 DEF Lacks, t
<1> QED
  BY <1>1, <1>3, <1>4, <1>5, <1>6

\* A later START never goes through the steps of the first one.
LEMMA NextReopens ==
    ASSUME ScriptInv, ShapeInv, Reopens, [Next]_vars
    PROVE  Reopens'
<1>1. CASE UNCHANGED <<job, todo, armed>>
  BY <1>1 DEF Reopens
<1>2. CASE job' # "start" \/ ~armed'
  BY <1>2 DEF Reopens
<1>3. CASE Start
  <2>1. armed' = armed /\ (armed => todo' = Opening)
    BY <1>3 DEF Start, Begin
  <2>2. Opening # Claiming
    BY DEF Opening, Claiming
  <2> QED
    BY <2>1, <2>2 DEF Reopens
<1>4. CASE Claim
  <2>1. CASE Done
    BY <1>2, <2>1 DEF Done
  <2>2. CASE ~Done
    <3>1. todo' = Tail(todo) /\ job' = job /\ todo # <<>> /\ Head(todo) = "CLAIM"
      BY <1>4, <2>2 DEF Claim, Next1
    <3>2. CASE job = "start"
      <4>1. todo \in StartScripts
        BY <3>2 DEF ShapeInv, Shapes
      <4>2. Lacks(Tail(todo), "CLAIM")
        BY <3>1, <4>1, StartGoesOn
      <4>3. ~Lacks(Claiming, "CLAIM")
        BY DEF Lacks, Claiming
      <4> QED
        BY <3>1, <4>2, <4>3 DEF Reopens
    <3> QED
      BY <1>2, <3>1, <3>2
  <2> QED
    BY <2>1, <2>2
<1>5. CASE GetAnswer
  <2>1. CASE Fault
    BY <1>2, <2>1 DEF Fault
  <2>2. CASE ~Fault
    <3>1. PICK says : todo' = Rest(says) /\ job' = job /\ armed' = armed
      BY <1>5, <2>2 DEF GetAnswer
    <3>2. Waiting
      BY <1>5 DEF GetAnswer, Receive
    <3>3. CASE job = "start" /\ armed
      <4>1. /\ todo # <<>> /\ todo' = Tail(todo)
            /\ Head(todo) = asked \/ (Head(todo) = "PUMP" /\ asked = "APPEND")
        BY <3>1, <3>2, <3>3, RestOfScript
      <4>2. todo \in StartScripts /\ Lacks(todo, "SHADOW")
        BY <3>3 DEF ShapeInv, Shapes, ScriptInv, Scripts
      <4>3. ~Lacks(Preparing, "SHADOW") /\ ~Lacks(Arming, "SHADOW")
        BY DEF Lacks, Preparing, Arming
      <4>4. todo # Preparing /\ todo # Arming
        BY <4>2, <4>3
      <4>5. Len(todo) \in {0, 1, 2, 3, 4, 5, 6, 7}
        <5>1. /\ Len(Claiming) = 7 /\ Len(Opening) = 4 /\ Len(Powering) = 6
              /\ Len(Enabling) = 5
          BY DEF Claiming, Opening, Powering, Enabling
        <5>2. /\ Len(<<"ENABLE", "HEARTBEAT", "OPEN", "APPEND">>) = 4
              /\ Len(<<"HEARTBEAT", "OPEN", "APPEND">>) = 3
              /\ Len(<<"OPEN", "APPEND">>) = 2 /\ Len(<<"APPEND">>) = 1 /\ Len(<<>>) = 0
          OBVIOUS
        <5> QED
          BY <4>2, <4>4, <5>1, <5>2, Zenon DEF StartScripts
      <4>6. Len(Tail(todo)) = Len(todo) - 1
        <5>1. todo \in Seq(Steps)
          BY DEF ScriptInv, Scripts
        <5> QED
          BY <4>1, <5>1, TailOfLink
      <4>7. Len(Claiming) = 7
        BY DEF Claiming
      <4>8. Len(Tail(todo)) # 7
        <5>1. \A n \in {0, 1, 2, 3, 4, 5, 6, 7} : n - 1 # 7
          OBVIOUS
        <5> QED
          BY <4>5, <4>6, <5>1, Zenon
      <4>9. Tail(todo) # Claiming
        BY <4>7, <4>8
      <4> QED
        BY <4>1, <4>9 DEF Reopens
    <3> QED
      BY <1>2, <3>1, <3>3
  <2> QED
    BY <2>1, <2>2
<1>6. CASE AskPlain \/ OpenPlan \/ AskFirstBatch \/ AskAppend \/ AskSplice
  BY <1>1, <1>2, <1>6 DEF AskPlain, OpenPlan, AskFirstBatch, AskAppend, AskSplice, Ask, Fault
<1>7. CASE Pump
  <2>1. job = "poll"
    BY <1>7, WhoseStep DEF Pump, Next1
  <2> QED
    BY <1>2, <1>7, <2>1 DEF Pump, Ask, Fault
<1>8. CASE \/ TimeOut \/ PrepareEnds \/ StartEnds \/ PollEnds \/ FeedbackEnds \/ StopEnds
           \/ FaultEnds \/ OtherEnds \/ Crash
  BY <1>2, <1>8 DEF TimeOut, PrepareEnds, StartEnds, PollEnds, FeedbackEnds, StopEnds,
       FaultEnds, OtherEnds, Crash, Done, Fault
<1>9. CASE Operation /\ ~Start
  <2>1. job' # "start"
    BY <1>9 DEF Operation, Prepare, RefreshUnarmedAnchor, AppendPoints, SplicePoints,
         StrayClaim, Poll, Keepalive, PublishFeedback, StopStream, Begin, Idle, operation
  <2> QED
    BY <1>2, <2>1
<1>10. CASE UNCHANGED adapter
  BY <1>1, <1>10 DEF adapter, operation
<1> QED
  BY <1>3, <1>4, <1>5, <1>6, <1>7, <1>8, <1>9, <1>10, WhoMoves DEF AdapterStep, Exchange, vars, Loss

LEMMA NextOrder ==
    ASSUME TypeInv, ScriptInv, ShapeInv, Reopens, OrderInv, [Next]_vars
    PROVE  OrderInv'
<1>1. CASE AdapterStep /\ UNCHANGED firmware
  <2>1. Sorted(queue)'
    BY <1>1 DEF OrderInv, firmware, stream
  <2>2. CASE Over
    <3>1. pending' = pending \/ pending' = <<>>
      BY <2>2 DEF Over, NoPlan, plan
    <3>2. draft'.pending = <<>> /\ draft'.route = <<>> /\ up' = up
      BY <2>2 DEF Over, NoDraft
    <3> QED
      BY <2>1, <3>1, <3>2, EmptyOrder DEF OrderInv
  <2>3. CASE Calm
    <3>1. pending' = pending \/ pending' = <<>>
      BY <2>3 DEF Calm, NoPlan, plan
    <3>2. NoDraft.pending = <<>> /\ NoDraft.route = <<>>
      BY DEF NoDraft
    <3>3. Sorted(draft.pending)'
      BY <2>3, <3>2, EmptyOrder DEF OrderInv, Calm
    <3>4. job' \in {"none", "start"} => Sorted(draft.route)'
      BY <2>3, <3>2, EmptyOrder DEF OrderInv, Calm
    <3>5. up' = up
      BY <2>3 DEF Calm
    <3> QED
      BY <2>1, <3>1, <3>3, <3>4, <3>5, EmptyOrder DEF OrderInv
  <2>4. CASE \E kind, c : OrderedAsk(kind, c)
    <3>1. PICK kind, c : OrderedAsk(kind, c)
      BY <2>4
    <3>2. TypedAsk(kind, c) /\ Sorted(c.samples) /\ Sorted(draft'.pending)
          /\ job # "none" /\ (job = "start" => Sorted(draft'.route))
      BY <3>1 DEF OrderedAsk
    <3>3. Send(kind, c) /\ kind \in Kinds /\ c \in Contents /\ pending' = pending /\ job' = job
      BY <3>2 DEF TypedAsk
    <3>4. /\ Len(up) \in Nat /\ Len(up') = Len(up) + 1
          /\ \A i \in 1 .. Len(up) : up'[i].content = up[i].content
          /\ up'[Len(up) + 1].content = c
      BY <3>3, SendView DEF TypeInv
    <3>5. \A i \in 1 .. Len(up') : Sorted(up'[i].content.samples)
      <4> SUFFICES ASSUME NEW i \in 1 .. Len(up') PROVE Sorted(up'[i].content.samples)
        OBVIOUS
      <4>1. i \in 1 .. Len(up) \/ i = Len(up) + 1
        BY <3>4
      <4> QED
        BY <3>2, <3>4, <4>1 DEF OrderInv
    <3> QED
      BY <2>1, <3>2, <3>3, <3>5 DEF OrderInv
  <2>5. CASE \E i \in DOMAIN down : Answered(i)
    <3>1. Adopt /\ up' = up /\ job' = job /\ asked # "NONE"
      BY <2>5 DEF Answered, Receive, Waiting
    <3>2. NoDraft.pending = <<>> /\ NoDraft.route = <<>>
      BY DEF NoDraft
    <3>3. CASE draft' = NoDraft /\ pending' = draft.pending
      BY <2>1, <3>1, <3>2, <3>3, EmptyOrder DEF OrderInv
    <3>4. CASE draft' = draft /\ pending' = pending
      BY <2>1, <3>1, <3>4 DEF OrderInv
    <3> QED
      BY <3>1, <3>3, <3>4 DEF Adopt, plan
  <2> QED
    BY <1>1, <2>2, <2>3, <2>4, <2>5, AdapterView
<1>2. CASE UNCHANGED adapter /\ up' = up /\ Sorted(queue')
  <2>1. pending' = pending /\ draft' = draft /\ job' = job
    BY <1>2 DEF adapter, plan, operation
  <2> QED
    BY <1>2, <2>1 DEF OrderInv
<1>3. CASE UNCHANGED adapter /\ up # <<>> /\ up' = Tail(up) /\ Sorted(queue')
  <2>1. pending' = pending /\ draft' = draft /\ job' = job
    BY <1>3 DEF adapter, plan, operation
  <2>2. /\ Len(up) \in Nat \ {0} /\ Len(up') = Len(up) - 1
        /\ \A i \in 1 .. Len(up') : up'[i] = up[i + 1]
    BY <1>3, TailOfLink DEF TypeInv, LinkTyped
  <2>3. \A i \in 1 .. Len(up') : Sorted(up'[i].content.samples)
    <3> SUFFICES ASSUME NEW i \in 1 .. Len(up') PROVE Sorted(up'[i].content.samples)
      OBVIOUS
    <3>1. i + 1 \in 1 .. Len(up) /\ up'[i] = up[i + 1]
      BY <2>2
    <3> QED
      BY <3>1 DEF OrderInv
  <2> QED
    BY <1>3, <2>1, <2>3 DEF OrderInv
<1>4. CASE Handle /\ UNCHANGED adapter
  BY <1>3, <1>4, HandleEffect, HandleOrder
<1>5. CASE Environment /\ UNCHANGED <<link, adapter>>
  BY <1>2, <1>5, EnvironmentOrder DEF link
<1>6. CASE Loss /\ UNCHANGED <<firmware, adapter>>
  BY <1>2, <1>3, <1>6 DEF Loss, LoseRequest, LoseAnswer, firmware, stream, OrderInv
<1>7. CASE UNCHANGED vars
  BY <1>2, <1>7 DEF vars, firmware, stream, link, OrderInv
<1> QED
  BY <1>1, <1>4, <1>5, <1>6, <1>7, WhoMoves

\* Samples are in order at all times.
LEMMA SpecOrder == Spec => [](Reopens /\ OrderInv)
<1>1. Init => Reopens /\ OrderInv
  <2> SUFFICES ASSUME Init PROVE Reopens /\ OrderInv
    OBVIOUS
  <2>1. /\ queue = <<>> /\ pending = <<>> /\ draft = NoDraft /\ up = <<>> /\ job = "none"
    BY DEF Init, FirmwareInit
  <2>2. draft.pending = <<>> /\ draft.route = <<>>
    BY <2>1 DEF NoDraft
  <2>3. \A i \in 1 .. Len(up) : FALSE
    BY <2>1
  <2> QED
    BY <2>1, <2>2, <2>3, EmptyOrder DEF Reopens, OrderInv
<1>2. ASSUME TypeInv, ScriptInv, ShapeInv, Reopens /\ OrderInv, [Next]_vars
      PROVE  (Reopens /\ OrderInv)'
  BY <1>2, NextReopens, NextOrder
<1> QED
  BY <1>1, <1>2, SpecTyped, SpecScripts, SpecShapes, PTL DEF Spec

-----------------------------------------------------------------------------
(* What is said, and when.                                                   *)

\* An answer with this word is on its way to the request that waits.
Says(word) == \E i \in 1 .. Len(down) : down[i].mine /\ down[i].says = word

\* A session that is not over has nothing on its way but the request that
\* waits, and feedback that may have been given up.
Quiet ==
    Alive => \A i \in 1 .. Len(up) : up[i].kind = "FEEDBACK" \/ (Waiting /\ up[i].mine)

\* The ticks in answers are not ahead of the firmware's.
InThePast == seen.base <= now /\ \A i \in 1 .. Len(down) : down[i].at <= now

\* What the requests that matter are answered with.
Verdicts == {"OK", "LATCHED", "REFUSED"}
Judged == {"ARM", "ENABLE", "OPEN", "APPEND", "SPLICE"}
AnswersFit ==
    asked \in Judged =>
        \A i \in 1 .. Len(down) : down[i].mine => down[i].says \in Verdicts

TalkInv == Quiet /\ InThePast /\ AnswersFit

\* The clock of the firmware never goes back, and only ticks by itself.
LEMMA ClockGoesOn ==
    ASSUME TypeInv, [Next]_vars
    PROVE  /\ now' \in Nat /\ now <= now'
           /\ Handle => now' = now
<1>1. now \in Nat
  BY DEF TypeInv, FirmwareTyped
<1>2. Handle => now' = now
  BY DEF Handle, Hello, Heartbeat, PrepareShadow, ArmRequest, Enable, SafeStop, Stop, CoordinatedStop,
     ExecutorDiagnostics, TrackingDiagnostics, FeedbackSnapshot, StreamOpen, SetpointBatch,
     SpliceBatch, Admit, firmware
<1>3. Environment => now' = now \/ now' = now + 1
  BY DEF Environment, Clock, Watchdog, FirmwareStops, Control, StreamStarts, SampleApplied,
     Underflow, SettleEnds, Stop, CoordinatedStop
<1>4. UNCHANGED firmware \/ UNCHANGED vars => now' = now
  BY DEF firmware, vars
<1>5. now' = now \/ now' = now + 1
  BY <1>2, <1>3, <1>4, WhoMoves
<1> QED
  BY <1>1, <1>2, <1>5

\* A request that waits for its answer is handled as what it is; what is said
\* then is all that is said.
LEMMA Answering ==
    ASSUME TypeInv, LinkInv, Handle, Waiting, NEW word, Says(word)'
    PROVE  /\ Head(up).mine /\ Head(up).kind = asked
           /\ \A says, at : AnswerAt(says, at) => says = word
<1>1. up # <<>>
  BY HandleAnswers DEF TypeInv
<1>2. PICK says0 \in Words, at0 \in Nat : AnswerAt(says0, at0)
  BY HandleAnswers DEF TypeInv
<1>3. /\ Len(up) \in Nat \ {0} /\ Head(up) = up[1]
      /\ Len(down) \in Nat /\ Len(down') = Len(down) + 1
      /\ \A i \in 1 .. Len(down) : down'[i] = down[i]
      /\ down'[Len(down) + 1].mine = Head(up).mine
  BY <1>1, <1>2, AnswerView DEF TypeInv
<1>4. PICK i \in 1 .. Len(down') : down'[i].mine /\ down'[i].says = word
  BY DEF Says
<1>5. \A j \in 1 .. Len(down) : ~down[j].mine
  BY <1>1 DEF LinkInv, AnsweredIsEmpty
<1>6. i = Len(down) + 1
  <2>1. i \notin 1 .. Len(down)
    BY <1>3, <1>4, <1>5
  <2> QED
    BY <1>3, <2>1
<1>7. Head(up).mine /\ Head(up).kind = asked
  <2>1. up[1].mine /\ 1 \in 1 .. Len(up)
    BY <1>3, <1>4, <1>6
  <2> QED
    BY <1>3, <2>1 DEF LinkInv, NewestIsLast
<1>8. ASSUME NEW says, NEW at, AnswerAt(says, at)
      PROVE  says = word
  <2> DEFINE new == [kind |-> AnswerKind(Head(up).kind), mine |-> Head(up).mine,
                     says |-> says, at |-> at]
  <2>1. down' = Append(down, new) /\ new.says = says
    BY <1>8 DEF AnswerAt
  <2> HIDE DEF new
  <2>2. down \in Seq(Replies)
    BY DEF TypeInv, LinkTyped
  <2>3. down'[Len(down) + 1] = new
    BY <2>1, <2>2
  <2> QED
    BY <1>4, <1>6, <2>1, <2>3
<1> QED
  BY <1>7, <1>8

\* The requests that matter are answered with a verdict.
LEMMA HandleVerdict ==
    ASSUME Handle, Head(up).kind \in Judged
    PROVE  \E says \in Verdicts : Answer(says)
<1>1. "OK" \in Verdicts /\ "LATCHED" \in Verdicts /\ "REFUSED" \in Verdicts
      /\ Health \in Verdicts
  BY DEF Verdicts, Health
<1>2. ArmRequest \/ Enable \/ StreamOpen \/ SetpointBatch \/ SpliceBatch
  BY DEF Handle, Hello, Heartbeat, PrepareShadow, SafeStop, ExecutorDiagnostics,
         TrackingDiagnostics, FeedbackSnapshot, Handles, Judged
<1>3. Answer("OK") \/ Answer("REFUSED") \/ Answer(Health)
  <2>1. ArmRequest => Answer("REFUSED") \/ Answer("OK")
    BY Zenon DEF ArmRequest
  <2>2. Enable => Answer(Health)
    BY DEF Enable
  <2>3. StreamOpen \/ SetpointBatch \/ SpliceBatch => Answer("OK") \/ Answer("REFUSED")
    BY DEF StreamOpen, SetpointBatch, SpliceBatch, Admit
  <2> QED
    BY <1>2, <2>1, <2>2, <2>3
<1> QED
  BY <1>1, <1>3

\* What the adapter learns of the tick of an answer.
LEMMA LearnBase ==
    ASSUME SeenTyped, NEW says, NEW at, Learn(says, at)
    PROVE  /\ seen'.base = IF asked = "HEARTBEAT" THEN at ELSE seen.base
           /\ seen'.exec = IF asked = "EXECUTOR" THEN says ELSE seen.exec
           /\ seen'.idle = IF asked = "TRACKING" THEN says = "IDLE" ELSE seen.idle
  BY DEF Learn, SeenTyped

LEMMA NextQuiet ==
    ASSUME TypeInv, ScriptInv, ShapeInv, LinkInv, Reopens, OrderInv, Quiet, [Next]_vars
    PROVE  Quiet'
<1>1. CASE AdapterStep /\ UNCHANGED firmware
  <2>1. CASE Over
    BY <2>1 DEF Over, Quiet, Alive
  <2>2. CASE Calm
    <3>1. ASSUME Alive', NEW i \in 1 .. Len(up') PROVE up'[i].kind = "FEEDBACK"
      <4>1. Alive /\ up' = up /\ asked \in {"NONE", "FEEDBACK"}
        BY <2>2, <3>1 DEF Calm
      <4>2. up[i].kind = "FEEDBACK" \/ (Waiting /\ up[i].mine)
        BY <3>1, <4>1 DEF Quiet
      <4>3. Waiting /\ up[i].mine => up[i].kind = "FEEDBACK"
        BY <3>1, <4>1 DEF LinkInv, NewestIsLast, Waiting
      <4> QED
        BY <4>1, <4>2, <4>3
    <3> QED
      BY <3>1 DEF Quiet
  <2>3. CASE \E kind, c : OrderedAsk(kind, c)
    <3>1. PICK kind, c : TypedAsk(kind, c) /\ asked = "NONE"
      BY <2>3 DEF OrderedAsk
    <3>2. Send(kind, c) /\ kind \in Kinds /\ c \in Contents /\ host' = host
      BY <3>1 DEF TypedAsk
    <3>3. /\ Len(up) \in Nat /\ Len(up') = Len(up) + 1 /\ asked' = kind
          /\ \A i \in 1 .. Len(up) : up'[i].kind = up[i].kind
          /\ up'[Len(up) + 1].mine
      BY <3>2, SendView DEF TypeInv
    <3>4. Waiting' /\ ~Waiting
      BY <3>1, <3>2, <3>3 DEF Waiting, Kinds, PlainKinds, StatusKinds
    <3>5. ASSUME Alive', NEW i \in 1 .. Len(up')
          PROVE  up'[i].kind = "FEEDBACK" \/ (Waiting' /\ up'[i].mine)
      <4>1. i \in 1 .. Len(up) \/ i = Len(up) + 1
        BY <3>3
      <4>2. Alive
        BY <3>2, <3>5 DEF Alive
      <4> QED
        BY <3>3, <3>4, <4>1, <4>2 DEF Quiet
    <3> QED
      BY <3>5 DEF Quiet
  <2>4. CASE \E i \in DOMAIN down : Answered(i)
    <3>1. PICK i \in DOMAIN down : Receive(i) /\ Waiting
      BY <2>4 DEF Answered
    <3>2. i \in 1 .. Len(down) /\ down[i].mine /\ up' = up
      BY <3>1, ReceiveView DEF TypeInv
    <3>3. up = <<>>
      BY <3>1, <3>2 DEF LinkInv, AnsweredIsEmpty
    <3> QED
      BY <3>2, <3>3 DEF Quiet
  <2> QED
    BY <1>1, <2>1, <2>2, <2>3, <2>4, AdapterView
<1>2. CASE UNCHANGED adapter /\ asked' = asked /\ up' = up
  <2>1. host' = host
    BY <1>2 DEF adapter
  <2> QED
    BY <1>2, <2>1 DEF Quiet, Alive, Waiting
<1>3. CASE UNCHANGED adapter /\ asked' = asked /\ up # <<>> /\ up' = Tail(up)
  <2>1. host' = host
    BY <1>3 DEF adapter
  <2>2. /\ Len(up) \in Nat \ {0} /\ Len(up') = Len(up) - 1
        /\ \A i \in 1 .. Len(up') : up'[i] = up[i + 1]
    BY <1>3, TailOfLink DEF TypeInv, LinkTyped
  <2>3. ASSUME Alive', NEW i \in 1 .. Len(up')
        PROVE  up'[i].kind = "FEEDBACK" \/ (Waiting' /\ up'[i].mine)
    <3>1. i + 1 \in 1 .. Len(up) /\ up'[i] = up[i + 1]
      BY <2>2
    <3> QED
      BY <1>3, <2>1, <2>3, <3>1 DEF Quiet, Alive, Waiting
  <2> QED
    BY <2>3 DEF Quiet
<1>4. CASE Handle /\ UNCHANGED adapter
  BY <1>3, <1>4, HandleEffect
<1>5. CASE Loss /\ UNCHANGED <<firmware, adapter>>
  BY <1>2, <1>3, <1>5 DEF Loss, LoseRequest, LoseAnswer
<1>6. CASE UNCHANGED <<link, adapter>>
  BY <1>2, <1>6 DEF link
<1> QED
  BY <1>1, <1>4, <1>5, <1>6, WhoMoves DEF vars

\* Answers that are left of those on their way are no later ones, and no
\* others.
LEMMA FewerAnswers ==
    ASSUME TypeInv, InThePast, NEW n \in Nat, Len(down') = Len(down) - n,
           \A i \in 1 .. Len(down') : down'[i] = down[i + n],
           now' \in Nat, now <= now', seen'.base \in Nat, seen'.base <= now
    PROVE  InThePast'
<1>1. Len(down) \in Nat /\ now \in Nat
  BY DEF TypeInv, FirmwareTyped, LinkTyped
<1>2. ASSUME NEW i \in 1 .. Len(down') PROVE down'[i].at <= now'
  <2>1. i + n \in 1 .. Len(down)
    BY <1>1
  <2>2. down[i + n].at <= now /\ down'[i] = down[i + n]
    BY <2>1 DEF InThePast
  <2>3. down[i + n].at \in Nat
    BY <2>1, ReplyParts DEF TypeInv, LinkTyped
  <2> QED
    BY <1>1, <2>2, <2>3
<1> QED
  BY <1>1, <1>2 DEF InThePast

LEMMA NextInThePast ==
    ASSUME TypeInv, ScriptInv, ShapeInv, Reopens, OrderInv, InThePast, [Next]_vars
    PROVE  InThePast'
<1>1. now' \in Nat /\ now <= now' /\ now \in Nat /\ (Handle => now' = now)
      /\ down \in Seq(Replies) /\ Len(down) \in Nat
  BY ClockGoesOn DEF TypeInv, FirmwareTyped, LinkTyped
<1>2. seen.base \in Nat /\ seen.base <= now /\ NothingSeen.base = 0
  BY SeenParts DEF TypeInv, InThePast, NothingSeen
<1>3. 0 \in Nat /\ 0 <= now
  BY <1>1
<1>4. ASSUME down' = down, seen' = seen \/ seen' = NothingSeen
      PROVE  InThePast'
  <2>1. Len(down') = Len(down) - 0 /\ \A i \in 1 .. Len(down') : down'[i] = down[i + 0]
    BY <1>1, <1>4
  <2>2. seen'.base \in Nat /\ seen'.base <= now
    BY <1>2, <1>3, <1>4
  <2> QED
    BY <1>1, <1>3, <2>1, <2>2, FewerAnswers
<1>5. ASSUME NEW i \in DOMAIN down, Receive(i), seen'.base \in Nat, seen'.base <= now
      PROVE  InThePast'
  <2>1. i \in Nat /\ Len(down') = Len(down) - i
        /\ \A j \in 1 .. Len(down') : down'[j] = down[i + j]
    BY <1>5, ReceiveView DEF TypeInv
  <2>2. \A j \in 1 .. Len(down') : down'[j] = down[j + i]
    <3>1. Len(down') \in Int
      BY <1>1, <2>1
    <3> QED
      BY <2>1, <3>1
  <2> QED
    BY <1>1, <1>5, <2>1, <2>2, FewerAnswers
<1>6. CASE AdapterStep /\ UNCHANGED firmware
  <2>1. CASE Over
    <3>1. CASE down' = <<>>
      <4>1. seen'.base = 0 /\ Len(down') = 0
        BY <1>2, <2>1, <3>1 DEF Over
      <4> QED
        BY <1>1, <4>1 DEF InThePast
    <3>2. CASE \E i \in DOMAIN down : Receive(i)
      <4>1. seen'.base \in Nat /\ seen'.base <= now
        BY <1>2, <1>3, <2>1 DEF Over
      <4> QED
        BY <1>5, <3>2, <4>1
    <3> QED
      BY <1>4, <2>1, <3>1, <3>2 DEF Over
  <2>2. CASE Calm
    BY <1>4, <2>2 DEF Calm
  <2>3. CASE \E kind, c : OrderedAsk(kind, c)
    <3>1. PICK kind, c : TypedAsk(kind, c)
      BY <2>3 DEF OrderedAsk
    <3>2. Send(kind, c) /\ kind \in Kinds /\ c \in Contents
          /\ seen' = [seen EXCEPT !.base = 0]
      BY <3>1 DEF TypedAsk
    <3>3. Len(down') = Len(down) /\ \A i \in 1 .. Len(down) : down'[i].at = down[i].at
      BY <3>2, SendView DEF TypeInv
    <3>4. seen'.base = 0
      BY <3>2 DEF TypeInv, SeenTyped
    <3>5. ASSUME NEW i \in 1 .. Len(down') PROVE down'[i].at <= now'
      <4>1. down'[i].at = down[i].at /\ down[i].at <= now /\ down[i] \in Replies
        BY <1>1, <3>3 DEF InThePast
      <4>2. down[i].at \in Nat
        BY <4>1, ReplyParts
      <4> QED
        BY <1>1, <4>1, <4>2
    <3> QED
      BY <1>1, <3>4, <3>5 DEF InThePast
  <2>4. CASE \E i \in DOMAIN down : Answered(i)
    <3>1. PICK i \in DOMAIN down : Receive(i) /\ Learn(down[i].says, down[i].at)
      BY <2>4 DEF Answered
    <3>2. seen'.base = IF asked = "HEARTBEAT" THEN down[i].at ELSE seen.base
      BY <3>1, LearnBase DEF TypeInv
    <3>3. down[i].at \in Nat /\ down[i].at <= now
      <4>1. i \in 1 .. Len(down) /\ down[i] \in Replies
        BY <1>1
      <4> QED
        BY <4>1, ReplyParts DEF InThePast
    <3> QED
      BY <1>2, <1>5, <3>1, <3>2, <3>3
  <2> QED
    BY <1>6, <2>1, <2>2, <2>3, <2>4, AdapterView
<1>7. CASE Handle /\ UNCHANGED adapter
  <2>1. seen' = seen
    BY <1>7 DEF adapter, operation
  <2>2. up # <<>>
    BY <1>7, HandleAnswers DEF TypeInv
  <2>3. PICK says \in Words, at \in Nat : at <= now /\ AnswerAt(says, at)
    BY <1>7, HandleAnswers DEF TypeInv
  <2>4. /\ Len(down') = Len(down) + 1 /\ \A i \in 1 .. Len(down) : down'[i] = down[i]
        /\ down'[Len(down) + 1].at = at
    BY <2>2, <2>3, AnswerView DEF TypeInv
  <2>5. ASSUME NEW i \in 1 .. Len(down') PROVE down'[i].at <= now'
    <3>1. i \in 1 .. Len(down) \/ i = Len(down) + 1
      BY <1>1, <2>4
    <3> QED
      BY <1>1, <1>7, <2>3, <2>4, <3>1 DEF InThePast
  <2> QED
    BY <1>1, <1>2, <1>7, <2>1, <2>5 DEF InThePast
<1>8. CASE Loss /\ UNCHANGED <<firmware, adapter>>
  <2>1. seen' = seen
    BY <1>8 DEF adapter, operation
  <2>2. CASE LoseAnswer
    <3>1. /\ 1 \in Nat /\ Len(down') = Len(down) - 1
          /\ \A i \in 1 .. Len(down') : down'[i] = down[i + 1]
      BY <1>1, <2>2, TailOfLink DEF LoseAnswer
    <3> QED
      BY <1>1, <1>2, <2>1, <3>1, FewerAnswers
  <2> QED
    BY <1>4, <1>8, <2>1, <2>2 DEF Loss, LoseRequest
<1>9. CASE UNCHANGED <<link, adapter>>
  BY <1>4, <1>9 DEF link, adapter, operation
<1> QED
  BY <1>6, <1>7, <1>8, <1>9, WhoMoves DEF vars

LEMMA NextFit ==
    ASSUME TypeInv, ScriptInv, ShapeInv, LinkInv, Reopens, OrderInv, AnswersFit, [Next]_vars
    PROVE  AnswersFit'
<1>1. CASE asked' = "NONE"
  BY <1>1 DEF AnswersFit, Judged
<1>2. CASE asked' = asked /\ down' = down
  BY <1>2 DEF AnswersFit
<1>3. CASE AdapterStep /\ UNCHANGED firmware
  <2>1. CASE \E kind, c : OrderedAsk(kind, c)
    <3>1. PICK kind, c : TypedAsk(kind, c)
      BY <2>1 DEF OrderedAsk
    <3>2. Send(kind, c) /\ kind \in Kinds /\ c \in Contents
      BY <3>1 DEF TypedAsk
    <3>3. Len(down') = Len(down) /\ \A i \in 1 .. Len(down) : ~down'[i].mine
      BY <3>2, SendView DEF TypeInv
    <3> QED
      BY <3>3 DEF AnswersFit
  <2>2. CASE Over \/ Calm \/ \E i \in DOMAIN down : Answered(i)
    BY <1>1, <2>2 DEF Over, Calm, Answered, Receive
  <2> QED
    BY <1>3, <2>1, <2>2, AdapterView
<1>4. CASE Handle
  <2>1. up # <<>> /\ asked' = asked
    BY <1>4, HandleEffect
  <2>2. ASSUME asked \in Judged, NEW i \in 1 .. Len(down'), down'[i].mine
        PROVE  down'[i].says \in Verdicts
    <3>a. PICK word : word = down'[i].says
      OBVIOUS
    <3>1. Says(word)' /\ Waiting
      BY <2>1, <2>2, <3>a DEF Says, Waiting, Judged
    <3>2. Head(up).kind = asked /\ \A says, at : AnswerAt(says, at) => says = word
      BY <1>4, <3>1, Answering
    <3>3. PICK says \in Verdicts : Answer(says)
      BY <1>4, <2>2, <3>2, HandleVerdict
    <3>4. word \in Verdicts
      BY <3>2, <3>3 DEF Answer
    <3> QED
      BY <3>a, <3>4
  <2> QED
    BY <2>1, <2>2 DEF AnswersFit
<1>5. CASE Loss
  <2>1. CASE LoseAnswer
    <3>1. /\ asked' = asked /\ Len(down) \in Nat \ {0} /\ Len(down') = Len(down) - 1
          /\ \A i \in 1 .. Len(down') : down'[i] = down[i + 1]
      BY <2>1, TailOfLink DEF LoseAnswer, TypeInv, LinkTyped
    <3>2. \A i \in 1 .. Len(down') : i + 1 \in 1 .. Len(down)
      BY <3>1
    <3> QED
      BY <3>1, <3>2 DEF AnswersFit
  <2> QED
    BY <1>2, <1>5, <2>1 DEF Loss, LoseRequest
<1>6. CASE UNCHANGED link
  BY <1>2, <1>6 DEF link
<1> QED
  BY <1>3, <1>4, <1>5, <1>6, WhoMoves DEF vars

\* What is said fits the session, at all times.
LEMMA SpecTalk == Spec => []TalkInv
<1>1. Init => TalkInv
  <2> SUFFICES ASSUME Init PROVE TalkInv
    OBVIOUS
  <2>1. now = 1 /\ up = <<>> /\ down = <<>> /\ asked = "NONE" /\ seen.base = 0
    BY DEF Init, FirmwareInit, NothingSeen
  <2>2. (\A i \in 1 .. Len(up) : FALSE) /\ \A i \in 1 .. Len(down) : FALSE
    BY <2>1
  <2>3. 0 <= now
    BY <2>1
  <2> QED
    BY <2>1, <2>2, <2>3 DEF TalkInv, Quiet, InThePast, AnswersFit, Judged
<1>2. ASSUME TypeInv, ScriptInv, ShapeInv, LinkInv, Reopens /\ OrderInv, TalkInv, [Next]_vars
      PROVE  TalkInv'
  BY <1>2, NextQuiet, NextInThePast, NextFit DEF TalkInv
<1> QED
  BY <1>1, <1>2, SpecTyped, SpecScripts, SpecShapes, SpecLink, SpecOrder, PTL DEF Spec

-----------------------------------------------------------------------------
(* The power of the arms.                                                    *)

\* Setpoints are accepted only by arms that are powered, while no stop is
\* latched.
EnabledIsOn == enabled => armsOn /\ ~latched

\* While no stop is latched, the arms of an armed session are powered once ARM
\* is behind it, and accept setpoints once ENABLE is.
Powered ==
    host \in {"READY", "ACTIVE"} /\ armed /\ ~latched =>
        /\ Lacks(todo, "ARM") => armsOn
        /\ Lacks(todo, "ENABLE") => enabled
        /\ asked = "ARM" /\ Says("OK") => armsOn
        /\ asked = "ENABLE" /\ Says("OK") => enabled

PowerInv == EnabledIsOn /\ Powered

\* Nothing new is said by fewer answers, or by those that are not waited for.
LEMMA NothingSaid ==
    ASSUME TypeInv, NEW word, Says(word)'
    PROVE  /\ LoseAnswer \/ down' = down => Says(word)
           /\ \A kind, c : ~TypedAsk(kind, c)
<1>1. PICK i \in 1 .. Len(down') : down'[i].mine /\ down'[i].says = word
  BY DEF Says
<1>2. ASSUME LoseAnswer
      PROVE  Says(word)
  <2>1. /\ Len(down) \in Nat \ {0} /\ Len(down') = Len(down) - 1
        /\ \A j \in 1 .. Len(down') : down'[j] = down[j + 1]
    BY <1>2, TailOfLink DEF LoseAnswer, TypeInv, LinkTyped
  <2>2. i + 1 \in 1 .. Len(down) /\ down'[i] = down[i + 1]
    BY <2>1
  <2> QED
    BY <1>1, <2>2 DEF Says
<1>3. down' = down => Says(word)
  BY <1>1 DEF Says
<1>4. ASSUME NEW kind, NEW c, TypedAsk(kind, c)
      PROVE  FALSE
  <2>1. Send(kind, c) /\ kind \in Kinds /\ c \in Contents
    BY <1>4 DEF TypedAsk
  <2>2. Len(down') = Len(down) /\ \A j \in 1 .. Len(down) : ~down'[j].mine
    BY <2>1, SendView DEF TypeInv
  <2> QED
    BY <1>1, <2>2
<1> QED
  BY <1>2, <1>3, <1>4

LEMMA NextEnabled ==
    ASSUME TypeInv, ArmsInv, EnabledIsOn, [Next]_vars
    PROVE  EnabledIsOn'
<1>1. CASE UNCHANGED <<armsOn, enabled, latched>>
  BY <1>1 DEF EnabledIsOn
<1>2. CASE ~enabled'
  BY <1>2 DEF EnabledIsOn
<1>3. CASE PrepareShadow
  <2>1. Sent("SHADOW")
    <3>1. up[1].kind = "SHADOW" /\ 1 \in 1 .. Len(up)
      <4>1. up \in Seq(Frames) /\ up # <<>>
        BY <1>3 DEF PrepareShadow, Handles, TypeInv, LinkTyped
      <4>2. Head(up) = up[1] /\ 1 \in 1 .. Len(up)
        BY <4>1, TailOfLink
      <4> QED
        BY <1>3, <4>2 DEF PrepareShadow, Handles
    <3> QED
      BY <3>1 DEF Sent
  <2>2. ~armsOn
    BY <2>1 DEF ArmsInv, ShadowIsAlone
  <2>3. enabled' = enabled
    BY <1>3 DEF PrepareShadow
  <2> QED
    BY <1>2, <2>2, <2>3 DEF EnabledIsOn
<1>4. CASE ArmRequest
  <2>1. armsOn' = TRUE \/ armsOn' = armsOn
    BY <1>4, Zenon DEF ArmRequest
  <2>2. enabled' = enabled /\ latched' = latched
    BY <1>4 DEF ArmRequest
  <2> QED
    BY <2>1, <2>2 DEF EnabledIsOn
<1>5. CASE Enable
  BY <1>5 DEF Enable, EnabledIsOn
<1>6. CASE Handle /\ ~PrepareShadow /\ ~ArmRequest /\ ~Enable
  BY <1>1, <1>2, <1>6 DEF Handle, Hello, Heartbeat, SafeStop, Stop, CoordinatedStop, ExecutorDiagnostics,
     TrackingDiagnostics, FeedbackSnapshot, StreamOpen, SetpointBatch, SpliceBatch, Admit,
     firmware, arms
<1>7. CASE Environment
  BY <1>1, <1>2, <1>7 DEF Environment, Clock, Watchdog, FirmwareStops, Control, StreamStarts,
     SampleApplied, Underflow, SettleEnds, Stop, CoordinatedStop, arms
<1>8. CASE UNCHANGED firmware
  BY <1>1, <1>8 DEF firmware, arms
<1> QED
  BY <1>3, <1>4, <1>5, <1>6, <1>7, <1>8, WhoMoves DEF vars

\* What a session that is not over asks for is what the firmware handles, but
\* for feedback.
LEMMA HandledIsAsked ==
    ASSUME TypeInv, LinkInv, Quiet, Alive, Handle
    PROVE  Head(up).kind = "FEEDBACK" \/ (Waiting /\ Head(up).mine /\ Head(up).kind = asked)
<1>1. up \in Seq(Frames) /\ up # <<>>
  BY HandleAnswers DEF TypeInv, LinkTyped
<1>2. Head(up) = up[1] /\ 1 \in 1 .. Len(up)
  BY <1>1, TailOfLink
<1> QED
  BY <1>2 DEF Quiet, LinkInv, NewestIsLast

\* An answer that was not a reason to give up.
LEMMA AnsweredIsOK ==
    ASSUME TypeInv, ScriptInv, AnswersFit, Alive, asked \in Judged,
           NEW i \in DOMAIN down, Answered(i)
    PROVE  down[i].says = "OK" /\ Says("OK")
<1>1. i \in 1 .. Len(down) /\ down[i].mine
  BY ReceiveView DEF Answered, TypeInv
<1>2. down[i].says \in Verdicts
  BY <1>1 DEF AnswersFit
<1>3. job # "fault" /\ ~JudgedLater /\ asked # "SAFE_STOP"
  BY DEF Alive, ScriptInv, HostJob, JudgedLater, Judged
<1>4. ~Unhealthy(down[i].says)
  BY <1>3 DEF Answered
<1>5. down[i].says = "OK"
  BY <1>2, <1>3, <1>4 DEF Unhealthy, Verdicts
<1> QED
  BY <1>1, <1>5 DEF Says

LEMMA HandlePowers ==
    ASSUME TypeInv, ScriptInv, ShapeInv, LinkInv, ArmsInv, TalkInv, PowerInv, Handle,
           UNCHANGED adapter
    PROVE  Powered'
<1> SUFFICES ASSUME host \in {"READY", "ACTIVE"}, armed, ~latched'
             PROVE  /\ Lacks(todo, "ARM") => armsOn'
                    /\ Lacks(todo, "ENABLE") => enabled'
                    /\ asked = "ARM" /\ Says("OK")' => armsOn'
                    /\ asked = "ENABLE" /\ Says("OK")' => enabled'
  <2>1. host' = host /\ armed' = armed /\ todo' = todo /\ asked' = asked
    BY HandleEffect DEF adapter, operation
  <2> QED
    BY <2>1 DEF Powered
<1>1. ~latched /\ up # <<>> /\ Alive
  BY HandleEffect DEF Alive
<1>2. Head(up).kind = "FEEDBACK" \/ (Waiting /\ Head(up).mine /\ Head(up).kind = asked)
  BY <1>1, HandledIsAsked DEF TalkInv
<1>3. armsOn => armsOn'
  <2> SUFFICES ASSUME armsOn PROVE armsOn'
    OBVIOUS
  <2>1. up \in Seq(Frames) /\ Head(up) = up[1] /\ 1 \in 1 .. Len(up)
    BY <1>1, TailOfLink DEF TypeInv, LinkTyped
  <2>2. Head(up).kind # "SHADOW"
    BY <2>1 DEF ArmsInv, ShadowIsAlone, Sent
  <2> QED
    BY <2>2 DEF Handle, Hello, Heartbeat, PrepareShadow, ArmRequest, Enable, SafeStop, Stop, CoordinatedStop,
       ExecutorDiagnostics, TrackingDiagnostics, FeedbackSnapshot, StreamOpen, SetpointBatch,
       SpliceBatch, Admit, firmware, arms, Handles
<1>4. Enable \/ enabled' = enabled
  BY DEF Handle, Hello, Heartbeat, PrepareShadow, ArmRequest, SafeStop, Stop, CoordinatedStop,
       ExecutorDiagnostics, TrackingDiagnostics, FeedbackSnapshot, StreamOpen, SetpointBatch,
       SpliceBatch, Admit, firmware, arms
<1>5. /\ Lacks(todo, "ARM") => armsOn
      /\ Lacks(todo, "ENABLE") => enabled
  BY <1>1 DEF PowerInv, Powered
<1>6. Waiting => /\ job # "none" /\ todo # <<>> /\ todo \in Seq(Steps)
                 /\ asked = "ENABLE" => Head(todo) = "ENABLE"
  BY DEF ScriptInv, Scripts, AskedIsNext
<1>7. ASSUME Enable
      PROVE  enabled' /\ ~Lacks(todo, "ENABLE")
  <2>1. Waiting /\ asked = "ENABLE" /\ Head(todo) = "ENABLE"
    BY <1>2, <1>6, <1>7 DEF Enable, Handles
  <2>2. ~Lacks(todo, "ENABLE")
    BY <1>6, <2>1, TailLacks
  <2>3. job = "start"
    BY <1>6, <2>1, WhoseStep
  <2>4. todo = <<"ENABLE", "HEARTBEAT", "OPEN", "APPEND">>
    <3>1. todo \in StartScripts
      BY <2>3 DEF ShapeInv, Shapes
    <3> QED
      BY <1>6, <2>1, <3>1 DEF StartScripts, Arming, Preparing, Claiming, Opening, Powering,
         Enabling
  <2>5. Lacks(todo, "ARM")
    BY <2>4 DEF Lacks
  <2> QED
    BY <1>1, <1>5, <1>7, <2>2, <2>5 DEF Enable
<1>8. ASSUME asked = "ARM", Says("OK")'
      PROVE  armsOn'
  <2>1. Head(up).kind = "ARM" /\ \A says, at : AnswerAt(says, at) => says = "OK"
    BY <1>8, Answering DEF Waiting
  <2>2. ArmRequest
    BY <2>1 DEF Handle, Hello, Heartbeat, PrepareShadow, Enable, SafeStop,
       ExecutorDiagnostics, TrackingDiagnostics, FeedbackSnapshot, StreamOpen, SetpointBatch,
       SpliceBatch, Handles
  <2>3. ~Answer("REFUSED")
    BY <2>1 DEF Answer
  <2> QED
    BY <2>2, <2>3 DEF ArmRequest
<1>9. ASSUME asked = "ENABLE", Says("OK")'
      PROVE  enabled'
  <2>1. Head(up).kind = "ENABLE"
    BY <1>9, Answering DEF Waiting
  <2>2. Enable
    BY <2>1 DEF Handle, Hello, Heartbeat, PrepareShadow, ArmRequest, SafeStop,
       ExecutorDiagnostics, TrackingDiagnostics, FeedbackSnapshot, StreamOpen, SetpointBatch,
       SpliceBatch, Handles
  <2> QED
    BY <1>7, <2>2
<1> QED
  BY <1>3, <1>4, <1>5, <1>7, <1>8, <1>9

LEMMA NextPowered ==
    ASSUME TypeInv, ScriptInv, ShapeInv, LinkInv, ArmsInv, Reopens, OrderInv, TalkInv,
           PowerInv, [Next]_vars
    PROVE  Powered'
<1>1. CASE AdapterStep /\ UNCHANGED firmware
  <2>1. armsOn' = armsOn /\ enabled' = enabled /\ latched' = latched
    BY <1>1 DEF firmware, arms
  <2>2. CASE Over
    BY <2>2 DEF Over, Powered
  <2>3. CASE Calm /\ KeepsPower
    <3>1. asked' = "NONE"
      BY <2>3 DEF Calm
    <3> QED
      BY <2>1, <2>3, <3>1 DEF KeepsPower, PowerInv, Powered
  <2>4. CASE \E kind, c : OrderedAsk(kind, c)
    <3>1. PICK kind, c : TypedAsk(kind, c)
      BY <2>4 DEF OrderedAsk
    <3>2. ~Says("OK")'
      BY <3>1, NothingSaid
    <3>3. host' = host /\ armed' = armed /\ todo' = todo
      BY <3>1 DEF TypedAsk
    <3> QED
      BY <2>1, <3>2, <3>3 DEF PowerInv, Powered
  <2>5. CASE \E i \in DOMAIN down : Answered(i)
    <3>1. PICK i \in DOMAIN down : Answered(i)
      BY <2>5
    <3>2. /\ host' = host /\ armed' = armed /\ asked' = "NONE" /\ Waiting
          /\ todo' = Rest(down[i].says)
      BY <3>1 DEF Answered, Receive
    <3>3. /\ Head(todo) = asked \/ (Head(todo) = "PUMP" /\ asked = "APPEND")
          /\ \A k : Lacks(todo', k) => Head(todo) = k \/ Lacks(todo, k)
      BY <3>2, RestOfScript
    <3>4. Alive /\ asked \in {"ARM", "ENABLE"} => Says("OK")
      BY <3>1, AnsweredIsOK DEF TalkInv, Judged
    <3>5. host \in {"READY", "ACTIVE"} => Alive
      BY DEF Alive
    <3> QED
      BY <2>1, <3>2, <3>3, <3>4, <3>5 DEF PowerInv, Powered
  <2> QED
    BY <1>1, <2>2, <2>3, <2>4, <2>5, AdapterView
<1>2. CASE Handle /\ UNCHANGED adapter
  BY <1>2, HandlePowers
<1>3. ASSUME UNCHANGED adapter, asked' = asked, Says("OK")' => Says("OK"),
             latched' \/ (armsOn' = armsOn /\ enabled' = enabled /\ latched' = latched)
      PROVE  Powered'
  <2>1. host' = host /\ armed' = armed /\ todo' = todo
    BY <1>3 DEF adapter, operation
  <2> QED
    BY <1>3, <2>1 DEF PowerInv, Powered
<1>4. CASE Environment /\ UNCHANGED <<link, adapter>>
  <2>1. latched' \/ (armsOn' = armsOn /\ enabled' = enabled /\ latched' = latched)
    BY <1>4 DEF Environment, Clock, Watchdog, FirmwareStops, Control, StreamStarts,
     SampleApplied, Underflow, SettleEnds, Stop, CoordinatedStop, arms
  <2>2. asked' = asked /\ down' = down
    BY <1>4 DEF link
  <2> QED
    BY <1>3, <1>4, <2>1, <2>2, NothingSaid
<1>5. CASE Loss /\ UNCHANGED <<firmware, adapter>>
  <2>1. asked' = asked /\ (LoseAnswer \/ down' = down)
    BY <1>5 DEF Loss, LoseRequest, LoseAnswer
  <2>2. armsOn' = armsOn /\ enabled' = enabled /\ latched' = latched
    BY <1>5 DEF firmware, arms
  <2> QED
    BY <1>3, <1>5, <2>1, <2>2, NothingSaid
<1>6. CASE UNCHANGED vars
  <2>1. asked' = asked /\ down' = down
    BY <1>6 DEF vars, link
  <2>2. armsOn' = armsOn /\ enabled' = enabled /\ latched' = latched
    BY <1>6 DEF vars, firmware, arms
  <2>3. UNCHANGED adapter
    BY <1>6 DEF vars
  <2> QED
    BY <1>3, <2>1, <2>2, <2>3, NothingSaid
<1> QED
  BY <1>1, <1>2, <1>4, <1>5, <1>6, WhoMoves

LEMMA SpecPower == Spec => []PowerInv
<1>1. Init => PowerInv
  BY DEF Init, FirmwareInit, PowerInv, EnabledIsOn, Powered
<1>2. ASSUME TypeInv, ScriptInv, ShapeInv, LinkInv, ArmsInv, Reopens /\ OrderInv, TalkInv,
             PowerInv, [Next]_vars
      PROVE  PowerInv'
  BY <1>2, NextEnabled, NextPowered DEF PowerInv
<1> QED
  BY <1>1, <1>2, SpecTyped, SpecScripts, SpecShapes, SpecLink, SpecArms, SpecOrder, SpecTalk,
     PTL DEF Spec

-----------------------------------------------------------------------------
(* What a batch makes of two queues that have the same samples ahead.        *)

\* A queue and a route that agree at tick t on what is ahead, on where it ends,
\* and on the horizon.
Mirror(q, t, l, r, h) ==
    /\ After(q, t) = After(r, t)
    /\ q # <<>> => r # <<>> /\ LastTick(q) = LastTick(r)
    /\ l = h

\* Samples in order are all ahead when the first one is.
LEMMA AllAhead ==
    ASSUME NEW b \in Seq(SampleSet), Sorted(b), b # <<>>, NEW t \in Nat, t < FirstTick(b)
    PROVE  \A i \in 1 .. Len(b) : b[i].tick > t
<1> SUFFICES ASSUME NEW i \in 1 .. Len(b) PROVE b[i].tick > t
  OBVIOUS
<1>1. /\ 1 \in 1 .. Len(b) /\ i \in Nat /\ b[1] \in SampleSet /\ b[i] \in SampleSet
  OBVIOUS
<1>2. b[1].tick \in Nat /\ b[i].tick \in Nat /\ b[1].tick > t
  BY <1>1, SamplesAreTicked DEF Ticked, FirstTick
<1>3. 1 < i => b[1].tick < b[i].tick
  BY <1>1 DEF Sorted
<1>4. i = 1 \/ 1 < i
  OBVIOUS
<1> QED
  BY <1>2, <1>3, <1>4

\* The ticks at the ends of samples.
LEMMA EndTicks ==
    ASSUME NEW s \in Seq(SampleSet), s # <<>>
    PROVE  /\ FirstTick(s) \in Nat /\ LastTick(s) \in Nat /\ Len(s) \in 1 .. Len(s)
           /\ LastTick(s) = s[Len(s)].tick
<1>1. Len(s) \in 1 .. Len(s)
  OBVIOUS
<1> QED
  BY <1>1, SamplesAreTicked DEF LastTick

\* The same samples behind what two queues have ahead.
LEMMA AppendMirrors ==
    ASSUME NEW q \in Seq(SampleSet), NEW r \in Seq(SampleSet), NEW b \in Seq(SampleSet),
           Sorted(q), Sorted(r), Sorted(b), b # <<>>,
           NEW t \in Nat, NEW base \in 0 .. t,
           After(q, t) = After(r, t),
           q # <<>> => r # <<>> /\ LastTick(q) = LastTick(r),
           t < FirstTick(b), q # <<>> => FirstTick(b) > LastTick(q)
    PROVE  LET n == After(r, base) \o b IN
           /\ Sorted(n) /\ n # <<>>
           /\ After(q \o b, t) = After(n, t) /\ LastTick(q \o b) = LastTick(n)
<1> DEFINE f == After(r, base)
<1>1. Ticked(SampleSet) /\ base \in Int /\ t \in Int /\ base <= t
  BY SamplesAreTicked
<1>2. /\ f \in Seq(SampleSet) /\ Sorted(f)
      /\ f # <<>> => r # <<>> /\ LastTick(f) = LastTick(r)
  BY <1>1, AfterType, AfterOrder
<1>3. After(f, t) = After(r, t)
  BY <1>1, AfterAfter
<1>4. \A i \in 1 .. Len(b) : b[i].tick > t
  BY AllAhead
<1>5. FirstTick(b) \in Nat
  BY EndTicks
<1>6. r # <<>> => LastTick(r) < FirstTick(b)
  <2> SUFFICES ASSUME r # <<>> PROVE LastTick(r) < FirstTick(b)
    OBVIOUS
  <2>1. LastTick(r) \in Nat /\ Len(r) \in 1 .. Len(r) /\ LastTick(r) = r[Len(r)].tick
    BY EndTicks
  <2>2. CASE q = <<>>
    <3>1. After(r, t) = <<>>
      BY <1>1, <2>2, NothingAhead
    <3>2. \A i \in 1 .. Len(r) : r[i].tick <= t
      BY <1>1, <3>1, AfterOrder
    <3>3. LastTick(r) <= t
      BY <2>1, <3>2
    <3> QED
      BY <1>5, <2>1, <3>3
  <2>3. CASE q # <<>>
    <3>1. LastTick(q) \in Nat /\ LastTick(q) = LastTick(r) /\ FirstTick(b) > LastTick(q)
      BY <2>3, EndTicks
    <3> QED
      BY <1>5, <2>1, <3>1
  <2> QED
    BY <2>2, <2>3
<1>7. q # <<>> => LastTick(q) < FirstTick(b)
  <2>1. q # <<>> => LastTick(q) \in Nat
    BY EndTicks
  <2> QED
    BY <1>5, <2>1
<1>8. After(q \o b, t) = After(q, t) \o b
  BY <1>1, <1>4, AfterJoin
<1>9. LastTick(q \o b) = LastTick(b)
  BY <1>1, <1>7, JoinOrder
<1>10. After(f \o b, t) = After(f, t) \o b
  BY <1>1, <1>2, <1>4, AfterJoin
<1>11. Sorted(f \o b) /\ f \o b # <<>> /\ LastTick(f \o b) = LastTick(b)
  <2>1. f # <<>> => LastTick(f) < FirstTick(b)
    BY <1>2, <1>6
  <2> QED
    BY <1>1, <1>2, <2>1, JoinOrder
<1> QED
  BY <1>3, <1>8, <1>9, <1>10, <1>11

\* The same samples in the place of what two queues have from a tick on.
LEMMA SpliceMirrors ==
    ASSUME NEW q \in Seq(SampleSet), NEW r \in Seq(SampleSet), NEW b \in Seq(SampleSet),
           Sorted(q), Sorted(r), Sorted(b), b # <<>>,
           NEW t \in Nat, NEW base \in 0 .. t,
           After(q, t) = After(r, t), t < FirstTick(b)
    PROVE  LET m == Before(q, FirstTick(b)) \o b
               n == Before(After(r, base), FirstTick(b)) \o b
           IN
           /\ Sorted(n) /\ n # <<>>
           /\ After(m, t) = After(n, t) /\ LastTick(m) = LastTick(n)
<1> DEFINE u == FirstTick(b)
           f == After(r, base)
<1>1. Ticked(SampleSet) /\ base \in Int /\ t \in Int /\ base <= t
  BY SamplesAreTicked
<1>2. u \in Nat /\ u \in Int /\ t < u
  BY EndTicks
<1>3. f \in Seq(SampleSet) /\ Sorted(f)
  BY <1>1, AfterType, AfterOrder
<1>4. After(f, t) = After(r, t)
  BY <1>1, AfterAfter
<1>5. \A i \in 1 .. Len(b) : b[i].tick > t
  BY AllAhead
<1> HIDE DEF u, f
<1>6. ASSUME NEW s \in Seq(SampleSet), Sorted(s)
      PROVE  /\ After(Before(s, u) \o b, t) = Before(After(s, t), u) \o b
             /\ Sorted(Before(s, u) \o b) /\ Before(s, u) \o b # <<>>
             /\ LastTick(Before(s, u) \o b) = LastTick(b)
  <2> DEFINE p == Before(s, u)
  <2>1. /\ p \in Seq(SampleSet) /\ Sorted(p)
        /\ \A i \in 1 .. Len(p) : p[i].tick < u
    BY <1>1, <1>2, <1>6, BeforeType, BeforeOrder
  <2>2. After(p, t) = Before(After(s, t), u)
    BY <1>1, <1>2, <1>6, AfterBefore
  <2> HIDE DEF p
  <2>3. p # <<>> => LastTick(p) < FirstTick(b)
    <3>1. p # <<>> => Len(p) \in 1 .. Len(p) /\ LastTick(p) = p[Len(p)].tick
      BY <2>1, EndTicks
    <3> QED
      BY <2>1, <3>1 DEF u
  <2>4. After(p \o b, t) = After(p, t) \o b
    BY <1>1, <1>5, <2>1, AfterJoin
  <2>5. Sorted(p \o b) /\ p \o b # <<>> /\ LastTick(p \o b) = LastTick(b)
    BY <1>1, <2>1, <2>3, JoinOrder
  <2> QED
    BY <2>2, <2>4, <2>5 DEF p
<1>7. /\ After(Before(q, u) \o b, t) = Before(After(q, t), u) \o b
      /\ LastTick(Before(q, u) \o b) = LastTick(b)
  BY <1>6
<1>8. /\ After(Before(f, u) \o b, t) = Before(After(f, t), u) \o b
      /\ Sorted(Before(f, u) \o b) /\ Before(f, u) \o b # <<>>
      /\ LastTick(Before(f, u) \o b) = LastTick(b)
  BY <1>3, <1>6
<1> QED
  BY <1>4, <1>7, <1>8 DEF u, f

-----------------------------------------------------------------------------
(* How the stream goes on.                                                   *)

\* No batch is admitted and no stream opened: a stop is latched, the stream
\* starts, or a sample is applied.
GoesOn ==
    /\ tracking' => tracking
    /\ \/ latched' /\ exec' \in {exec, "ENDED"}
       \/ /\ latched' = latched /\ limit' = limit /\ streamEpoch' = streamEpoch
          /\ \/ queue' = queue /\ (exec' = exec \/ (starting /\ exec' = "RUNNING"))
             \/ /\ now' = now /\ exec = "RUNNING" /\ ~latched
                /\ queue # <<>> /\ FirstTick(queue) <= now /\ queue' = Tail(queue)
                /\ exec' = IF limit # 0 /\ FirstTick(queue) = limit /\ Tail(queue) = <<>>
                           THEN "SUCCEEDED" ELSE exec

LEMMA HandleGoesOn ==
    ASSUME Handle, Head(up).kind \notin {"OPEN", "APPEND", "SPLICE"} \/ UNCHANGED firmware
    PROVE  GoesOn
<1>1. CASE UNCHANGED <<stream, latched>>
  BY <1>1 DEF GoesOn, stream
<1>2. CASE PrepareShadow
  <2>1. stream' = stream /\ (latched' = latched \/ latched')
    BY <1>2 DEF PrepareShadow
  <2> QED
    BY <2>1 DEF GoesOn, stream
<1>3. CASE SafeStop
  BY <1>3 DEF SafeStop, Stop, CoordinatedStop, GoesOn
<1>4. CASE UNCHANGED firmware
  BY <1>1, <1>4 DEF firmware, arms
<1>5. CASE Head(up).kind \notin {"OPEN", "APPEND", "SPLICE"}
  <2>1. ~StreamOpen /\ ~SetpointBatch /\ ~SpliceBatch
    BY <1>5 DEF StreamOpen, SetpointBatch, SpliceBatch, Handles
  <2> QED
    BY <1>1, <1>2, <1>3, <2>1 DEF Handle, Hello, Heartbeat, ArmRequest, Enable,
       ExecutorDiagnostics, TrackingDiagnostics, FeedbackSnapshot, firmware, arms
<1> QED
  BY <1>4, <1>5

LEMMA EnvironmentGoesOn ==
    ASSUME Environment
    PROVE  GoesOn
<1>1. CASE Clock
  BY <1>1 DEF Clock, GoesOn, stream, arms
<1>2. CASE Watchdog \/ FirmwareStops \/ Underflow
  BY <1>2 DEF Watchdog, FirmwareStops, Underflow, Stop, CoordinatedStop, GoesOn
<1>3. CASE StreamStarts
  BY <1>3 DEF StreamStarts, Stop, CoordinatedStop, GoesOn, arms
<1>4. CASE SampleApplied
  BY <1>4 DEF SampleApplied, Running, GoesOn, arms
<1>5. CASE SettleEnds
  BY <1>5 DEF SettleEnds, GoesOn, arms
<1> QED
  BY <1>1, <1>2, <1>3, <1>4, <1>5 DEF Environment, Control

\* What the firmware and the adapter agree on stays so while the stream goes
\* on.
LEMMA MirrorGoesOn ==
    ASSUME TypeInv, Sorted(queue), GoesOn, ~latched', now' \in Nat, now <= now',
           NEW r \in Seq(SampleSet), Sorted(r), NEW h, Mirror(queue, now, limit, r, h)
    PROVE  /\ Mirror(queue', now', limit', r, h)
           /\ exec' = "SUCCEEDED" /\ exec # "SUCCEEDED" => LastTick(r) = h
           /\ latched' = latched /\ streamEpoch' = streamEpoch
<1>1. /\ queue \in Seq(SampleSet) /\ Ticked(SampleSet) /\ now \in Int /\ now' \in Int
      /\ now <= now'
  BY SamplesAreTicked DEF TypeInv, FirmwareTyped
<1>2. CASE queue' = queue /\ (exec' = exec \/ exec' = "RUNNING")
  <2>1. After(queue, now') = After(After(queue, now), now')
    BY <1>1, AfterAfter
  <2>2. After(r, now') = After(After(r, now), now')
    BY <1>1, AfterAfter
  <2>3. After(queue, now') = After(r, now')
    BY <2>1, <2>2 DEF Mirror
  <2> QED
    BY <1>2, <2>3 DEF Mirror, GoesOn
<1>3. CASE /\ now' = now /\ queue # <<>> /\ FirstTick(queue) <= now /\ queue' = Tail(queue)
           /\ exec' = IF limit # 0 /\ FirstTick(queue) = limit /\ Tail(queue) = <<>>
                      THEN "SUCCEEDED" ELSE exec
  <2>1. After(Tail(queue), now) = After(queue, now)
    BY <1>1, <1>3, AfterTail
  <2>2. /\ Len(Tail(queue)) = Len(queue) - 1 /\ Len(queue) \in Nat \ {0}
        /\ Tail(queue) \in Seq(SampleSet)
        /\ \A i \in 1 .. Len(Tail(queue)) : Tail(queue)[i] = queue[i + 1]
    BY <1>1, <1>3, TailOfLink
  <2>3. Tail(queue) # <<>> => LastTick(Tail(queue)) = LastTick(queue)
    <3> DEFINE s == Tail(queue)
    <3> HIDE DEF s
    <3>1. s # <<>> => Len(s) \in 1 .. Len(s) /\ LastTick(s) = s[Len(s)].tick
      BY <2>2, EndTicks DEF s
    <3>2. s # <<>> => s[Len(s)] = queue[Len(s) + 1] /\ Len(s) + 1 = Len(queue)
      BY <2>2, <3>1 DEF s
    <3> QED
      BY <3>1, <3>2 DEF LastTick, s
  <2>4. Tail(queue) = <<>> => LastTick(queue) = FirstTick(queue)
    <3>1. Tail(queue) = <<>> => Len(queue) = 1
      <4> DEFINE s == Tail(queue)
      <4>1. Len(s) = Len(queue) - 1 /\ Len(queue) \in Nat
        BY <2>2
      <4> HIDE DEF s
      <4>2. s = <<>> => Len(queue) = 1
        BY <4>1
      <4> QED
        BY <4>2 DEF s
    <3> QED
      BY <3>1 DEF LastTick, FirstTick
  <2>5. Mirror(queue', now', limit', r, h)
    <3>1. limit' = limit
      BY DEF GoesOn
    <3>2. After(queue', now') = After(r, now')
      BY <1>3, <2>1 DEF Mirror
    <3>3. queue' # <<>> => r # <<>> /\ LastTick(queue') = LastTick(r)
      BY <1>3, <2>3 DEF Mirror
    <3> QED
      BY <3>1, <3>2, <3>3 DEF Mirror
  <2>6. exec' = "SUCCEEDED" /\ exec # "SUCCEEDED" => LastTick(r) = h
    BY <1>3, <2>4 DEF Mirror
  <2> QED
    BY <2>5, <2>6 DEF GoesOn
<1> QED
  BY <1>2, <1>3 DEF GoesOn

-----------------------------------------------------------------------------
(* The route and the queue.                                                  *)

\* The route r and the horizon h are what the firmware has, unless a stop is
\* latched; a stream that succeeded came to its end.
Holds(r, h) ==
    /\ r # <<>> /\ Sorted(r)
    /\ ~latched => Mirror(queue, now, limit, r, h) /\ streamEpoch = epoch
    /\ exec = "SUCCEEDED" => LastTick(r) = h

\* They will be after a step.
HoldsNext(r, h) ==
    /\ r # <<>> /\ Sorted(r)
    /\ ~latched' => Mirror(queue', now', limit', r, h) /\ streamEpoch' = epoch'
    /\ exec' = "SUCCEEDED" => LastTick(r) = h

\* A stream was opened, and has nothing to do yet.
Fresh == ~latched => queue = <<>> /\ limit = draft.horizon

\* Until the answer of OPEN the firmware may not have the horizon; then it has,
\* until the first batch comes.
OpenInv ==
    /\ ~Planned => route = <<>>
    /\ job = "start" /\ todo = <<"APPEND">> /\ asked = "NONE" => Fresh
    /\ asked = "OPEN" /\ Says("OK") => Fresh
    /\ asked = "OPEN" =>
          \A i \in 1 .. Len(up) : up[i].mine => up[i].content.horizon = draft.horizon

\* A batch is on its way.
InQuestion == asked \in {"APPEND", "SPLICE"}

\* The draft is what the batch will make of the route, in the firmware.
BatchHolds(b) ==
    /\ b.epoch = epoch /\ Sorted(route)
    /\ \E base \in 0 .. now : draft.route = Continued(asked, route, b.samples, base)
    /\ ~latched => Mirror(queue, now, limit, route, draft.horizon)

\* The adapter's copy of the queue is right, but for a batch on its way: that
\* continues the copy, and once it is accepted the draft is right.
StreamInv ==
    /\ Planned /\ ~InQuestion => Holds(route, horizon)
    /\ InQuestion /\ Says("OK") => Holds(draft.route, draft.horizon)
    /\ InQuestion =>
          \A i \in 1 .. Len(up) : up[i].mine => BatchHolds(up[i].content)

QueueInv == OpenInv /\ StreamInv

LEMMA HoldsGoesOn ==
    ASSUME TypeInv, Sorted(queue), GoesOn, now' \in Nat, now <= now', epoch' = epoch,
           NEW r \in Seq(SampleSet), NEW h, Holds(r, h)
    PROVE  HoldsNext(r, h)
<1>1. r # <<>> /\ Sorted(r)
  BY DEF Holds
<1>2. CASE latched'
  <2>1. exec' = "SUCCEEDED" => exec = "SUCCEEDED"
    BY <1>2 DEF GoesOn
  <2> QED
    BY <1>1, <1>2, <2>1 DEF Holds, HoldsNext
<1>3. CASE ~latched'
  <2>1. latched' = latched /\ ~latched
    BY <1>3 DEF GoesOn
  <2>2. Mirror(queue, now, limit, r, h) /\ streamEpoch = epoch
    BY <2>1 DEF Holds
  <2>3. /\ Mirror(queue', now', limit', r, h) /\ streamEpoch' = streamEpoch
        /\ exec' = "SUCCEEDED" /\ exec # "SUCCEEDED" => LastTick(r) = h
    BY <1>1, <1>3, <2>2, MirrorGoesOn
  <2> QED
    BY <1>1, <2>2, <2>3 DEF Holds, HoldsNext
<1> QED
  BY <1>2, <1>3

\* A stream that has nothing to do yet goes on so.
LEMMA FreshGoesOn ==
    ASSUME GoesOn, Fresh, draft' = draft
    PROVE  Fresh'
  BY DEF GoesOn, Fresh

\* A batch on its way stays what it is.
BatchHoldsNext(b) ==
    /\ b.epoch = epoch' /\ Sorted(route')
    /\ \E base \in 0 .. now' : draft'.route = Continued(asked', route', b.samples, base)
    /\ ~latched' => Mirror(queue', now', limit', route', draft'.horizon)

LEMMA BatchGoesOn ==
    ASSUME TypeInv, Sorted(queue), GoesOn, now' \in Nat, now <= now', asked' = asked,
           UNCHANGED adapter, NEW b, BatchHolds(b)
    PROVE  BatchHoldsNext(b)
<1>1. epoch' = epoch /\ route' = route /\ draft' = draft
  BY DEF adapter, plan, operation
<1>2. b.epoch = epoch' /\ Sorted(route')
  BY <1>1 DEF BatchHolds
<1>3. \E base \in 0 .. now' : draft'.route = Continued(asked', route', b.samples, base)
  <2>1. PICK base \in 0 .. now : draft.route = Continued(asked, route, b.samples, base)
    BY DEF BatchHolds
  <2>2. base \in 0 .. now'
    BY DEF TypeInv, FirmwareTyped
  <2> QED
    BY <1>1, <2>1, <2>2
<1>4. ASSUME ~latched'
      PROVE  Mirror(queue', now', limit', route', draft'.horizon)
  <2>1. latched' = latched /\ ~latched
    BY <1>4 DEF GoesOn
  <2>2. route \in Seq(SampleSet) /\ Sorted(route)
        /\ Mirror(queue, now, limit, route, draft.horizon)
    BY <2>1, SamplesAreTicked DEF BatchHolds, TypeInv, PlanTyped
  <2>3. Mirror(queue', now', limit', route, draft.horizon)
    BY <1>4, <2>2, MirrorGoesOn
  <2> QED
    BY <1>1, <2>3
<1> QED
  BY <1>2, <1>3, <1>4 DEF BatchHoldsNext

\* A batch that is admitted makes the queue what the draft says.
LEMMA AdmitHolds ==
    ASSUME TypeInv, Sorted(queue), EnabledIsOn, UNCHANGED epoch, armsOn, enabled,
           NEW b \in Contents, b.samples # <<>>, Sorted(b.samples), BatchHolds(b), NEW q,
           \/ asked = "APPEND" /\ AppendAdmitted(b) /\ q = queue \o b.samples
           \/ asked = "SPLICE" /\ SpliceAdmitted(b)
              /\ q = Before(queue, FirstTick(b.samples)) \o b.samples,
           Admit(b, q)
    PROVE  HoldsNext(draft.route, draft.horizon)
<1>1. /\ queue \in Seq(SampleSet) /\ route \in Seq(SampleSet) /\ b.samples \in Seq(SampleSet)
      /\ Sorted(route) /\ now \in Nat
  BY ContentParts, SamplesAreTicked DEF TypeInv, FirmwareTyped, PlanTyped, BatchHolds
<1>2. ~latched /\ Mirror(queue, now, limit, route, draft.horizon) /\ b.epoch = epoch
  BY DEF EnabledIsOn, BatchHolds
<1>3. PICK base \in 0 .. now : draft.route = Continued(asked, route, b.samples, base)
  BY DEF BatchHolds
<1>4. FirstTick(b.samples) \in Nat /\ now < FirstTick(b.samples)
  <2>1. FirstTick(b.samples) \in Nat
    BY <1>1, EndTicks
  <2>2. FirstTick(b.samples) >= now + MinLead
    BY DEF AppendAdmitted, SpliceAdmitted
  <2> QED
    BY <1>1, <2>1, <2>2, FirmwareAssumption
<1>5. /\ queue' = q /\ now' = now /\ limit' = limit /\ streamEpoch' = b.epoch
      /\ exec' = exec /\ latched' = latched
  BY DEF Admit, arms
<1>6. exec' # "SUCCEEDED"
  BY <1>5 DEF AppendAdmitted, SpliceAdmitted, Window
<1>7. /\ draft.route # <<>> /\ Sorted(draft.route)
      /\ After(q, now) = After(draft.route, now) /\ LastTick(q) = LastTick(draft.route)
  <2>1. CASE asked = "APPEND"
    <3>1. q = queue \o b.samples /\ draft.route = After(route, base) \o b.samples
      BY <1>3, <2>1 DEF Continued
    <3>2. queue # <<>> => FirstTick(b.samples) > LastTick(queue)
      BY <2>1 DEF AppendAdmitted
    <3> QED
      BY <1>1, <1>2, <1>4, <3>1, <3>2, AppendMirrors DEF Mirror
  <2>2. CASE asked = "SPLICE"
    <3>1. /\ q = Before(queue, FirstTick(b.samples)) \o b.samples
          /\ draft.route = Before(After(route, base), FirstTick(b.samples)) \o b.samples
      BY <1>3, <2>2 DEF Continued
    <3> QED
      BY <1>1, <1>2, <1>4, <3>1, SpliceMirrors DEF Mirror
  <2> QED
    BY <2>1, <2>2
<1>8. Mirror(queue', now', limit', draft.route, draft.horizon)
  BY <1>2, <1>5, <1>7 DEF Mirror
<1> QED
  BY <1>2, <1>5, <1>6, <1>7, <1>8 DEF HoldsNext

-----------------------------------------------------------------------------
(* OpenInv.                                                                  *)

\* Steps of the adapter.
LEMMA AdapterOpens ==
    ASSUME TypeInv, ScriptInv, ShapeInv, Reopens, OrderInv, TalkInv, OpenInv,
           AdapterStep, UNCHANGED firmware
    PROVE  OpenInv'
<1>1. CASE Over
  <2>1. ~Planned' /\ route' = <<>>
    BY <1>1 DEF Over, NoPlan, plan, Planned, OpenInv
  <2> QED
    BY <1>1, <2>1 DEF Over, OpenInv
<1>2. CASE Calm
  <2>1. ~Planned' => route' = <<>>
    BY <1>2 DEF Calm, NoPlan, plan, OpenInv
  <2> QED
    BY <1>2, <2>1 DEF Calm, OpenInv
<1>3. CASE \E kind, c : OrderedAsk(kind, c)
  <2>1. PICK kind, c : OrderedAsk(kind, c)
    BY <1>3
  <2>2. TypedAsk(kind, c) /\ kind \in Kinds /\ c \in Contents /\ Send(kind, c)
    BY <2>1 DEF OrderedAsk, TypedAsk
  <2>3. ~Says("OK")'
    BY <2>2, NothingSaid
  <2>4. ~Planned' => route' = <<>>
    BY <2>2 DEF TypedAsk, OpenInv, Planned
  <2>5. asked' # "NONE"
    BY <2>2 DEF Send, Kinds, PlainKinds, StatusKinds
  <2>6. ASSUME asked' = "OPEN", NEW i \in 1 .. Len(up'), up'[i].mine
        PROVE  up'[i].content.horizon = draft'.horizon
    <3>1. kind = "OPEN" /\ draft'.horizon = c.horizon
      BY <2>1, <2>2, <2>6 DEF Send, OrderedAsk
    <3>2. /\ Len(up) \in Nat /\ Len(up') = Len(up) + 1
          /\ \A j \in 1 .. Len(up) : ~up'[j].mine
          /\ up'[Len(up) + 1].content = c
      BY <2>2, SendView DEF TypeInv
    <3>3. i = Len(up) + 1
      BY <2>6, <3>2
    <3> QED
      BY <3>1, <3>2, <3>3
  <2> QED
    BY <2>3, <2>4, <2>5, <2>6 DEF OpenInv
<1>4. CASE \E i \in DOMAIN down : Answered(i)
  <2>1. PICK i \in DOMAIN down : Answered(i)
    BY <1>4
  <2>2. /\ host' = host /\ job' = job /\ asked' = "NONE" /\ Waiting
        /\ todo' = Rest(down[i].says) /\ Adopt
    BY <2>1 DEF Answered, Receive
  <2>3. /\ job # "none" /\ todo # <<>>
        /\ Head(todo) = asked \/ (Head(todo) = "PUMP" /\ asked = "APPEND")
        /\ \/ Rest(down[i].says) = Tail(todo)
           \/ asked = "EXECUTOR" /\ job = "poll"
    BY <2>2, RestOfScript
  <2>4. ASSUME ~Planned'
        PROVE  route' = <<>>
    <3>1. CASE asked \in {"APPEND", "SPLICE"}
      <4>1. job = "start" => todo' = <<>>
        <5>1. job = "start" => Head(todo) = "APPEND"
          BY <2>3, <3>1, WhoseStep
        <5>2. job = "start" => todo' = Tail(todo) /\ todo \in StartScripts
          BY <2>2, <2>3 DEF ShapeInv, Shapes
        <5> QED
          BY <2>3, <5>1, <5>2, StartGoesOn
      <4>2. job # "start" => host = "ACTIVE"
        <5>1. job # "start" => job \in {"append", "splice", "poll"}
          BY <2>3, <3>1, WhoseStep
        <5> QED
          BY <5>1 DEF ScriptInv, HostJob
      <4> QED
        BY <2>2, <2>4, <4>1, <4>2 DEF Planned
    <3>2. CASE asked \notin {"APPEND", "SPLICE"}
      <4>1. route' = route
        BY <2>2, <3>2 DEF Adopt, plan
      <4>2. ~Planned
        BY <2>2, <2>3, <2>4 DEF Planned
      <4> QED
        BY <4>1, <4>2 DEF OpenInv
    <3> QED
      BY <3>1, <3>2
  <2>5. ASSUME job' = "start", todo' = <<"APPEND">>
        PROVE  Fresh'
    <3>1. todo' = Tail(todo) /\ todo \in StartScripts
      BY <2>2, <2>3, <2>5 DEF ShapeInv, Shapes
    <3>2. Head(todo) = "OPEN"
      BY <2>3, <2>5, <3>1, StartGoesOn
    <3>3. asked = "OPEN" /\ Alive
      BY <2>2, <2>3, <2>5, <3>2 DEF ScriptInv, HostJob, Alive
    <3>4. Says("OK")
      BY <2>1, <3>3, AnsweredIsOK DEF TalkInv, Judged
    <3>5. Fresh /\ draft' = draft
      BY <2>2, <3>3, <3>4 DEF OpenInv, Adopt
    <3> QED
      BY <3>5 DEF Fresh, firmware, stream, arms
  <2> QED
    BY <2>2, <2>4, <2>5 DEF OpenInv
<1> QED
  BY <1>1, <1>2, <1>3, <1>4, AdapterView

\* Requests that leave the link, while the adapter does nothing.
LEMMA OpenStays ==
    ASSUME TypeInv, OpenInv, UNCHANGED adapter, asked' = asked,
           up' = up \/ (up # <<>> /\ up' = Tail(up)),
           job = "start" /\ asked = "NONE" => GoesOn,
           asked = "OPEN" /\ Says("OK")' => Fresh'
    PROVE  OpenInv'
<1>1. /\ host' = host /\ job' = job /\ todo' = todo /\ route' = route /\ draft' = draft
  BY DEF adapter, plan, operation
<1>2. ~Planned' => route' = <<>>
  BY <1>1 DEF Planned, OpenInv
<1>3. job' = "start" /\ todo' = <<"APPEND">> /\ asked' = "NONE" => Fresh'
  BY <1>1, FreshGoesOn DEF OpenInv
<1>4. asked' = "OPEN" =>
          \A i \in 1 .. Len(up') : up'[i].mine => up'[i].content.horizon = draft'.horizon
  <2>1. CASE up' = up
    BY <1>1, <2>1 DEF OpenInv
  <2>2. CASE up # <<>> /\ up' = Tail(up)
    <3>1. /\ Len(up) \in Nat \ {0} /\ Len(up') = Len(up) - 1
          /\ \A i \in 1 .. Len(up') : up'[i] = up[i + 1]
      BY <2>2, TailOfLink DEF TypeInv, LinkTyped
    <3>2. \A i \in 1 .. Len(up') : i + 1 \in 1 .. Len(up)
      BY <3>1
    <3> QED
      BY <1>1, <3>1, <3>2 DEF OpenInv
  <2> QED
    BY <2>1, <2>2
<1> QED
  BY <1>2, <1>3, <1>4 DEF OpenInv

LEMMA HandleOpens ==
    ASSUME TypeInv, ScriptInv, LinkInv, TalkInv, OpenInv, Handle, UNCHANGED adapter
    PROVE  OpenInv'
<1>1. up # <<>> /\ up' = Tail(up) /\ asked' = asked
  BY HandleEffect
<1>2. ASSUME job = "start", asked = "NONE"
      PROVE  GoesOn
  <2>1. Alive /\ ~Waiting
    BY <1>2 DEF ScriptInv, HostJob, Alive, Waiting
  <2>2. Head(up).kind = "FEEDBACK"
    BY <2>1, HandledIsAsked DEF TalkInv
  <2> QED
    BY <2>2, HandleGoesOn
<1>3. ASSUME asked = "OPEN", Says("OK")'
      PROVE  Fresh'
  <2>1. Waiting
    BY <1>3 DEF Waiting
  <2>2. /\ Head(up).mine /\ Head(up).kind = "OPEN"
        /\ \A says, at : AnswerAt(says, at) => says = "OK"
    BY <1>3, <2>1, Answering
  <2>3. StreamOpen
    BY <2>2 DEF Handle, Handles, Hello, Heartbeat, PrepareShadow, ArmRequest, Enable,
       SafeStop, ExecutorDiagnostics, TrackingDiagnostics, FeedbackSnapshot,
       SetpointBatch, SpliceBatch
  <2>4. Openable(Head(up).content.horizon)
    <3>1. ~Answer("REFUSED")
      BY <2>2 DEF Answer
    <3> QED
      BY <2>3, <3>1 DEF StreamOpen
  <2>5. queue' = <<>> /\ limit' = Head(up).content.horizon
    BY <2>3, <2>4 DEF StreamOpen
  <2>6. Head(up).content.horizon = draft.horizon
    <3>1. Head(up) = up[1] /\ 1 \in 1 .. Len(up)
      BY <1>1, TailOfLink DEF TypeInv, LinkTyped
    <3> QED
      BY <1>3, <2>2, <3>1 DEF OpenInv
  <2>7. draft' = draft
    BY DEF adapter, operation
  <2> QED
    BY <2>5, <2>6, <2>7 DEF Fresh
<1> QED
  BY <1>1, <1>2, <1>3, OpenStays

LEMMA NextOpen ==
    ASSUME TypeInv, ScriptInv, ShapeInv, LinkInv, Reopens, OrderInv, TalkInv, OpenInv,
           [Next]_vars
    PROVE  OpenInv'
<1>1. CASE AdapterStep /\ UNCHANGED firmware
  BY <1>1, AdapterOpens
<1>2. CASE Handle /\ UNCHANGED adapter
  BY <1>2, HandleOpens
<1>3. ASSUME UNCHANGED adapter, asked' = asked, GoesOn,
             up' = up \/ (up # <<>> /\ up' = Tail(up)), LoseAnswer \/ down' = down
      PROVE  OpenInv'
  <2>1. Says("OK")' => Says("OK")
    BY <1>3, NothingSaid
  <2>2. asked = "OPEN" /\ Says("OK")' => Fresh
    BY <2>1 DEF OpenInv
  <2>3. draft' = draft
    BY <1>3 DEF adapter, operation
  <2>4. asked = "OPEN" /\ Says("OK")' => Fresh'
    BY <1>3, <2>2, <2>3, FreshGoesOn
  <2> QED
    BY <1>3, <2>4, OpenStays
<1>4. CASE Environment /\ UNCHANGED <<link, adapter>>
  <2>1. GoesOn /\ up' = up /\ down' = down /\ asked' = asked
    BY <1>4, EnvironmentGoesOn DEF link
  <2> QED
    BY <1>3, <1>4, <2>1
<1>5. CASE Loss /\ UNCHANGED <<firmware, adapter>>
  <2>1. /\ asked' = asked /\ (LoseAnswer \/ down' = down)
        /\ up' = up \/ (up # <<>> /\ up' = Tail(up))
    BY <1>5 DEF Loss, LoseRequest, LoseAnswer
  <2>2. GoesOn
    BY <1>5 DEF GoesOn, firmware, stream, arms
  <2> QED
    BY <1>3, <1>5, <2>1, <2>2
<1>6. CASE UNCHANGED vars
  <2>1. UNCHANGED adapter /\ up' = up /\ down' = down /\ asked' = asked
    BY <1>6 DEF vars, link
  <2>2. GoesOn
    BY <1>6 DEF GoesOn, vars, firmware, stream, arms
  <2> QED
    BY <1>3, <2>1, <2>2
<1> QED
  BY <1>1, <1>2, <1>4, <1>5, <1>6, WhoMoves

-----------------------------------------------------------------------------
(* StreamInv.                                                                *)

\* A batch on its way belongs to an operation of a session that is not over.
LEMMA BatchIsAlive ==
    ASSUME ScriptInv, ShapeInv, InQuestion
    PROVE  Alive /\ Waiting
<1>1. Waiting /\ asked \in {"APPEND", "SPLICE"}
  BY DEF InQuestion, Waiting
<1>2. job # "none" /\ todo # <<>> /\ Head(todo) \in {"APPEND", "SPLICE", "PUMP"}
  BY <1>1 DEF ScriptInv, AskedIsNext
<1>3. job \in {"start", "append", "splice", "poll"}
  BY <1>2, WhoseStep
<1> QED
  BY <1>1, <1>3 DEF ScriptInv, HostJob, Alive

\* A batch that is sent continues what the firmware has.
LEMMA AskedHolds ==
    ASSUME TypeInv, ScriptInv, ShapeInv, TalkInv, OpenInv, StreamInv, UNCHANGED firmware,
           NEW kind \in {"APPEND", "SPLICE"}, NEW c, OrderedAsk(kind, c)
    PROVE  BatchHoldsNext(c)
<1>1. /\ TypedAsk(kind, c) /\ asked' = kind /\ asked = "NONE" /\ job # "none" /\ todo # <<>>
      /\ Head(todo) = kind \/ (Head(todo) = "PUMP" /\ kind = "APPEND")
      /\ c.epoch = epoch' /\ route' = route /\ c \in Contents
  BY DEF OrderedAsk, TypedAsk, Send
<1>2. now' = now /\ now \in Nat /\ latched' = latched /\ queue' = queue /\ limit' = limit
  BY DEF firmware, stream, arms, TypeInv, FirmwareTyped
<1>3. ~InQuestion
  BY <1>1 DEF InQuestion
<1>4. CASE job # "start"
  <2>1. job \in {"append", "splice", "poll"}
    BY <1>1, <1>4, WhoseStep
  <2>2. Planned
    BY <2>1 DEF ScriptInv, HostJob, Planned
  <2>3. Holds(route, horizon)
    BY <1>3, <2>2 DEF StreamInv
  <2>4. /\ draft'.horizon = horizon
        /\ draft'.route = Continued(kind, route, c.samples, Base)
    BY <1>4 DEF OrderedAsk
  <2>5. Base \in 0 .. now
    <3>1. seen.base \in Nat /\ seen.base <= now
      BY SeenParts DEF TypeInv, TalkInv, InThePast
    <3> QED
      BY <1>2, <3>1 DEF Base
  <2>6. \E base \in 0 .. now' : draft'.route = Continued(asked', route', c.samples, base)
    BY <1>1, <1>2, <2>4, <2>5
  <2>7. ~latched' => Mirror(queue', now', limit', route', draft'.horizon)
    BY <1>1, <1>2, <2>3, <2>4 DEF Holds
  <2>8. Sorted(route')
    BY <1>1, <2>3 DEF Holds
  <2> QED
    BY <1>1, <2>6, <2>7, <2>8 DEF BatchHoldsNext
<1>5. CASE job = "start"
  <2>1. todo = <<"APPEND">> /\ kind = "APPEND"
    BY <1>1, <1>5, WhoseStep
  <2>2. host = "READY"
    BY <1>5 DEF ScriptInv, HostJob
  <2>3. ~Planned
    BY <1>1, <2>2 DEF Planned
  <2>4. route = <<>> /\ Fresh
    BY <1>1, <1>5, <2>1, <2>3 DEF OpenInv
  <2>5. draft' = draft /\ c.samples = draft.route
    BY <1>5, <2>1 DEF OrderedAsk
  <2>6. After(<<>>, 0) = <<>> /\ Sorted(<<>>)
    BY NothingAhead
  <2>7. <<>> \o c.samples = c.samples
    <3>1. c.samples \in Seq(SampleSet)
      BY <1>1, ContentParts, SamplesAreTicked
    <3> QED
      BY <3>1, ConcatEmptySeq
  <2>8. Continued("APPEND", <<>>, c.samples, 0) = c.samples
    BY <2>6, <2>7 DEF Continued
  <2>9. \E base \in 0 .. now' : draft'.route = Continued(asked', route', c.samples, base)
    <3>1. 0 \in 0 .. now'
      BY <1>2
    <3>2. draft'.route = Continued(asked', route', c.samples, 0)
      BY <1>1, <2>1, <2>4, <2>5, <2>8
    <3> QED
      BY <3>1, <3>2
  <2>10. ~latched' => Mirror(queue', now', limit', route', draft'.horizon)
    BY <1>1, <1>2, <2>4, <2>5 DEF Fresh, Mirror
  <2> QED
    BY <1>1, <2>4, <2>6, <2>9, <2>10 DEF BatchHoldsNext
<1> QED
  BY <1>4, <1>5

\* Steps of the adapter.
LEMMA AdapterKeepsStream ==
    ASSUME TypeInv, ScriptInv, ShapeInv, Reopens, OrderInv, TalkInv, OpenInv, StreamInv,
           AdapterStep, UNCHANGED firmware
    PROVE  StreamInv'
<1>1. /\ now' = now /\ latched' = latched /\ queue' = queue /\ limit' = limit
      /\ exec' = exec /\ streamEpoch' = streamEpoch
  BY DEF firmware, stream, arms
<1>2. ASSUME ~InQuestion', Planned' => Holds(route', horizon') /\ epoch' = epoch
      PROVE  StreamInv'
  <2>1. Planned' => Holds(route, horizon)'
    BY <1>1, <1>2 DEF Holds
  <2> QED
    BY <1>2, <2>1 DEF StreamInv
<1>3. CASE Over
  <2>1. ~Planned' /\ ~InQuestion'
    BY <1>3 DEF Over, Planned, InQuestion
  <2> QED
    BY <1>2, <2>1
<1>4. CASE Calm
  <2>1. ~InQuestion' /\ ~InQuestion
    BY <1>4 DEF Calm, InQuestion
  <2>2. Planned' => Planned /\ route' = route /\ horizon' = horizon /\ epoch' = epoch
    BY <1>4 DEF Calm, plan
  <2> QED
    BY <1>2, <2>1, <2>2 DEF StreamInv
<1>5. CASE \E kind, c : OrderedAsk(kind, c)
  <2>1. PICK kind, c : OrderedAsk(kind, c)
    BY <1>5
  <2>2. /\ TypedAsk(kind, c) /\ asked' = kind /\ asked = "NONE"
        /\ kind \in Kinds /\ c \in Contents /\ Send(kind, c)
    BY <2>1 DEF OrderedAsk, TypedAsk, Send
  <2>3. CASE kind \notin {"APPEND", "SPLICE"}
    <3>1. ~InQuestion' /\ ~InQuestion
      BY <2>2, <2>3 DEF InQuestion
    <3>2. Planned' => Planned /\ route' = route /\ horizon' = horizon
      BY <2>2 DEF TypedAsk, Planned
    <3>3. epoch' = epoch
      BY <2>1, <2>3 DEF OrderedAsk
    <3> QED
      BY <1>2, <3>1, <3>2, <3>3 DEF StreamInv
  <2>4. CASE kind \in {"APPEND", "SPLICE"}
    <3>1. InQuestion' /\ ~Says("OK")'
      BY <2>2, <2>4, NothingSaid DEF InQuestion
    <3>2. BatchHoldsNext(c)
      BY <2>1, <2>4, AskedHolds
    <3>3. /\ Len(up) \in Nat /\ Len(up') = Len(up) + 1
          /\ \A j \in 1 .. Len(up) : ~up'[j].mine
          /\ up'[Len(up) + 1].content = c
      BY <2>2, SendView DEF TypeInv
    <3>4. ASSUME NEW i \in 1 .. Len(up'), up'[i].mine
          PROVE  up'[i].content = c
      BY <3>3, <3>4
    <3> QED
      BY <3>1, <3>2, <3>4 DEF StreamInv, BatchHolds, BatchHoldsNext
  <2> QED
    BY <2>3, <2>4
<1>6. CASE \E i \in DOMAIN down : Answered(i)
  <2>1. PICK i \in DOMAIN down : Answered(i)
    BY <1>6
  <2>2. /\ host' = host /\ job' = job /\ asked' = "NONE" /\ Waiting /\ epoch' = epoch
        /\ todo' = Rest(down[i].says) /\ Adopt
    BY <2>1 DEF Answered, Receive
  <2>3. ~InQuestion'
    BY <2>2 DEF InQuestion
  <2>4. CASE InQuestion
    <3>1. Says("OK")
      <4>1. Alive /\ asked \in Judged
        BY <2>4, BatchIsAlive DEF InQuestion, Judged
      <4> QED
        BY <2>1, <4>1, AnsweredIsOK DEF TalkInv
    <3>2. Holds(draft.route, draft.horizon)
      BY <2>4, <3>1 DEF StreamInv
    <3>3. route' = draft.route /\ horizon' = draft.horizon
      BY <2>2, <2>4 DEF Adopt, InQuestion
    <3> QED
      BY <1>2, <2>2, <2>3, <3>2, <3>3
  <2>5. CASE ~InQuestion
    <3>1. route' = route /\ horizon' = horizon
      BY <2>2, <2>5 DEF Adopt, plan, InQuestion
    <3>2. ASSUME job = "start", todo' = <<>>
          PROVE  FALSE
      <4>1. /\ todo # <<>>
            /\ Head(todo) = asked \/ (Head(todo) = "PUMP" /\ asked = "APPEND")
            /\ Rest(down[i].says) = Tail(todo) \/ job = "poll"
        BY <2>2, RestOfScript
      <4>2. todo \in StartScripts
        BY <3>2 DEF ShapeInv, Shapes
      <4>3. Head(todo) = "APPEND"
        BY <2>2, <3>2, <4>1, <4>2, StartGoesOn
      <4> QED
        BY <2>5, <4>1, <4>3 DEF InQuestion
    <3>3. Planned' => Planned
      BY <2>2, <3>2 DEF Planned
    <3>4. Planned => Holds(route, horizon)
      BY <2>5 DEF StreamInv
    <3> QED
      BY <1>2, <2>2, <2>3, <3>1, <3>3, <3>4
  <2> QED
    BY <2>4, <2>5
<1> QED
  BY <1>3, <1>4, <1>5, <1>6, AdapterView

\* Steps of the firmware and the link: the adapter does nothing.
LEMMA StreamStays ==
    ASSUME TypeInv, Sorted(queue), StreamInv, UNCHANGED adapter, asked' = asked,
           now' \in Nat, now <= now', up' = up \/ (up # <<>> /\ up' = Tail(up)),
           Planned /\ ~InQuestion => GoesOn,
           InQuestion /\ Says("OK")' => HoldsNext(draft.route, draft.horizon),
           InQuestion /\ (\E i \in 1 .. Len(up') : up'[i].mine) => GoesOn
    PROVE  StreamInv'
<1>1. /\ host' = host /\ job' = job /\ todo' = todo /\ route' = route /\ draft' = draft
      /\ horizon' = horizon /\ epoch' = epoch
  BY DEF adapter, plan, operation
<1>2. (Planned' <=> Planned) /\ (InQuestion' <=> InQuestion)
  BY <1>1 DEF Planned, InQuestion
<1>3. ASSUME Planned, ~InQuestion
      PROVE  Holds(route, horizon)'
  <2>1. GoesOn /\ Holds(route, horizon) /\ route \in Seq(SampleSet)
    BY <1>3, SamplesAreTicked DEF StreamInv, TypeInv, PlanTyped
  <2>2. HoldsNext(route, horizon)
    BY <1>1, <2>1, HoldsGoesOn
  <2> QED
    BY <1>1, <2>2 DEF Holds, HoldsNext
<1>4. ASSUME InQuestion, Says("OK")'
      PROVE  Holds(draft.route, draft.horizon)'
  <2>1. HoldsNext(draft.route, draft.horizon)
    BY <1>4
  <2> QED
    BY <1>1, <2>1 DEF Holds, HoldsNext
<1>5. ASSUME InQuestion, NEW i \in 1 .. Len(up'), up'[i].mine
      PROVE  BatchHoldsNext(up'[i].content)
  <2>1. GoesOn
    BY <1>5
  <2>2. \E j \in 1 .. Len(up) : up[j] = up'[i]
    <3>1. CASE up' = up
      BY <1>5, <3>1
    <3>2. CASE up # <<>> /\ up' = Tail(up)
      <4>1. /\ Len(up) \in Nat \ {0} /\ Len(up') = Len(up) - 1
            /\ \A k \in 1 .. Len(up') : up'[k] = up[k + 1]
        BY <3>2, TailOfLink DEF TypeInv, LinkTyped
      <4>2. i + 1 \in 1 .. Len(up) /\ up[i + 1] = up'[i]
        BY <1>5, <4>1
      <4> QED
        BY <4>2
    <3> QED
      BY <3>1, <3>2
  <2>3. BatchHolds(up'[i].content)
    BY <1>5, <2>2 DEF StreamInv
  <2> QED
    BY <1>1, <2>1, <2>3, BatchGoesOn
<1> QED
  BY <1>2, <1>3, <1>4, <1>5 DEF StreamInv, BatchHolds, BatchHoldsNext

\* A batch that is accepted.
LEMMA BatchAccepted ==
    ASSUME TypeInv, LinkInv, OrderInv, EnabledIsOn, StreamInv, Handle, UNCHANGED adapter,
           InQuestion, Waiting, Says("OK")'
    PROVE  HoldsNext(draft.route, draft.horizon)
<1> DEFINE b == Head(up).content
<1>1. /\ Head(up).mine /\ Head(up).kind = asked
      /\ \A says, at : AnswerAt(says, at) => says = "OK"
  BY Answering
<1>2. ~Answer("REFUSED")
  BY <1>1 DEF Answer
<1>3. /\ Head(up) = up[1] /\ 1 \in 1 .. Len(up) /\ Head(up) \in Frames
  <2>1. up # <<>>
    BY HandleEffect
  <2> QED
    BY <2>1, TailOfLink DEF TypeInv, LinkTyped
<1>4. /\ b \in Contents /\ b.samples # <<>> /\ Sorted(b.samples) /\ BatchHolds(b)
  <2>1. b \in Contents
    BY <1>3, FrameParts
  <2>2. b.samples # <<>>
    BY <1>1, <1>3 DEF TypeInv, FullBatches, InQuestion
  <2>3. Sorted(b.samples)
    BY <1>3 DEF OrderInv
  <2>4. BatchHolds(b)
    BY <1>1, <1>3 DEF StreamInv
  <2> QED
    BY <2>1, <2>2, <2>3, <2>4
<1>5. Sorted(queue) /\ epoch' = epoch
  BY DEF OrderInv, adapter
<1>6. CASE asked = "APPEND"
  <2>1. SetpointBatch
    BY <1>1, <1>6 DEF Handle, Handles, Hello, Heartbeat, PrepareShadow, ArmRequest, Enable,
       SafeStop, ExecutorDiagnostics, TrackingDiagnostics, FeedbackSnapshot,
       StreamOpen, SpliceBatch
  <2>2. AppendAdmitted(b) /\ Admit(b, queue \o b.samples)
    BY <1>2, <2>1 DEF SetpointBatch
  <2>3. armsOn /\ enabled
    BY <1>2, <2>2 DEF Admit
  <2> QED
    BY <1>4, <1>5, <1>6, <2>2, <2>3, AdmitHolds
<1>7. CASE asked = "SPLICE"
  <2>1. SpliceBatch
    BY <1>1, <1>7 DEF Handle, Handles, Hello, Heartbeat, PrepareShadow, ArmRequest, Enable,
       SafeStop, ExecutorDiagnostics, TrackingDiagnostics, FeedbackSnapshot,
       StreamOpen, SetpointBatch
  <2>2. SpliceAdmitted(b) /\ Admit(b, Before(queue, FirstTick(b.samples)) \o b.samples)
    BY <1>2, <2>1 DEF SpliceBatch
  <2>3. armsOn /\ enabled
    BY <1>2, <2>2 DEF Admit
  <2> QED
    BY <1>4, <1>5, <1>7, <2>2, <2>3, AdmitHolds
<1> QED
  BY <1>6, <1>7 DEF InQuestion

LEMMA HandleKeepsStream ==
    ASSUME TypeInv, ScriptInv, ShapeInv, LinkInv, OrderInv, TalkInv, EnabledIsOn, StreamInv,
           Handle, UNCHANGED adapter
    PROVE  StreamInv'
<1>1. up # <<>> /\ up' = Tail(up) /\ asked' = asked
  BY HandleEffect
<1>2. now' \in Nat /\ now <= now'
  <2>1. Next
    BY DEF Next, Firmware
  <2> QED
    BY <2>1, ClockGoesOn
<1>3. ASSUME Planned, ~InQuestion
      PROVE  GoesOn
  <2>1. Alive
    BY <1>3 DEF Planned, ScriptInv, HostJob, Alive
  <2>2. asked # "OPEN"
    <3>1. ASSUME asked = "OPEN"
          PROVE  FALSE
      <4>1. job # "none" /\ todo # <<>> /\ Head(todo) = "OPEN"
        BY <3>1 DEF ScriptInv, AskedIsNext, Waiting
      <4>2. job = "start"
        BY <4>1, WhoseStep
      <4> QED
        BY <1>3, <4>1, <4>2 DEF Planned, ScriptInv, HostJob
    <3> QED
      BY <3>1
  <2>3. Head(up).kind \notin {"OPEN", "APPEND", "SPLICE"}
    BY <1>3, <2>1, <2>2, HandledIsAsked DEF TalkInv, InQuestion
  <2> QED
    BY <2>3, HandleGoesOn
<1>4. ASSUME InQuestion, Says("OK")'
      PROVE  HoldsNext(draft.route, draft.horizon)
  BY <1>4, BatchIsAlive, BatchAccepted
<1>5. ASSUME InQuestion, NEW i \in 1 .. Len(up'), up'[i].mine
      PROVE  GoesOn
  <2>1. Alive /\ Waiting
    BY <1>5, BatchIsAlive
  <2>2. /\ Len(up) \in Nat \ {0} /\ Len(up') = Len(up) - 1 /\ Head(up) = up[1]
        /\ \A k \in 1 .. Len(up') : up'[k] = up[k + 1]
    BY <1>1, TailOfLink DEF TypeInv, LinkTyped
  <2>3. 1 \in 1 .. Len(up) /\ 1 # Len(up)
    BY <1>5, <2>2
  <2>4. ~Head(up).mine
    BY <2>1, <2>2, <2>3 DEF LinkInv, NewestIsLast
  <2>5. Head(up).kind = "FEEDBACK"
    BY <2>1, <2>4, HandledIsAsked DEF TalkInv
  <2> QED
    BY <2>5, HandleGoesOn
<1> QED
  BY <1>1, <1>2, <1>3, <1>4, <1>5, StreamStays DEF OrderInv

LEMMA NextStream ==
    ASSUME TypeInv, ScriptInv, ShapeInv, LinkInv, Reopens, OrderInv, TalkInv, PowerInv,
           OpenInv, StreamInv, [Next]_vars
    PROVE  StreamInv'
<1>1. CASE AdapterStep /\ UNCHANGED firmware
  BY <1>1, AdapterKeepsStream
<1>2. CASE Handle /\ UNCHANGED adapter
  BY <1>2, HandleKeepsStream DEF PowerInv
<1>3. ASSUME UNCHANGED adapter, asked' = asked, GoesOn,
             up' = up \/ (up # <<>> /\ up' = Tail(up)), LoseAnswer \/ down' = down
      PROVE  StreamInv'
  <2>1. Says("OK")' => Says("OK")
    BY <1>3, NothingSaid
  <2>2. now' \in Nat /\ now <= now' /\ Sorted(queue) /\ epoch' = epoch
    BY <1>3, ClockGoesOn DEF OrderInv, adapter
  <2>3. ASSUME InQuestion, Says("OK")'
        PROVE  HoldsNext(draft.route, draft.horizon)
    <3>1. Holds(draft.route, draft.horizon)
      BY <2>1, <2>3 DEF StreamInv
    <3>2. draft.route \in Seq(SampleSet)
      BY DraftParts, SamplesAreTicked DEF TypeInv, PlanTyped
    <3> QED
      BY <1>3, <2>2, <3>1, <3>2, HoldsGoesOn
  <2> QED
    BY <1>3, <2>2, <2>3, StreamStays
<1>4. CASE Environment /\ UNCHANGED <<link, adapter>>
  <2>1. GoesOn /\ up' = up /\ down' = down /\ asked' = asked
    BY <1>4, EnvironmentGoesOn DEF link
  <2> QED
    BY <1>3, <1>4, <2>1
<1>5. CASE Loss /\ UNCHANGED <<firmware, adapter>>
  <2>1. /\ asked' = asked /\ (LoseAnswer \/ down' = down)
        /\ up' = up \/ (up # <<>> /\ up' = Tail(up))
    BY <1>5 DEF Loss, LoseRequest, LoseAnswer
  <2>2. GoesOn
    BY <1>5 DEF GoesOn, firmware, stream, arms
  <2> QED
    BY <1>3, <1>5, <2>1, <2>2
<1>6. CASE UNCHANGED vars
  <2>1. UNCHANGED adapter /\ up' = up /\ down' = down /\ asked' = asked
    BY <1>6 DEF vars, link
  <2>2. GoesOn
    BY <1>6 DEF GoesOn, vars, firmware, stream, arms
  <2> QED
    BY <1>3, <2>1, <2>2
<1> QED
  BY <1>1, <1>2, <1>4, <1>5, <1>6, WhoMoves

LEMMA SpecQueue == Spec => []QueueInv
<1>1. Init => QueueInv
  <2> SUFFICES ASSUME Init PROVE QueueInv
    OBVIOUS
  <2>1. host = "NEW" /\ job = "none" /\ asked = "NONE" /\ route = <<>>
    BY DEF Init
  <2> QED
    BY <2>1 DEF QueueInv, OpenInv, StreamInv, Planned, InQuestion
<1>2. ASSUME TypeInv, ScriptInv, ShapeInv, LinkInv, Reopens /\ OrderInv, TalkInv, PowerInv,
             QueueInv, [Next]_vars
      PROVE  QueueInv'
  BY <1>2, NextOpen, NextStream DEF QueueInv
<1> QED
  BY <1>1, <1>2, SpecTyped, SpecScripts, SpecShapes, SpecLink, SpecOrder, SpecTalk, SpecPower,
     PTL DEF Spec

-----------------------------------------------------------------------------
(* The end of a plan.                                                        *)

\* A stream that runs has its tracking feedback; one that has succeeded keeps
\* it until the arms have settled, and the anchor is what they settled at.
Settled ==
    /\ exec = "SUCCEEDED" /\ ~tracking /\ ~latched => anchored
    /\ exec = "RUNNING" /\ ~latched => tracking
    /\ starting => exec = "PRIMING" /\ tracking

LEMMA HandleSettles ==
    ASSUME Settled, Handle
    PROVE  Settled'
<1>1. CASE UNCHANGED <<stream, arms, anchored>>
  BY <1>1 DEF stream, arms, Settled
<1>2. CASE PrepareShadow
  <2>1. UNCHANGED stream
    BY <1>2 DEF PrepareShadow
  <2>2. \/ anchored' = TRUE /\ latched' = latched
        \/ latched' = TRUE
    BY <1>2, Zenon DEF PrepareShadow
  <2> QED
    BY <2>1, <2>2 DEF stream, Settled
<1>3. CASE ArmRequest \/ Enable
  BY <1>3 DEF ArmRequest, Enable, stream, Settled
<1>4. CASE SafeStop
  BY <1>4 DEF SafeStop, Stop, CoordinatedStop, Settled
<1>5. CASE StreamOpen
  BY <1>5 DEF StreamOpen, arms, Settled
<1>6. ASSUME NEW b, NEW q, Admit(b, q)
      PROVE  Settled'
  <2>1. exec' = exec /\ latched' = latched /\ anchored' = anchored
    BY <1>6 DEF Admit, arms
  <2>2. CASE starting' = starting /\ tracking' = tracking
    BY <2>1, <2>2 DEF Settled
  <2>3. ASSUME NEW completes, completes => exec = "PRIMING",
               starting' = (starting \/ completes), tracking' = (tracking \/ completes)
        PROVE  Settled'
    <3>1. (tracking => tracking') /\ (completes => tracking')
      BY <2>3
    <3>2. starting' => starting \/ completes
      BY <2>3
    <3> QED
      BY <2>1, <2>3, <3>1, <3>2 DEF Settled
  <2>4. \/ starting' = starting /\ tracking' = tracking
        \/ \E completes : /\ completes => exec = "PRIMING"
                          /\ starting' = (starting \/ completes)
                          /\ tracking' = (tracking \/ completes)
    <3> DEFINE completes == exec = "PRIMING" /\ Len(q) >= MinStart
    <3>1. \/ starting' = starting /\ tracking' = tracking
          \/ /\ starting' = (starting \/ completes) /\ tracking' = (tracking \/ completes)
      BY <1>6 DEF Admit
    <3>2. completes => exec = "PRIMING"
      OBVIOUS
    <3> HIDE DEF completes
    <3> QED
      BY <3>1, <3>2
  <2> QED
    BY <2>2, <2>3, <2>4
<1>7. CASE SetpointBatch \/ SpliceBatch
  <2>1. UNCHANGED firmware \/ \E b, q : Admit(b, q)
    BY <1>7 DEF SetpointBatch, SpliceBatch
  <2> QED
    BY <1>1, <1>6, <2>1 DEF firmware
<1> QED
  BY <1>1, <1>2, <1>3, <1>4, <1>5, <1>7 DEF Handle, Hello, Heartbeat, ExecutorDiagnostics,
     TrackingDiagnostics, FeedbackSnapshot, firmware

LEMMA EnvironmentSettles ==
    ASSUME Settled, Environment
    PROVE  Settled'
<1>1. CASE Clock
  BY <1>1 DEF Clock, Settled, stream, arms
<1>2. CASE Watchdog \/ FirmwareStops \/ Underflow
  BY <1>2 DEF Watchdog, FirmwareStops, Underflow, Stop, CoordinatedStop, Settled
<1>3. CASE StreamStarts
  BY <1>3 DEF StreamStarts, Stop, CoordinatedStop, Settled, arms
<1>4. CASE SampleApplied
  BY <1>4 DEF SampleApplied, Running, Settled, arms
<1>5. CASE SettleEnds
  BY <1>5 DEF SettleEnds, Settled, arms
<1> QED
  BY <1>1, <1>2, <1>3, <1>4, <1>5 DEF Environment, Control

LEMMA SpecSettled == Spec => []Settled
<1>1. Init => Settled
  BY DEF Init, FirmwareInit, Settled
<1>2. ASSUME Settled, [Next]_vars
      PROVE  Settled'
  <2>1. CASE UNCHANGED firmware
    BY <1>2, <2>1 DEF Settled, firmware, stream, arms
  <2> QED
    BY <1>2, <2>1, WhoMoves, HandleSettles, EnvironmentSettles DEF vars
<1> QED
  BY <1>1, <1>2, PTL DEF Spec

\* All of the plan was sent, and the firmware has applied it.
Completed == LastTick(route) = horizon /\ (latched \/ exec = "SUCCEEDED")

\* What a poll has learned, or will learn from an answer on its way, stays
\* true to its end: it feeds the plan before it looks at the executor, so no
\* batch is sent between the look and the end.
PollInv ==
    job = "poll" =>
        /\ asked = "EXECUTOR" /\ Says("SUCCEEDED") => Completed
        /\ seen.exec = "SUCCEEDED" => Lacks(todo, "PUMP") /\ Completed
        /\ asked = "TRACKING" /\ Says("IDLE") => ~tracking
        /\ seen.idle /\ Lacks(todo, "TRACKING") => ~tracking
        /\ ~Lacks(todo, "EXECUTOR") => seen.exec = "NONE"

\* A stream that is completed stays so while it goes on.
LEMMA CompletedGoesOn ==
    ASSUME Settled, GoesOn, Completed, route' = route, horizon' = horizon
    PROVE  Completed'
  BY DEF Settled, GoesOn, Completed

\* Steps of the adapter.
LEMMA AdapterPolls ==
    ASSUME TypeInv, ScriptInv, ShapeInv, Reopens, OrderInv, PollInv,
           AdapterStep, UNCHANGED firmware
    PROVE  PollInv'
<1>1. latched' = latched /\ exec' = exec /\ tracking' = tracking
  BY DEF firmware, stream, arms
<1>2. CASE Over
  BY <1>2 DEF Over, PollInv
<1>3. CASE Calm /\ KeepsPoll
  <2>1. asked' = "NONE"
    BY <1>3 DEF Calm
  <2>2. ASSUME job' = "poll"
        PROVE  /\ seen'.exec = "NONE" /\ ~Lacks(todo', "TRACKING")
    <3>1. /\ seen' = seen /\ ~Lacks(todo', "TRACKING")
          /\ (job = "poll" /\ ~Lacks(todo, "EXECUTOR")) \/ seen = NothingSeen
      BY <1>3, <2>2 DEF KeepsPoll
    <3>2. NothingSeen.exec = "NONE"
      BY DEF NothingSeen
    <3> QED
      BY <3>1, <3>2 DEF PollInv
  <2> QED
    BY <2>1, <2>2 DEF PollInv
<1>4. CASE \E kind, c : OrderedAsk(kind, c)
  <2>1. PICK kind, c : TypedAsk(kind, c)
    BY <1>4 DEF OrderedAsk
  <2>2. ~Says("SUCCEEDED")' /\ ~Says("IDLE")'
    BY <2>1, NothingSaid
  <2>3. job' = job /\ todo' = todo /\ route' = route /\ horizon' = horizon
    BY <2>1 DEF TypedAsk
  <2>4. seen'.exec = seen.exec /\ seen'.idle = seen.idle
    BY <2>1 DEF TypedAsk, TypeInv, SeenTyped
  <2> QED
    BY <1>1, <2>2, <2>3, <2>4 DEF PollInv, Completed
<1>5. CASE \E i \in DOMAIN down : Answered(i)
  <2>1. PICK i \in DOMAIN down : Answered(i)
    BY <1>5
  <2>2. PICK says : says = down[i].says
    OBVIOUS
  <2>3. /\ job' = job /\ asked' = "NONE" /\ Waiting /\ Receive(i)
        /\ todo' = Rest(says) /\ Adopt /\ Learn(says, down[i].at)
    BY <2>1, <2>2 DEF Answered, Receive
  <2>4. Says(says)
    <3>1. down[i].mine /\ i \in 1 .. Len(down)
      BY <2>3, ReceiveView DEF TypeInv
    <3> QED
      BY <2>2, <3>1 DEF Says
  <2>5. /\ seen'.exec = IF asked = "EXECUTOR" THEN says ELSE seen.exec
        /\ seen'.idle = IF asked = "TRACKING" THEN says = "IDLE" ELSE seen.idle
    BY <2>3, LearnBase DEF TypeInv
  <2>6. /\ todo # <<>>
        /\ Head(todo) = asked \/ (Head(todo) = "PUMP" /\ asked = "APPEND")
        /\ Rest(says) \in {Tail(todo), <<"FEEDBACK">> \o Tail(todo)}
        /\ asked # "EXECUTOR" => Rest(says) = Tail(todo)
        /\ \A k : Lacks(todo', k) => Head(todo) = k \/ Lacks(todo, k)
    <3>1. /\ todo # <<>>
          /\ Head(todo) = asked \/ (Head(todo) = "PUMP" /\ asked = "APPEND")
          /\ \/ Rest(says) = Tail(todo)
             \/ asked = "EXECUTOR" /\ Rest(says) = <<"FEEDBACK">> \o Tail(todo)
          /\ \A k : Lacks(Rest(says), k) => Head(todo) = k \/ Lacks(todo, k)
      BY <2>3, RestOfScript
    <3> QED
      BY <2>3, <3>1
  <2>7. ASSUME job = "poll"
        PROVE  /\ seen'.exec = "SUCCEEDED" => Lacks(todo', "PUMP") /\ Completed'
               /\ seen'.idle /\ Lacks(todo', "TRACKING") => ~tracking'
               /\ ~Lacks(todo', "EXECUTOR") => seen'.exec = "NONE"
    <3>1. todo \in PollScripts
      BY <2>7 DEF ShapeInv, Shapes
    <3>2. todo \in Seq(Steps) /\ Lacks(todo, "APPEND") /\ Lacks(todo, "SPLICE")
      BY <3>1, PollGoesOn
    <3>3. /\ asked # "SPLICE" /\ (asked = "APPEND" => Head(todo) = "PUMP")
          /\ \A k : Lacks(todo, k) => Lacks(Tail(todo), k) /\ Head(todo) # k
      BY <2>6, <3>2, TailLacks
    <3>4. asked = "EXECUTOR" => Lacks(todo', "PUMP") /\ Lacks(todo', "EXECUTOR")
      <4>1. asked = "EXECUTOR" => Head(todo) = "EXECUTOR"
        BY <2>6
      <4>2. Head(todo) = "EXECUTOR" =>
                \A r \in {Tail(todo), <<"FEEDBACK">> \o Tail(todo)} :
                    Lacks(r, "PUMP") /\ Lacks(r, "EXECUTOR")
        BY <2>6, <3>1, PollGoesOn
      <4> QED
        BY <2>3, <2>6, <4>1, <4>2
    <3>5. asked # "APPEND" => route' = route /\ horizon' = horizon
      BY <2>3, <3>3 DEF Adopt, plan
    <3>6. seen'.exec = "SUCCEEDED" => Lacks(todo', "PUMP") /\ Completed'
      <4>1. CASE asked = "EXECUTOR"
        <5>1. seen'.exec = "SUCCEEDED" => Completed
          BY <2>4, <2>5, <2>7, <4>1 DEF PollInv
        <5> QED
          BY <1>1, <3>4, <3>5, <4>1, <5>1 DEF Completed
      <4>2. CASE asked # "EXECUTOR"
        <5>1. seen'.exec = "SUCCEEDED" => Lacks(todo, "PUMP") /\ Completed
          BY <2>5, <2>7, <4>2 DEF PollInv
        <5>2. Lacks(todo, "PUMP") => Lacks(todo', "PUMP") /\ asked # "APPEND"
          BY <2>3, <2>6, <3>3, <4>2
        <5> QED
          BY <1>1, <3>5, <5>1, <5>2 DEF Completed
      <4> QED
        BY <4>1, <4>2
    <3>7. seen'.idle /\ Lacks(todo', "TRACKING") => ~tracking'
      <4>1. CASE asked = "TRACKING"
        BY <1>1, <2>4, <2>5, <2>7, <4>1 DEF PollInv
      <4>2. CASE asked # "TRACKING"
        <5>1. Lacks(todo', "TRACKING") => Lacks(todo, "TRACKING")
          BY <2>6, <4>2
        <5> QED
          BY <1>1, <2>5, <2>7, <4>2, <5>1 DEF PollInv
      <4> QED
        BY <4>1, <4>2
    <3>8. ~Lacks(todo', "EXECUTOR") => seen'.exec = "NONE"
      <4>1. ~Lacks(todo', "EXECUTOR") => asked # "EXECUTOR" /\ ~Lacks(todo, "EXECUTOR")
        BY <2>3, <2>6, <3>3, <3>4
      <4> QED
        BY <2>5, <2>7, <4>1 DEF PollInv
    <3> QED
      BY <3>6, <3>7, <3>8
  <2> QED
    BY <2>3, <2>7 DEF PollInv
<1> QED
  BY <1>2, <1>3, <1>4, <1>5, AdapterView

\* Steps of the firmware and the link while no batch is fed.
LEMMA PollStays ==
    ASSUME Settled, PollInv, UNCHANGED adapter, asked' = asked, GoesOn,
           asked = "EXECUTOR" /\ Says("SUCCEEDED")' => Completed,
           asked = "TRACKING" /\ Says("IDLE")' => ~tracking
    PROVE  PollInv'
<1>1. /\ job' = job /\ todo' = todo /\ seen' = seen /\ route' = route /\ horizon' = horizon
  BY DEF adapter, plan, operation
<1>2. Completed => Completed'
  BY <1>1, CompletedGoesOn
<1>3. ~tracking => ~tracking'
  BY DEF GoesOn
<1> QED
  BY <1>1, <1>2, <1>3 DEF PollInv

LEMMA HandlePolls ==
    ASSUME TypeInv, ScriptInv, ShapeInv, LinkInv, TalkInv, StreamInv, Settled, PollInv,
           Handle, UNCHANGED adapter
    PROVE  PollInv'
<1>1. asked' = asked
  BY HandleEffect
<1>2. /\ job' = job /\ todo' = todo /\ seen' = seen
  BY DEF adapter, operation
<1>3. CASE job # "poll"
  BY <1>2, <1>3 DEF PollInv
<1>4. CASE job = "poll" /\ asked = "APPEND"
  <2>1. todo \in PollScripts /\ todo # <<>> /\ Head(todo) \in {"PUMP", "APPEND"}
    BY <1>4 DEF ShapeInv, Shapes, ScriptInv, AskedIsNext, Waiting
  <2>2. todo \in Seq(Steps) /\ Lacks(todo, "APPEND")
    BY <2>1, PollGoesOn
  <2>3. ~Lacks(todo, "PUMP")
    BY <2>1, <2>2, TailLacks
  <2>4. ~Lacks(todo, "EXECUTOR") /\ ~Lacks(todo, "TRACKING")
    BY <2>1, <2>3, PollGoesOn
  <2> QED
    BY <1>1, <1>2, <1>4, <2>4 DEF PollInv
<1>5. CASE job = "poll" /\ asked # "APPEND"
  <2>1. Alive /\ Planned
    BY <1>5 DEF ScriptInv, HostJob, Alive, Planned
  <2>2. asked \notin {"OPEN", "SPLICE"}
    <3>1. ASSUME asked \in {"OPEN", "SPLICE"}
          PROVE  FALSE
      <4>1. job # "none" /\ todo # <<>> /\ Head(todo) \in {"OPEN", "SPLICE"}
        BY <3>1 DEF ScriptInv, AskedIsNext, Waiting
      <4> QED
        BY <1>5, <4>1, WhoseStep
    <3> QED
      BY <3>1
  <2>3. GoesOn
    <3>1. Head(up).kind \notin {"OPEN", "APPEND", "SPLICE"}
      BY <1>5, <2>1, <2>2, HandledIsAsked DEF TalkInv
    <3> QED
      BY <3>1, HandleGoesOn
  <2>4. ASSUME asked = "EXECUTOR", Says("SUCCEEDED")'
        PROVE  Completed
    <3>1. Waiting
      BY <2>4 DEF Waiting
    <3>2. /\ Head(up).kind = "EXECUTOR"
          /\ \A says, at : AnswerAt(says, at) => says = "SUCCEEDED"
      BY <2>4, <3>1, Answering
    <3>3. ExecutorDiagnostics
      BY <3>2 DEF Handle, Handles, Hello, Heartbeat, PrepareShadow, ArmRequest, Enable,
         SafeStop, StreamOpen, TrackingDiagnostics, FeedbackSnapshot,
         SetpointBatch, SpliceBatch
    <3>4. exec = "SUCCEEDED"
      BY <3>2, <3>3 DEF ExecutorDiagnostics, Answer
    <3>5. Holds(route, horizon)
      BY <2>1, <2>4 DEF StreamInv, InQuestion
    <3> QED
      BY <3>4, <3>5 DEF Holds, Completed
  <2>5. ASSUME asked = "TRACKING", Says("IDLE")'
        PROVE  ~tracking
    <3>1. Waiting
      BY <2>5 DEF Waiting
    <3>2. /\ Head(up).kind = "TRACKING"
          /\ \A says, at : AnswerAt(says, at) => says = "IDLE"
      BY <2>5, <3>1, Answering
    <3>3. TrackingDiagnostics
      BY <3>2 DEF Handle, Handles, Hello, Heartbeat, PrepareShadow, ArmRequest, Enable,
         SafeStop, StreamOpen, ExecutorDiagnostics, FeedbackSnapshot,
         SetpointBatch, SpliceBatch
    <3> QED
      BY <3>2, <3>3 DEF TrackingDiagnostics, Answer
  <2> QED
    BY <1>1, <2>3, <2>4, <2>5, PollStays
<1> QED
  BY <1>3, <1>4, <1>5

LEMMA NextPoll ==
    ASSUME TypeInv, ScriptInv, ShapeInv, LinkInv, Reopens, OrderInv, TalkInv, StreamInv,
           Settled, PollInv, [Next]_vars
    PROVE  PollInv'
<1>1. CASE AdapterStep /\ UNCHANGED firmware
  BY <1>1, AdapterPolls
<1>2. CASE Handle /\ UNCHANGED adapter
  BY <1>2, HandlePolls
<1>3. ASSUME UNCHANGED adapter, asked' = asked, GoesOn, LoseAnswer \/ down' = down
      PROVE  PollInv'
  <2>1. Says("SUCCEEDED")' => Says("SUCCEEDED")
    BY <1>3, NothingSaid
  <2>2. Says("IDLE")' => Says("IDLE")
    BY <1>3, NothingSaid
  <2>3. CASE job = "poll"
    BY <1>3, <2>1, <2>2, <2>3, PollStays DEF PollInv
  <2>4. CASE job # "poll"
    <3>1. job' = job
      BY <1>3 DEF adapter, operation
    <3> QED
      BY <2>4, <3>1 DEF PollInv
  <2> QED
    BY <2>3, <2>4
<1>4. CASE Environment /\ UNCHANGED <<link, adapter>>
  <2>1. GoesOn /\ down' = down /\ asked' = asked
    BY <1>4, EnvironmentGoesOn DEF link
  <2> QED
    BY <1>3, <1>4, <2>1
<1>5. CASE Loss /\ UNCHANGED <<firmware, adapter>>
  <2>1. asked' = asked /\ (LoseAnswer \/ down' = down)
    BY <1>5 DEF Loss, LoseRequest, LoseAnswer
  <2>2. GoesOn
    BY <1>5 DEF GoesOn, firmware, stream, arms
  <2> QED
    BY <1>3, <1>5, <2>1, <2>2
<1>6. CASE UNCHANGED vars
  <2>1. UNCHANGED adapter /\ down' = down /\ asked' = asked
    BY <1>6 DEF vars, link
  <2>2. GoesOn
    BY <1>6 DEF GoesOn, vars, firmware, stream, arms
  <2> QED
    BY <1>3, <2>1, <2>2
<1> QED
  BY <1>1, <1>2, <1>4, <1>5, <1>6, WhoMoves

LEMMA SpecPolls == Spec => []PollInv
<1>1. Init => PollInv
  BY DEF Init, PollInv
<1>2. ASSUME TypeInv, ScriptInv, ShapeInv, LinkInv, Reopens /\ OrderInv, TalkInv, QueueInv,
             Settled, PollInv, [Next]_vars
      PROVE  PollInv'
  BY <1>2, NextPoll DEF QueueInv
<1> QED
  BY <1>1, <1>2, SpecTyped, SpecScripts, SpecShapes, SpecLink, SpecOrder, SpecTalk, SpecQueue,
     SpecSettled, PTL DEF Spec

-----------------------------------------------------------------------------
(* The theorems.                                                             *)

\* The adapter never asks the firmware for its queue, and yet plans every
\* append and splice against it.  Between the operations of an active stream,
\* unless a stop is latched, its copy is right for plans, queues, windows and
\* links of every size: what the firmware has still to apply is what the
\* adapter believes to be ahead, under the same horizon and epoch, and the arms
\* are powered (bimanual_stream_adapter.py, append, splice and
\* _pump_finite_plan, against stream_session_v2.c).
THEOREM SpecHostKnowsQueue == Spec => []HostKnowsQueue
<1>1. ASSUME TypeInv, ScriptInv, ShapeInv, PowerInv, QueueInv
      PROVE  HostKnowsQueue
  <2> SUFFICES ASSUME host = "ACTIVE", job = "none", ~latched
               PROVE  /\ After(queue, now) = After(route, now)
                      /\ limit = horizon
                      /\ streamEpoch = epoch
                      /\ armsOn /\ enabled
    BY DEF HostKnowsQueue
  <2>1. asked = "NONE"
    BY <1>1, IdleWaitsNot
  <2>2. Holds(route, horizon)
    BY <1>1, <2>1 DEF QueueInv, StreamInv, Planned, InQuestion
  <2>3. armed /\ todo = <<>>
    BY <1>1 DEF ScriptInv, HostJob, ShapeInv, Shapes
  <2>4. Lacks(todo, "ARM") /\ Lacks(todo, "ENABLE")
    BY <2>3, ShortScripts
  <2>5. armsOn /\ enabled
    BY <1>1, <2>3, <2>4 DEF PowerInv, Powered
  <2> QED
    BY <2>2, <2>5 DEF Holds, Mirror
<1> QED
  BY <1>1, SpecTyped, SpecScripts, SpecShapes, SpecPower, SpecQueue, PTL

\* The adapter reports a finite plan as done only when all of it was sent, the
\* firmware has applied it up to its horizon and the tracking feedback is over:
\* what the poll has learned over several exchanges, any of which may be late,
\* is still true when it ends (bimanual_stream_adapter.py, poll).
THEOREM SpecReadyMeansDone == Spec => ReadyMeansDone
<1>1. ASSUME TypeInv, ScriptInv, StreamInv, Settled, PollInv, Next,
             host = "ACTIVE", host' = "READY"
      PROVE  /\ LastTick(route) = horizon /\ ~tracking
             /\ latched \/ (exec = "SUCCEEDED" /\ limit = horizon /\ anchored)
  <2>1. PollEnds /\ PlanDone
    BY <1>1 DEF Next, Operation, Prepare, RefreshUnarmedAnchor, Start, AppendPoints,
       SplicePoints, StrayClaim, Poll, Keepalive, PublishFeedback, StopStream,
       Exchange, AskPlain, Ask, Claim, OpenPlan, AskFirstBatch, AskAppend, AskSplice, Pump,
       GetAnswer, TimeOut, PrepareEnds, StartEnds, PollEnds, FeedbackEnds, StopEnds, FaultEnds,
       OtherEnds, Fault, Ends, Crash, Firmware, Environment, Loss, adapter, ScriptInv, HostJob
  <2>2. job = "poll" /\ todo = <<>> /\ asked = "NONE"
    BY <2>1 DEF PollEnds, Ends, Waiting
  <2>3. Completed
    BY <1>1, <2>1, <2>2 DEF PlanDone, PollInv
  <2>4. ~tracking
    BY <1>1, <2>1, <2>2, ShortScripts DEF PlanDone, PollInv
  <2>5. Holds(route, horizon)
    BY <1>1, <2>2 DEF StreamInv, Planned, InQuestion
  <2>6. ~latched => exec = "SUCCEEDED" /\ limit = horizon /\ anchored
    BY <1>1, <2>3, <2>4, <2>5 DEF Holds, Mirror, Completed, Settled
  <2> QED
    BY <2>3, <2>4, <2>6 DEF Completed
<1>2. ASSUME TypeInv, ScriptInv, QueueInv, Settled, PollInv, [Next]_vars
      PROVE  [host = "ACTIVE" /\ host' = "READY" =>
                  /\ LastTick(route) = horizon /\ ~tracking
                  /\ latched \/ (exec = "SUCCEEDED" /\ limit = horizon /\ anchored)]_vars
  BY <1>1, <1>2 DEF QueueInv
<1> QED
  BY <1>2, SpecTyped, SpecScripts, SpecQueue, SpecSettled, SpecPolls,
     PTL DEF Spec, ReadyMeansDone

===============================================================================
