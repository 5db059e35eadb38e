------------------------ MODULE TrackingFeedbackProofs ------------------------
(* Proofs about TrackingFeedback: whatever the joints, the failure limit and  *)
(* the settling, samples come from the joint that was asked, setpoints avoid   *)
(* requests, and the failure limit is not passed while the arms move.          *)
EXTENDS TrackingFeedback, TLAPS

\* What an arm has answered to the pending request, taken over or still in its
\* window, is about the joint of the request.
RequestMatches ==
    pending => \A a \in Arms :
                   a \notin open \/ reply[a] # "none" => origin[a] = joint

\* A bus is busy without a request only after a failed pair.
LeftOver == ~pending /\ failures = 0 => open = {}

\* A request is sent only while the settling still lacks pairs.
StillSettling == motion = "settling" /\ pending => steady < SettlePairs

IInv == TypeOK /\ RequestMatches /\ LeftOver /\ StillSettling

\* Joints follow each other in their range.
LEMMA FollowingIsJoint ==
    ASSUME NEW j \in Joint PROVE Following(j) \in Joint
<1>1. Joints \in Nat \ {0} /\ j \in Nat BY TrackingAssumption DEF Joint
<1>2. (j + 1) % Joints \in 0 .. Joints - 1 BY <1>1
<1> QED BY <1>2 DEF Following, Joint

LEMMA InitIInv == Init => IInv
<1>1. 0 \in Joint BY TrackingAssumption DEF Joint
<1>2. ASSUME Init PROVE TypeOK
  <2>1. /\ owed \in [Arms -> SUBSET Joint]
        /\ reply \in [Arms -> {"none", "position", "error"}]
        /\ origin \in [Arms -> Joint]
    BY <1>1, <1>2 DEF Init
  <2>2. /\ failures \in 0 .. FailureLimit /\ steady \in 0 .. SettlePairs
        /\ ~Moving
    BY <1>2, TrackingAssumption DEF Init, Moving
  <2>3. joint \in Joint /\ next \in Joint BY <1>1, <1>2 DEF Init
  <2> QED BY <1>2, <2>1, <2>2, <2>3 DEF Init, TypeOK
<1> QED BY <1>2 DEF Init, IInv, RequestMatches, LeftOver, StillSettling

\* A request that ends leaves its arms well typed.
LEMMA PairEndsTypes ==
    ASSUME PairEnds PROVE pending' \in BOOLEAN /\ expired' \in BOOLEAN
                          /\ origin' \in [Arms -> Joint]
<1>1. 0 \in Joint BY TrackingAssumption DEF Joint
<1> QED BY <1>1 DEF PairEnds

LEMMA PolledTypes ==
    ASSUME TypeOK, Polled
    PROVE  /\ open' \subseteq Arms /\ sent' \subseteq Arms
           /\ fault' \subseteq Arms /\ UNCHANGED owed
           /\ reply' \in [Arms -> {"none", "position", "error"}]
BY DEF TypeOK, Polled

\* Every step keeps the types, the limit of failures and that of the settling.
LEMMA NextTypeOK ==
    ASSUME IInv, [Next]_vars
    PROVE  TypeOK'
<1> USE TrackingAssumption DEF IInv, TypeOK, StillSettling, Moving,
            Arms, bus, request, control, settling
<1> 0 \in Joint BY TrackingAssumption DEF Joint
<1>1. CASE Begin
  <2>1. /\ reply' \in [Arms -> {"none", "position", "error"}]
        /\ origin' \in [Arms -> Joint] /\ joint' \in Joint /\ next' \in Joint
    BY <1>1 DEF Begin
  <2>2. /\ failures' \in 0 .. FailureLimit /\ failures' < FailureLimit
        /\ steady' \in 0 .. SettlePairs /\ motion' = "running"
        /\ loop' = "poll"
        /\ UNCHANGED owed
    BY <1>1 DEF Begin
  <2>3. /\ pending' \in BOOLEAN /\ expired' \in BOOLEAN /\ phase' = "ready"
        /\ due' \in BOOLEAN /\ event' = "none" /\ late' \in BOOLEAN
        /\ clean' \in BOOLEAN /\ atGoal' \subseteq Joint
        /\ open' = {} /\ sent' = {} /\ fault' = {}
    BY <1>1 DEF Begin
  <2> QED BY <2>1, <2>2, <2>3
<1>2. CASE PollNothing
  BY <1>2 DEF PollNothing, Polling
<1>3. CASE PollWaits
  BY <1>3 DEF PollWaits, Polling, Polled
<1>4. CASE PollFails
  BY <1>4, PolledTypes, PairEndsTypes DEF PollFails, Polling, TooMany, Stops
<1>5. CASE PollSample
  BY <1>5, PolledTypes, PairEndsTypes DEF PollSample, Polling, Steadied
<1>6. CASE PollTrackingError
  BY <1>6, PolledTypes, PairEndsTypes DEF PollTrackingError, Polling, Stops
<1>7. CASE NoRequest
  BY <1>7 DEF NoRequest, Requesting
<1>8. CASE Request
  BY <1>8, FollowingIsJoint DEF Request, Requesting, MayRequest, Following
<1>9. CASE RequestRefused
  BY <1>9 DEF RequestRefused, Stops
<1>10. CASE RequestFails
  BY <1>10 DEF RequestFails, Stops
<1>11. CASE SettleFails
  BY <1>11 DEF SettleFails, Stops
<1>12. CASE SettleEnds
  BY <1>12 DEF SettleEnds, Settling, Settled
<1>13. CASE SettleGoesOn
  BY <1>13 DEF SettleGoesOn
<1>14. CASE NoControlEvent
  BY <1>14 DEF NoControlEvent
<1>15. CASE ControlLate
  BY <1>15 DEF ControlLate, Stops
<1>16. CASE Launch
  <2>1. /\ UNCHANGED <<pending, joint, expired, failures, open, sent, owed,
                       reply, origin, fault>>
        /\ event' = "none" /\ phase' = "busy" /\ loop' = "poll"
        /\ motion = "running" /\ motion' \in {"running", "settling"}
    BY <1>16 DEF Launch, Controlling
  <2>2. next' \in Joint
    <3>1. next' = next \/ next' = 0 BY <1>16 DEF Launch
    <3> QED BY <3>1
  <2>3. /\ due' \in BOOLEAN /\ steady' \in 0 .. SettlePairs
        /\ late' \in BOOLEAN /\ atGoal' \subseteq Joint /\ clean' \in BOOLEAN
    <3>1. CASE UNCHANGED settling /\ UNCHANGED due BY <3>1
    <3>2. CASE /\ due' = FALSE /\ steady' = 0 /\ late' = FALSE
               /\ atGoal' = {} /\ clean' = TRUE
      <4>1. steady' \in 0 .. SettlePairs BY <3>2
      <4>2. due' \in BOOLEAN /\ late' \in BOOLEAN /\ clean' \in BOOLEAN
        BY <3>2
      <4> QED BY <3>2, <4>1, <4>2
    <3> QED BY <1>16, <3>1, <3>2 DEF Launch
  <2> QED BY <2>1, <2>2, <2>3
<1>17. CASE TxComplete
  BY <1>17 DEF TxComplete
<1>18. CASE Reply
  <2>1. PICK a \in Arms : \E j \in owed[a], answer \in {"position", "error"} :
           /\ owed' = [owed EXCEPT ![a] = @ \ {j}]
           /\ \/ /\ reply' = [reply EXCEPT ![a] = answer]
                 /\ origin' = [origin EXCEPT ![a] = j]
              \/ UNCHANGED <<reply, origin>>
    BY <1>18 DEF Reply
  <2>2. owed[a] \subseteq Joint BY <2>1
  <2>3. PICK j \in Joint, answer \in {"position", "error"} :
           /\ owed' = [owed EXCEPT ![a] = @ \ {j}]
           /\ \/ /\ reply' = [reply EXCEPT ![a] = answer]
                 /\ origin' = [origin EXCEPT ![a] = j]
              \/ UNCHANGED <<reply, origin>>
    BY <2>1, <2>2
  <2>4. owed' \in [Arms -> SUBSET Joint] BY <2>2, <2>3
  <2>5. reply' \in [Arms -> {"none", "position", "error"}] BY <2>3
  <2>6. origin' \in [Arms -> Joint] BY <2>3
  <2>7. UNCHANGED <<motion, loop, pending, joint, expired, next, failures,
                    open, sent, fault, phase, due, event, steady, late,
                    atGoal, clean>>
    BY <1>18 DEF Reply
  <2> QED BY <2>4, <2>5, <2>6, <2>7
<1>19. CASE Silence
  BY <1>19 DEF Silence
<1>20. CASE UartError
  BY <1>20 DEF UartError
<1>21. CASE Deadline
  BY <1>21 DEF Deadline
<1>22. CASE SettleDeadline
  BY <1>22 DEF SettleDeadline
<1>23. CASE ControlTimer
  BY <1>23 DEF ControlTimer
<1>24. CASE DispatchEnds
  BY <1>24 DEF DispatchEnds
<1>25. CASE UNCHANGED vars BY <1>25 DEF vars
<1> QED
  BY <1>1, <1>2, <1>3, <1>4, <1>5, <1>6, <1>7, <1>8, <1>9, <1>10, <1>11,
     <1>12, <1>13, <1>14, <1>15, <1>16, <1>17, <1>18, <1>19, <1>20, <1>21, <1>22,
     <1>23, <1>24, <1>25
  DEF Next, Service, Environment

\* Every step keeps answers with their request, and requests with the motion.
LEMMA NextRequest ==
    ASSUME IInv, [Next]_vars
    PROVE  /\ RequestMatches' /\ LeftOver' /\ StillSettling'
<1> USE TrackingAssumption DEF IInv, TypeOK, RequestMatches, LeftOver,
            StillSettling, bus, request, control, settling
<1>1. CASE Begin
  BY <1>1 DEF Begin
<1>2. CASE PollNothing
  BY <1>2 DEF PollNothing, Polling
<1>3. CASE PollWaits
  BY <1>3 DEF PollWaits, Polled, Answered, Arms
<1>4. CASE PollFails
  BY <1>4 DEF PollFails, Polling, Polled, PairEnds, TooMany, Stops
<1>5. CASE PollSample
  BY <1>5 DEF PollSample, Polled, PairEnds, Answered, Steadied, Arms
<1>6. CASE PollTrackingError
  BY <1>6 DEF PollTrackingError, Polled, PairEnds, Answered, Stops, Arms
<1>7. CASE NoRequest
  BY <1>7 DEF NoRequest, Requesting
<1>8. CASE Request
  BY <1>8 DEF Request, Requesting, MayRequest, Following
<1>9. CASE RequestRefused
  BY <1>9 DEF RequestRefused, Stops
<1>10. CASE RequestFails
  BY <1>10 DEF RequestFails, Stops
<1>11. CASE SettleFails
  BY <1>11 DEF SettleFails, Stops
<1>12. CASE SettleEnds
  BY <1>12 DEF SettleEnds, Settling, Settled
<1>13. CASE SettleGoesOn
  BY <1>13 DEF SettleGoesOn
<1>14. CASE NoControlEvent
  BY <1>14 DEF NoControlEvent
<1>15. CASE ControlLate
  BY <1>15 DEF ControlLate, Stops
<1>16. CASE Launch
  BY <1>16 DEF Launch, Controlling, MayLaunch
<1>17. CASE TxComplete
  BY <1>17 DEF TxComplete
<1>18. CASE Reply
  BY <1>18 DEF Reply, Accepted
<1>19. CASE Silence
  BY <1>19 DEF Silence
<1>20. CASE UartError
  BY <1>20 DEF UartError
<1>21. CASE Deadline
  BY <1>21 DEF Deadline
<1>22. CASE SettleDeadline
  BY <1>22 DEF SettleDeadline
<1>23. CASE ControlTimer
  BY <1>23 DEF ControlTimer
<1>24. CASE DispatchEnds
  BY <1>24 DEF DispatchEnds
<1>25. CASE UNCHANGED vars BY <1>25 DEF vars
<1> QED
  BY <1>1, <1>2, <1>3, <1>4, <1>5, <1>6, <1>7, <1>8, <1>9, <1>10, <1>11,
     <1>12, <1>13, <1>14, <1>15, <1>16, <1>17, <1>18, <1>19, <1>20, <1>21, <1>22,
     <1>23, <1>24, <1>25
  DEF Next, Service, Environment

-----------------------------------------------------------------------------
LEMMA SpecIInv == Spec => []IInv
<1>1. IInv /\ [Next]_vars => IInv'
  BY NextTypeOK, NextRequest DEF IInv
<1> QED BY InitIInv, <1>1, PTL DEF Spec

\* Types hold throughout; while the arms move, fewer pairs have failed in a row
\* than the limit (RecordPairFailure).
THEOREM SpecTypeOK == Spec => []TypeOK
<1>1. IInv => TypeOK BY DEF IInv
<1> QED BY SpecIInv, <1>1, PTL

\* The positions of a sample came from the joint that it is compared for, on
\* both arms (BimanualTrackingFeedback_Poll).
THEOREM SpecSamplesMatch == Spec => SamplesMatch
<1>1. IInv /\ [Next]_vars =>
        [PollSample \/ PollTrackingError
            => \A a \in Arms : origin[a] = joint]_vars
  BY DEF IInv, RequestMatches, PollSample, PollTrackingError, Answered
<1> QED BY SpecIInv, <1>1, PTL DEF Spec, SamplesMatch

\* No setpoint is put on a bus that is busy with a request, unless the last
\* pair failed (Host_ServiceV2Executor).
THEOREM SpecSetpointsAvoidRequests == Spec => SetpointsAvoidRequests
<1>1. IInv /\ [Next]_vars => [Launch /\ failures = 0 => open = {}]_vars
  BY DEF IInv, LeftOver, Launch, MayLaunch
<1> QED BY SpecIInv, <1>1, PTL DEF Spec, SetpointsAvoidRequests

-----------------------------------------------------------------------------
(* The settling reads the joints in turn.                                    *)

\* The joint that is read, or will be.
Cursor == IF pending THEN joint ELSE next

\* How many pairs ago a joint was read, when c is the joint to be read.
Behind(c, j) == IF j < c THEN c - j ELSE c - j + Joints

\* A joint read since the settling was last off the goal was at its goal.
SteadyAtGoal ==
    motion = "settling" /\ clean =>
        \A j \in Joint : Behind(Cursor, j) <= steady => j \in atGoal

TurnOrder == pending => next = Following(joint)

\* Every joint that is read moves the others one pair into the past.
LEMMA BehindFollowing ==
    ASSUME NEW c \in Joint, NEW j \in Joint
    PROVE  /\ Behind(c, j) \in 1 .. Joints
           /\ j # c => Behind(Following(c), j) = Behind(c, j) + 1
<1>1. Joints \in Nat \ {0} /\ c \in 0 .. Joints - 1 /\ j \in 0 .. Joints - 1
  BY TrackingAssumption DEF Joint
<1>2. Following(c) = IF c + 1 = Joints THEN 0 ELSE c + 1
  BY <1>1 DEF Following
<1> QED
  BY <1>1, <1>2 DEF Behind

\* A pair at the goal counts for its joint; one off the goal starts over.
LEMMA SampleKeepsSteady ==
    ASSUME IInv, TurnOrder, SteadyAtGoal, PollSample
    PROVE  SteadyAtGoal'
<1> SUFFICES ASSUME motion = "settling", clean, NEW j \in Joint,
                    Behind(Cursor', j) <= steady'
             PROVE  j \in atGoal'
  BY DEF SteadyAtGoal, PollSample
<1>1. /\ pending /\ ~pending' /\ next' = Following(joint) /\ joint \in Joint
      /\ \A k \in Joint : Behind(joint, k) <= steady => k \in atGoal
      /\ steady \in Nat
  BY DEF IInv, TypeOK, TurnOrder, SteadyAtGoal, Cursor, PollSample, PairEnds
<1>2. Cursor' = Following(joint)
  BY <1>1 DEF Cursor
<1>3. Following(joint) \in Joint
  BY <1>1, FollowingIsJoint
<1>4. /\ steady' = 0 \/ steady' = steady + 1
      /\ steady' = steady + 1 => atGoal' = atGoal \cup {joint}
  BY <1>1 DEF PollSample, Steadied
<1>5. steady' = steady + 1
  BY <1>2, <1>3, <1>4, BehindFollowing
<1>6. CASE j = joint
  BY <1>4, <1>5, <1>6
<1>7. CASE j # joint
  <2>1. Behind(joint, j) + 1 <= steady + 1 /\ Behind(joint, j) \in 1 .. Joints
    BY <1>1, <1>2, <1>5, <1>7, BehindFollowing
  <2>2. Behind(joint, j) <= steady
    BY <1>1, <2>1
  <2> QED
    BY <1>1, <1>4, <1>5, <2>2
<1> QED
  BY <1>6, <1>7

\* Every step keeps the turns, and what they say of the goal.
LEMMA NextSteady ==
    ASSUME IInv, TurnOrder, SteadyAtGoal, [Next]_vars
    PROVE  TurnOrder' /\ SteadyAtGoal'
<1> USE DEF bus, request, control, settling
<1>1. CASE UNCHANGED <<pending, joint, next, steady, atGoal, clean>>
           /\ motion' \in {motion, "stopped", "settled"}
  BY <1>1 DEF TurnOrder, SteadyAtGoal, Cursor
<1>2. CASE Begin
  BY <1>2 DEF Begin, TurnOrder, SteadyAtGoal
<1>3. CASE PollFails
  BY <1>3 DEF PollFails, PairEnds, Stops, TurnOrder, SteadyAtGoal
<1>4. CASE PollSample
  <2>1. TurnOrder'
    BY <1>4 DEF PollSample, PairEnds, TurnOrder
  <2> QED
    BY <1>4, <2>1, SampleKeepsSteady
<1>5. CASE PollTrackingError
  BY <1>5 DEF PollTrackingError, PairEnds, Stops, TurnOrder, SteadyAtGoal
<1>6. CASE Request
  BY <1>6 DEF Request, MayRequest, TurnOrder, SteadyAtGoal, Cursor
<1>7. CASE Launch
  <2>1. ~pending' /\ ~pending /\ motion = "running"
    BY <1>7 DEF Launch, MayLaunch, Controlling
  <2>2. CASE UNCHANGED <<motion, next, due, settling>>
    BY <2>1, <2>2 DEF TurnOrder, SteadyAtGoal
  <2>3. CASE next' = 0 /\ steady' = 0
    <3>1. Cursor' = 0 /\ 0 \in Joint
      BY <2>1, <2>3, TrackingAssumption DEF Cursor, Joint
    <3>2. \A j \in Joint : ~(Behind(Cursor', j) <= steady')
      BY <3>1, <2>3, BehindFollowing
    <3> QED
      BY <2>1, <3>2 DEF TurnOrder, SteadyAtGoal
  <2> QED
    BY <1>7, <2>2, <2>3 DEF Launch
<1>8. CASE \/ PollNothing \/ PollWaits \/ NoRequest \/ RequestRefused
           \/ RequestFails \/ SettleFails \/ SettleEnds \/ SettleGoesOn
           \/ NoControlEvent \/ ControlLate
  BY <1>1, <1>8
     DEF PollNothing, PollWaits, NoRequest, RequestRefused, RequestFails,
         SettleFails, SettleEnds, SettleGoesOn, NoControlEvent, ControlLate, Stops
<1>9. CASE Environment
  BY <1>1, <1>9
     DEF Environment, TxComplete, Reply, Silence, UartError, Deadline,
         SettleDeadline, ControlTimer, DispatchEnds
<1>10. CASE UNCHANGED vars
  BY <1>1, <1>10 DEF vars
<1> QED
  BY <1>2, <1>3, <1>4, <1>5, <1>6, <1>7, <1>8, <1>9, <1>10 DEF Next, Service

LEMMA SpecSteady == Spec => [](TurnOrder /\ SteadyAtGoal)
<1>1. Init => TurnOrder /\ SteadyAtGoal
  BY DEF Init, TurnOrder, SteadyAtGoal
<1>2. IInv /\ TurnOrder /\ SteadyAtGoal /\ [Next]_vars
         => TurnOrder' /\ SteadyAtGoal'
  BY NextSteady
<1> QED
  BY <1>1, <1>2, SpecIInv, PTL DEF Spec

\* When the arms are taken as settled, and no pair failed meanwhile, every joint
\* was last measured at its goal: as many pairs in a row as there are joints
\* reach every one of them (Host_ServiceV2TrackingFeedback).
THEOREM SpecSettledAtGoal == Spec => SettledAtGoal
<1>1. IInv /\ SteadyAtGoal /\ [Next]_vars => [SettleEnds /\ clean => atGoal = Joint]_vars
  <2> SUFFICES ASSUME IInv, SteadyAtGoal, SettleEnds, clean
               PROVE  atGoal = Joint
    OBVIOUS
  <2>1. /\ motion = "settling" /\ Cursor = next /\ next \in Joint
        /\ steady >= SettlePairs /\ steady \in Nat /\ atGoal \subseteq Joint
    BY DEF SettleEnds, Settling, Settled, Cursor, IInv, TypeOK
  <2>2. SettlePairs \in Nat /\ Joints \in Nat /\ SettlePairs >= Joints
    BY TrackingAssumption, SettlingAssumption
  <2>3. \A j \in Joint : Behind(Cursor, j) <= steady
    BY <2>1, <2>2, BehindFollowing
  <2> QED
    BY <2>1, <2>3 DEF SteadyAtGoal
<1> QED
  BY <1>1, SpecIInv, SpecSteady, PTL DEF Spec, SettledAtGoal

=============================================================================
