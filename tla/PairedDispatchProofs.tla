------------------------- MODULE PairedDispatchProofs -------------------------
(* Proofs about PairedDispatch: for any number of launches, and interrupts    *)
(* between any two statements, the arms stay in lockstep, a fault ends the    *)
(* output, and the dispatch implements PairedCycle, whose own promise is      *)
(* proved here too.                                                          *)
EXTENDS PairedDispatch, TLAPS

\* Packets of an arm that were started and not aborted.
Sending(arm) == IF tx[arm] = "dispatch" THEN 1 ELSE 0
Started(arm) == sent[arm] + Sending(arm)

\* The arms whose packet of the open pair was started.
Open == IF pc = "startRight" THEN {LEFT}
        ELSE IF active \/ pc \in {"begin", "commit"} THEN Arms ELSE {}

\* Where a launch is, as long as nothing has failed.
InLaunch == ~faulted /\ pc \notin {"idle", "ending"} => ~active /\ launching

\* An arm was started the completed pairs, and its half of the open one.
PairStarted ==
    ~faulted => \A arm \in Arms :
        Started(arm) = IF arm \in Open THEN completions + 1 ELSE completions

\* Between two pairs nothing is on the buses,
BetweenPairs ==
    ~faulted /\ ~active /\ pc \in {"idle", "startLeft", "ending"} =>
        tx[LEFT] # "dispatch" /\ tx[RIGHT] # "dispatch"

\* and in a cycle the arms that have reported are done, and not both.
InCycle ==
    ~faulted /\ active =>
        /\ \A arm \in complete : tx[arm] # "dispatch"
        /\ complete # Arms

Counted ==
    ~faulted => IF active THEN launches = completions + 1
                          ELSE launches = completions

\* A bus that carries a setpoint packet, or just did, carries no request.
SetpointsOnly ==
    ~faulted =>
        /\ active \/ pc \in {"startRight", "begin", "commit"} =>
              tx[LEFT] # "request"
        /\ active \/ pc \in {"begin", "commit"} => tx[RIGHT] # "request"

\* What failures leave intact: an arm is started the pair after the completed
\* ones at most,
OneMore ==
    \A arm \in Arms : completions <= sent[arm] /\ Started(arm) <= completions + 1

\* and what a launch has yet to start, the arm has not been sent before.
Unsent(arm) == tx[arm] # "dispatch" /\ sent[arm] = completions

Owed ==
    /\ pc \in {"startLeft", "startRight"} => ~active
    /\ pc = "startLeft" => Unsent(LEFT) /\ Unsent(RIGHT)
    /\ pc = "startRight" => Unsent(RIGHT)

Progress == InLaunch /\ PairStarted /\ BetweenPairs /\ InCycle /\ Counted
            /\ SetpointsOnly

IInv == TypeOK /\ Progress /\ OneMore /\ Owed

USE DispatchAssumption DEF Arms

LEMMA InitIInv == Init => IInv
<1> SUFFICES ASSUME Init PROVE IInv OBVIOUS
<1> USE DEF Init, Quiet
<1>1. TypeOK BY DEF TypeOK
<1>2. \A arm \in Arms : tx[arm] # "dispatch" /\ sent[arm] = 0 OBVIOUS
<1>3. \A arm \in Arms : Started(arm) = 0 BY <1>2 DEF Started, Sending
<1>4. Progress
  BY <1>2, <1>3 DEF Progress, InLaunch, PairStarted, Open, BetweenPairs, InCycle,
                    Counted, SetpointsOnly
<1>5. OneMore /\ Owed BY <1>2, <1>3 DEF OneMore, Owed
<1> QED BY <1>1, <1>4, <1>5 DEF IInv

-----------------------------------------------------------------------------
(* Each step of the main loop and each interrupt preserves the invariant.    *)

\* A step that only fails the dispatch: packets may be aborted, the launch
\* given up.  Its promises about the open pair are then off.
LEMMA FaultIInv ==
    ASSUME IInv, TypeOK', Fail, pc' \in {pc, "idle"},
           \A arm \in Arms : tx'[arm] \in {tx[arm], "none"},
           sent' = sent, completions' = completions
    PROVE  IInv'
<1> USE DEF IInv, TypeOK, Fail
<1>1. Progress'
  BY DEF Progress, InLaunch, PairStarted, BetweenPairs, InCycle, Counted,
         SetpointsOnly
<1>2. OneMore' BY DEF OneMore, Started, Sending
<1>3. Owed' BY DEF Owed, Unsent
<1> QED BY <1>1, <1>2, <1>3

LEMMA LaunchRefusedIInv ==
    ASSUME IInv, LaunchRefused
    PROVE  IInv'
<1>1. TypeOK' BY DEF IInv, TypeOK, LaunchRefused, Fail, counts
<1> QED BY <1>1, FaultIInv DEF IInv, TypeOK, LaunchRefused, counts

LEMMA LaunchBeginsIInv ==
    ASSUME IInv, LaunchBegins
    PROVE  IInv'
<1> USE DEF IInv, TypeOK, Progress, LaunchBegins, CanLaunch, counts
<1>1. TypeOK' OBVIOUS
<1>2. InLaunch' BY DEF InLaunch, Owed
<1>3. PairStarted'
  BY DEF PairStarted, Open, Started, Sending, InLaunch, BetweenPairs, InCycle
<1>4. BetweenPairs' BY DEF BetweenPairs, InLaunch, InCycle
<1>5. InCycle' BY DEF InCycle, InLaunch, BetweenPairs
<1>6. Counted' BY DEF Counted, InLaunch
<1>7. SetpointsOnly' BY DEF SetpointsOnly, InLaunch
<1>8. OneMore'
  BY DEF OneMore, Owed, Unsent, PairStarted, Open, Started, Sending, InLaunch,
         InCycle
<1>9. Owed'
  BY DEF Owed, Unsent, InLaunch, BetweenPairs, PairStarted, Open, Started,
         Sending
<1> QED BY <1>1, <1>2, <1>3, <1>4, <1>5, <1>6, <1>7, <1>8, <1>9

LEMMA LaunchLeftIInv ==
    ASSUME IInv, LaunchLeft
    PROVE  IInv'
<1> USE DEF IInv, TypeOK, Progress, LaunchLeft, Transmit, counts
<1>1. TypeOK' OBVIOUS
<1>2. InLaunch' BY DEF InLaunch, Owed
<1>3. PairStarted'
  BY DEF PairStarted, Open, Started, Sending, InLaunch, BetweenPairs, InCycle
<1>4. BetweenPairs' BY DEF BetweenPairs, InLaunch, InCycle
<1>5. InCycle' BY DEF InCycle, InLaunch, BetweenPairs
<1>6. Counted' BY DEF Counted, InLaunch
<1>7. SetpointsOnly' BY DEF SetpointsOnly, InLaunch
<1>8. OneMore'
  BY DEF OneMore, Owed, Unsent, PairStarted, Open, Started, Sending, InLaunch,
         InCycle
<1>9. Owed'
  BY DEF Owed, Unsent, InLaunch, BetweenPairs, PairStarted, Open, Started,
         Sending
<1> QED BY <1>1, <1>2, <1>3, <1>4, <1>5, <1>6, <1>7, <1>8, <1>9

LEMMA LaunchLeftFailsIInv ==
    ASSUME IInv, LaunchLeftFails
    PROVE  IInv'
<1>1. TypeOK' BY DEF IInv, TypeOK, LaunchLeftFails, Fail, counts
<1> QED BY <1>1, FaultIInv DEF IInv, TypeOK, LaunchLeftFails, counts

LEMMA LaunchRightIInv ==
    ASSUME IInv, LaunchRight
    PROVE  IInv'
<1> USE DEF IInv, TypeOK, Progress, LaunchRight, Transmit, counts
<1>1. TypeOK' OBVIOUS
<1>2. InLaunch' BY DEF InLaunch, Owed
<1>3. PairStarted'
  BY DEF PairStarted, Open, Started, Sending, InLaunch, BetweenPairs, InCycle
<1>4. BetweenPairs' BY DEF BetweenPairs, InLaunch, InCycle
<1>5. InCycle' BY DEF InCycle, InLaunch, BetweenPairs
<1>6. Counted' BY DEF Counted, InLaunch
<1>7. SetpointsOnly' BY DEF SetpointsOnly, InLaunch
<1>8. OneMore'
  BY DEF OneMore, Owed, Unsent, PairStarted, Open, Started, Sending, InLaunch,
         InCycle
<1>9. Owed'
  BY DEF Owed, Unsent, InLaunch, BetweenPairs, PairStarted, Open, Started,
         Sending
<1> QED BY <1>1, <1>2, <1>3, <1>4, <1>5, <1>6, <1>7, <1>8, <1>9

LEMMA LaunchRightFailsIInv ==
    ASSUME IInv, LaunchRightFails
    PROVE  IInv'
<1>1. TypeOK' BY DEF IInv, TypeOK, LaunchRightFails, Fail, counts
<1> QED BY <1>1, FaultIInv DEF IInv, TypeOK, LaunchRightFails, counts

LEMMA BeginRefusedIInv ==
    ASSUME IInv, BeginRefused
    PROVE  IInv'
<1>1. TypeOK' BY DEF IInv, TypeOK, BeginRefused, Fail, counts, Quiet
<1> QED BY <1>1, FaultIInv DEF IInv, TypeOK, BeginRefused, counts, Quiet

LEMMA BeginCheckedIInv ==
    ASSUME IInv, BeginChecked
    PROVE  IInv'
<1> USE DEF IInv, TypeOK, Progress, BeginChecked, counts
<1>1. TypeOK' OBVIOUS
<1>2. InLaunch' BY DEF InLaunch, Owed
<1>3. PairStarted'
  BY DEF PairStarted, Open, Started, Sending, InLaunch, BetweenPairs, InCycle
<1>4. BetweenPairs' BY DEF BetweenPairs, InLaunch, InCycle
<1>5. InCycle' BY DEF InCycle, InLaunch, BetweenPairs
<1>6. Counted' BY DEF Counted, InLaunch
<1>7. SetpointsOnly' BY DEF SetpointsOnly, InLaunch
<1>8. OneMore'
  BY DEF OneMore, Owed, Unsent, PairStarted, Open, Started, Sending, InLaunch,
         InCycle
<1>9. Owed'
  BY DEF Owed, Unsent, InLaunch, BetweenPairs, PairStarted, Open, Started,
         Sending
<1> QED BY <1>1, <1>2, <1>3, <1>4, <1>5, <1>6, <1>7, <1>8, <1>9

LEMMA BeginCommitIInv ==
    ASSUME IInv, BeginCommit
    PROVE  IInv'
<1> USE DEF IInv, TypeOK, Progress, BeginCommit
<1>1. TypeOK'
  <2>1. /\ pc' \in {"idle", "startLeft", "startRight", "begin", "commit", "ending"}
        /\ launching' \in BOOLEAN
    OBVIOUS
  <2>2. active' \in BOOLEAN /\ faulted' \in BOOLEAN OBVIOUS
  <2>3. complete' \subseteq Arms OBVIOUS
  <2>4. launches' \in Nat /\ completions' \in Nat OBVIOUS
  <2>5. tx' \in [Arms -> {"none", "dispatch", "request"}] OBVIOUS
  <2>6. sent' \in [Arms -> Nat] OBVIOUS
  <2> QED BY <2>1, <2>2, <2>3, <2>4, <2>5, <2>6
<1>2. InLaunch' BY DEF InLaunch, Owed
<1>3. PairStarted'
  BY DEF PairStarted, Open, Started, Sending, InLaunch, BetweenPairs, InCycle
<1>4. BetweenPairs' BY DEF BetweenPairs, InLaunch, InCycle
<1>5. InCycle' BY DEF InCycle, InLaunch, BetweenPairs
<1>6. Counted' BY DEF Counted, InLaunch
<1>7. SetpointsOnly' BY DEF SetpointsOnly, InLaunch
<1>8. OneMore'
  BY DEF OneMore, Owed, Unsent, PairStarted, Open, Started, Sending, InLaunch,
         InCycle
<1>9. Owed'
  BY DEF Owed, Unsent, InLaunch, BetweenPairs, PairStarted, Open, Started,
         Sending
<1> QED BY <1>1, <1>2, <1>3, <1>4, <1>5, <1>6, <1>7, <1>8, <1>9

LEMMA LaunchEndsIInv ==
    ASSUME IInv, LaunchEnds
    PROVE  IInv'
<1> USE DEF IInv, TypeOK, Progress, LaunchEnds, counts
<1>1. TypeOK' OBVIOUS
<1>2. InLaunch' BY DEF InLaunch, Owed
<1>3. PairStarted'
  BY DEF PairStarted, Open, Started, Sending, InLaunch, BetweenPairs, InCycle
<1>4. BetweenPairs' BY DEF BetweenPairs, InLaunch, InCycle
<1>5. InCycle' BY DEF InCycle, InLaunch, BetweenPairs
<1>6. Counted' BY DEF Counted, InLaunch
<1>7. SetpointsOnly' BY DEF SetpointsOnly, InLaunch
<1>8. OneMore'
  BY DEF OneMore, Owed, Unsent, PairStarted, Open, Started, Sending, InLaunch,
         InCycle
<1>9. Owed'
  BY DEF Owed, Unsent, InLaunch, BetweenPairs, PairStarted, Open, Started,
         Sending
<1> QED BY <1>1, <1>2, <1>3, <1>4, <1>5, <1>6, <1>7, <1>8, <1>9

LEMMA TxCompleteIInv ==
    ASSUME IInv, NEW arm \in Arms, OnTxComplete(arm)
    PROVE  IInv'
<1> USE DEF IInv, TypeOK, Progress, OnTxComplete, Complete, PairDone, Fail
<1>1. TypeOK'
  <2>1. /\ pc' \in {"idle", "startLeft", "startRight", "begin", "commit", "ending"}
        /\ launching' \in BOOLEAN
    OBVIOUS
  <2>2. active' \in BOOLEAN /\ faulted' \in BOOLEAN OBVIOUS
  <2>3. complete' \subseteq Arms OBVIOUS
  <2>4. launches' \in Nat /\ completions' \in Nat OBVIOUS
  <2>5. tx' \in [Arms -> {"none", "dispatch", "request"}] OBVIOUS
  <2>6. sent' \in [Arms -> Nat] OBVIOUS
  <2> QED BY <2>1, <2>2, <2>3, <2>4, <2>5, <2>6
<1>2. InLaunch' BY DEF InLaunch, Owed
<1>3. PairStarted'
  BY DEF PairStarted, Open, Started, Sending, InLaunch, BetweenPairs, InCycle
<1>4. BetweenPairs' BY DEF BetweenPairs, InLaunch, InCycle
<1>5. InCycle' BY DEF InCycle, InLaunch, BetweenPairs
<1>6. Counted' BY DEF Counted, InLaunch
<1>7. SetpointsOnly' BY DEF SetpointsOnly, InLaunch
<1>8. OneMore'
  BY DEF OneMore, Owed, Unsent, PairStarted, Open, Started, Sending, InLaunch,
         InCycle
<1>9. Owed'
  BY DEF Owed, Unsent, InLaunch, BetweenPairs, PairStarted, Open, Started,
         Sending
<1> QED BY <1>1, <1>2, <1>3, <1>4, <1>5, <1>6, <1>7, <1>8, <1>9

LEMMA UartErrorIInv ==
    ASSUME IInv, NEW arm \in Arms, OnUartError(arm)
    PROVE  IInv'
<1>1. TypeOK' BY DEF IInv, TypeOK, OnUartError, Fail, counts
<1>2. CASE launching \/ active
  BY <1>1, <1>2, FaultIInv DEF IInv, TypeOK, OnUartError, counts
<1>3. CASE ~(launching \/ active)
  <2> USE <1>3 DEF IInv, TypeOK, Progress, OnUartError, counts
  <2>1. InLaunch' BY DEF InLaunch
  <2>2. PairStarted'
    BY DEF PairStarted, Open, Started, Sending, InLaunch, BetweenPairs
  <2>3. BetweenPairs' /\ InCycle' /\ Counted'
    BY DEF BetweenPairs, InCycle, Counted
  <2>4. SetpointsOnly' BY DEF SetpointsOnly
  <2>5. OneMore' BY DEF OneMore, Started, Sending
  <2>6. Owed' BY DEF Owed, Unsent
  <2> QED BY <1>1, <2>1, <2>2, <2>3, <2>4, <2>5, <2>6
<1> QED BY <1>2, <1>3

LEMMA StopIInv ==
    ASSUME IInv, Stop
    PROVE  IInv'
<1>1. TypeOK' BY DEF IInv, TypeOK, Stop, Quiet, Fail, counts
<1>2. CASE active BY <1>1, <1>2, FaultIInv DEF IInv, TypeOK, Stop, Quiet, counts
<1>3. CASE ~active
  <2> USE <1>3 DEF IInv, TypeOK, Progress, Stop, Quiet, counts
  <2>1. InLaunch' /\ InCycle' /\ BetweenPairs' /\ SetpointsOnly' /\ Counted'
    BY DEF InLaunch, InCycle, BetweenPairs, SetpointsOnly, Counted
  <2>2. PairStarted'
    BY DEF PairStarted, Open, Started, Sending, BetweenPairs
  <2>3. OneMore' BY DEF OneMore, Started, Sending
  <2>4. Owed' BY DEF Owed
  <2> QED BY <1>1, <2>1, <2>2, <2>3, <2>4
<1> QED BY <1>2, <1>3

LEMMA LatchFaultIInv ==
    ASSUME IInv, LatchFault
    PROVE  IInv'
<1>1. TypeOK' BY DEF IInv, TypeOK, LatchFault, Fail, counts, Quiet
<1> QED BY <1>1, FaultIInv DEF IInv, TypeOK, LatchFault, counts, Quiet

LEMMA RequestPositionIInv ==
    ASSUME IInv, NEW arm \in Arms, RequestPosition(arm)
    PROVE  IInv'
<1> USE DEF IInv, TypeOK, Progress, RequestPosition, CanLaunch, counts
<1>1. TypeOK' OBVIOUS
<1>2. InLaunch' BY DEF InLaunch, Owed
<1>3. PairStarted'
  BY DEF PairStarted, Open, Started, Sending, InLaunch, BetweenPairs, InCycle
<1>4. BetweenPairs' BY DEF BetweenPairs, InLaunch, InCycle
<1>5. InCycle' BY DEF InCycle, InLaunch, BetweenPairs
<1>6. Counted' BY DEF Counted, InLaunch
<1>7. SetpointsOnly' BY DEF SetpointsOnly, InLaunch
<1>8. OneMore'
  BY DEF OneMore, Owed, Unsent, PairStarted, Open, Started, Sending, InLaunch,
         InCycle
<1>9. Owed'
  BY DEF Owed, Unsent, InLaunch, BetweenPairs, PairStarted, Open, Started,
         Sending
<1> QED BY <1>1, <1>2, <1>3, <1>4, <1>5, <1>6, <1>7, <1>8, <1>9

LEMMA ResetIInv == IInv /\ Reset => IInv'
<1> SUFFICES ASSUME Reset PROVE IInv' OBVIOUS
<1> USE DEF Reset, Quiet
<1>1. TypeOK' BY DEF TypeOK
<1>2. \A arm \in Arms : tx'[arm] # "dispatch" /\ sent'[arm] = 0 OBVIOUS
<1>3. \A arm \in Arms : Started(arm)' = 0 BY <1>2 DEF Started, Sending
<1>4. Progress'
  BY <1>2, <1>3 DEF Progress, InLaunch, PairStarted, Open, BetweenPairs, InCycle,
                    Counted, SetpointsOnly
<1>5. OneMore' /\ Owed' BY <1>2, <1>3 DEF OneMore, Owed
<1> QED BY <1>1, <1>4, <1>5 DEF IInv

-----------------------------------------------------------------------------
(* The theorems.                                                            *)

LEMMA NextIInv == IInv /\ [Next]_vars => IInv'
<1> SUFFICES ASSUME IInv, [Next]_vars PROVE IInv' OBVIOUS
<1>1. CASE MainLoop
  BY <1>1, LaunchRefusedIInv, LaunchBeginsIInv, LaunchLeftIInv,
     LaunchLeftFailsIInv, LaunchRightIInv, LaunchRightFailsIInv, BeginRefusedIInv,
     BeginCheckedIInv, BeginCommitIInv, LaunchEndsIInv, StopIInv, LatchFaultIInv,
     RequestPositionIInv DEF MainLoop
<1>2. CASE Interrupt BY <1>2, TxCompleteIInv, UartErrorIInv DEF Interrupt
<1>3. CASE Reset BY <1>3, ResetIInv
<1>4. CASE UNCHANGED vars
  BY <1>4 DEF vars, IInv, TypeOK, Progress, InLaunch, PairStarted, Open,
              BetweenPairs, InCycle, Counted, SetpointsOnly, OneMore, Owed,
              Unsent, Started, Sending
<1> QED BY <1>1, <1>2, <1>3, <1>4 DEF Next

LEMMA Invariance == Spec => []IInv
BY InitIInv, NextIInv, PTL DEF Spec

\* Every variable of the dispatch keeps its type.
THEOREM TypeCorrect == Spec => []TypeOK
BY Invariance, PTL DEF IInv

\* A dispatch that says it may launch has no packet on either bus.
THEOREM ReadyIsQuiet == Spec => []ReadyMeansQuiet
<1>1. IInv => ReadyMeansQuiet
  BY DEF IInv, Progress, BetweenPairs, ReadyMeansQuiet, CanLaunch
<1> QED BY <1>1, Invariance, PTL

\* A dispatch that may launch has given both arms every launched pair.
THEOREM ArmsInLockstep == Spec => []Lockstep
<1>1. IInv => Lockstep
  BY DEF IInv, TypeOK, Progress, BetweenPairs, PairStarted, Open, Counted,
         Lockstep, CanLaunch, Started, Sending
<1> QED BY <1>1, Invariance, PTL

\* No arm is ever more than one setpoint ahead of the other.
THEOREM NeverTwoAhead == Spec => []AtMostOneAhead
<1>1. IInv => AtMostOneAhead
  BY DEF IInv, TypeOK, OneMore, AtMostOneAhead, Started, Sending
<1> QED BY <1>1, Invariance, PTL

\* After a fault no launch is begun, and what the interrupted one still starts
\* goes to an arm that has received nothing of its pair.
THEOREM FaultsEndOutput == Spec => FaultEndsOutput
<1> DEFINE Starts(arm) == tx'[arm] = "dispatch" /\ tx[arm] # "dispatch"
           A == faulted /\ faulted' =>
                    /\ pc = "idle" => pc' = "idle"
                    /\ \A arm \in Arms : Starts(arm) => sent[arm] = completions
<1>1. IInv /\ [Next]_vars => [A]_vars
  <2> SUFFICES ASSUME IInv, Next, faulted, faulted' PROVE A OBVIOUS
  <2> USE DEF IInv, TypeOK, counts, CanLaunch, Fail, Quiet, Transmit
  <2>1. CASE LaunchLeft \/ LaunchRight
    BY <2>1 DEF LaunchLeft, LaunchRight, Owed, Unsent
  <2>2. CASE MainLoop /\ ~LaunchLeft /\ ~LaunchRight
    BY <2>2 DEF MainLoop, LaunchRefused, LaunchBegins, LaunchLeftFails,
                LaunchRightFails, BeginRefused, BeginChecked, BeginCommit,
                LaunchEnds, Stop, LatchFault, RequestPosition
  <2>3. CASE Interrupt BY <2>3 DEF Interrupt, OnTxComplete, OnUartError
  <2>4. CASE Reset BY <2>4 DEF Reset
  <2> QED BY <2>1, <2>2, <2>3, <2>4 DEF Next, MainLoop
<1> QED BY <1>1, Invariance, PTL DEF Spec, FaultEndsOutput

-----------------------------------------------------------------------------
(* Refinement: every step is a step of PairedCycle, or leaves it unchanged.  *)

Phase == IF faulted THEN "faulted"
         ELSE IF active \/ pc \notin {"idle", "ending"} THEN "busy" ELSE "ready"

PairArms == CASE pc = "startLeft" -> {} [] pc = "startRight" -> {LEFT}
              [] OTHER -> Arms

OnBus == {arm \in Arms : tx[arm] = "dispatch"}

\* The step of the cycle that delivers an arm's packet.
OutStep(arm) ==
    /\ OnBus' = OnBus \ {arm}
    /\ sent' = [sent EXCEPT ![arm] = @ + 1]
    /\ PairArms' = PairArms

Quits ==
    /\ Phase' = "faulted"
    /\ OnBus' \subseteq OnBus /\ PairArms' \in {PairArms, Arms}
    /\ sent' = sent /\ completions' = completions

Stutters ==
    /\ Phase' = Phase /\ PairArms' = PairArms /\ OnBus' = OnBus
    /\ sent' = sent /\ completions' = completions

AbstractStep ==
    \/ /\ Phase = "ready" /\ Phase' = "busy" /\ PairArms' = {}
       /\ OnBus' = OnBus /\ sent' = sent /\ completions' = completions
    \/ \E arm \in Arms :
          /\ Phase \in {"busy", "faulted"} /\ Phase' = Phase
          /\ arm \notin PairArms /\ PairArms' = PairArms \cup {arm}
          /\ OnBus' = OnBus \cup {arm}
          /\ sent' = sent /\ completions' = completions
    \/ \E arm \in OnBus :
          OutStep(arm) /\ Phase' = Phase /\ completions' = completions
    \/ \E arm \in Arms :
          /\ Phase = "busy" /\ Phase' = "ready"
          /\ PairArms = Arms /\ OnBus = {arm}
          /\ OutStep(arm) /\ completions' = completions + 1
    \/ Quits
    \/ /\ Phase' = "ready" /\ PairArms' = Arms /\ OnBus' = {}
       /\ sent' = [arm \in Arms |-> 0] /\ completions' = 0
    \/ Stutters

\* A failure gives the cycle up, or finds it given up.
LEMMA FailRefines ==
    ASSUME IInv, Fail, OnBus' \subseteq OnBus, pc' \in {pc, "idle"},
           sent' = sent, completions' = completions
    PROVE  AbstractStep
<1>1. PairArms' \in {PairArms, Arms} BY DEF PairArms
<1> QED BY <1>1 DEF Fail, AbstractStep, Quits, Phase

LEMMA LaunchRefines ==
    ASSUME IInv,
           \/ LaunchRefused \/ LaunchBegins \/ LaunchLeft \/ LaunchLeftFails
           \/ LaunchRight \/ LaunchRightFails
           \/ BeginRefused \/ BeginChecked \/ BeginCommit \/ LaunchEnds
    PROVE  AbstractStep
<1> USE DEF counts
<1>1. CASE LaunchRefused
  <2>1. OnBus' = OnBus BY <1>1 DEF LaunchRefused, OnBus
  <2> QED BY <1>1, <2>1, FailRefines DEF LaunchRefused
<1>2. CASE LaunchBegins
  <2>1. OnBus' = OnBus /\ PairArms' = {}
    BY <1>2 DEF LaunchBegins, OnBus, PairArms
  <2>2. Phase = "ready" /\ Phase' = "busy"
    BY <1>2 DEF LaunchBegins, CanLaunch, Phase
  <2> QED BY <1>2, <2>1, <2>2 DEF LaunchBegins, AbstractStep
<1>3. CASE LaunchLeft
  <2>1. OnBus' = OnBus \cup {LEFT}
    BY <1>3 DEF LaunchLeft, Transmit, OnBus, IInv, TypeOK
  <2>2. PairArms = {} /\ PairArms' = PairArms \cup {LEFT}
    BY <1>3 DEF LaunchLeft, PairArms
  <2>3. Phase \in {"busy", "faulted"} /\ Phase' = Phase
    BY <1>3 DEF LaunchLeft, Phase
  <2> QED BY <1>3, <2>1, <2>2, <2>3 DEF LaunchLeft, AbstractStep
<1>4. CASE LaunchLeftFails
  <2>1. OnBus' = OnBus BY <1>4 DEF LaunchLeftFails, OnBus
  <2> QED BY <1>4, <2>1, FailRefines DEF LaunchLeftFails
<1>5. CASE LaunchRight
  <2>1. OnBus' = OnBus \cup {RIGHT}
    BY <1>5 DEF LaunchRight, Transmit, OnBus, IInv, TypeOK
  <2>2. PairArms = {LEFT} /\ PairArms' = PairArms \cup {RIGHT}
    BY <1>5 DEF LaunchRight, PairArms
  <2>3. Phase \in {"busy", "faulted"} /\ Phase' = Phase
    BY <1>5 DEF LaunchRight, Phase
  <2> QED BY <1>5, <2>1, <2>2, <2>3 DEF LaunchRight, AbstractStep
<1>6. CASE LaunchRightFails
  <2>1. OnBus' \subseteq OnBus
    BY <1>6 DEF LaunchRightFails, OnBus, IInv, TypeOK
  <2> QED BY <1>6, <2>1, FailRefines DEF LaunchRightFails
<1>7. CASE BeginRefused
  <2>1. OnBus' \subseteq OnBus BY <1>7 DEF BeginRefused, OnBus, Quiet
  <2> QED BY <1>7, <2>1, FailRefines DEF BeginRefused
<1>8. CASE BeginChecked
  BY <1>8 DEF BeginChecked, AbstractStep, Stutters, Phase, PairArms, OnBus
<1>9. CASE BeginCommit
  BY <1>9 DEF BeginCommit, AbstractStep, Stutters, Phase, PairArms, OnBus
<1>10. CASE LaunchEnds
  BY <1>10 DEF LaunchEnds, AbstractStep, Stutters, Phase, PairArms, OnBus
<1> QED BY <1>1, <1>2, <1>3, <1>4, <1>5, <1>6, <1>7, <1>8, <1>9, <1>10

LEMMA TxCompleteRefines ==
    ASSUME IInv, NEW arm \in Arms, OnTxComplete(arm)
    PROVE  AbstractStep
<1> USE DEF OnTxComplete
<1>1. OnBus' = OnBus \ {arm} /\ PairArms' = PairArms
  BY DEF OnBus, PairArms, IInv, TypeOK
<1>2. CASE tx[arm] # "dispatch"
  <2>1. OnBus' = OnBus /\ sent' = sent BY <1>1, <1>2 DEF OnBus
  <2>2. CASE faulted
    <3>1. faulted' /\ completions' = completions BY <2>2 DEF Complete, Fail
    <3> QED BY <1>1, <2>1, <2>2, <3>1 DEF AbstractStep, Stutters, Phase
  <2>3. CASE ~faulted
    <3>1. ~active
      BY <1>2, <2>3 DEF IInv, TypeOK, Progress, SetpointsOnly
    <3> QED BY <1>1, <2>1, <3>1 DEF AbstractStep, Stutters, Phase
  <2> QED BY <2>2, <2>3
<1>3. CASE tx[arm] = "dispatch"
  <2>1. arm \in OnBus /\ OutStep(arm)
    BY <1>1, <1>3 DEF OnBus, OutStep
  <2>2. CASE ~active \/ faulted
    <3>1. Phase' = Phase /\ completions' = completions
      BY <2>2 DEF Complete, Fail, Phase
    <3> QED BY <2>1, <3>1 DEF AbstractStep
  <2>3. CASE active /\ ~faulted
    <3>1. arm \notin complete BY <1>3, <2>3 DEF IInv, Progress, InCycle
    <3>2. complete' = complete \cup {arm} BY <2>3, <3>1 DEF Complete
    <3>3. CASE complete' = Arms
      <4>1. OnBus = {arm}
        BY <2>1, <2>3, <3>2, <3>3 DEF IInv, Progress, InCycle, OnBus
      <4>2. pc \in {"idle", "ending"} BY <2>3 DEF IInv, Progress, InLaunch
      <4>3. PairArms = Arms BY <4>2 DEF PairArms
      <4>4. Phase = "busy" /\ Phase' = "ready" /\ completions' = completions + 1
        BY <2>3, <3>1, <3>2, <3>3, <4>2 DEF Complete, PairDone, Phase
      <4> QED BY <2>1, <4>1, <4>3, <4>4 DEF AbstractStep
    <3>4. CASE complete' # Arms
      <4>1. Phase' = Phase /\ completions' = completions
        BY <2>3, <3>1, <3>2, <3>4 DEF Complete, PairDone, Phase
      <4> QED BY <2>1, <4>1 DEF AbstractStep
    <3> QED BY <3>3, <3>4
  <2> QED BY <2>2, <2>3
<1> QED BY <1>2, <1>3

LEMMA UartErrorRefines ==
    ASSUME IInv, NEW arm \in Arms, OnUartError(arm)
    PROVE  AbstractStep
<1> USE DEF OnUartError, counts
<1>1. OnBus' = OnBus \/ OnBus' = OnBus \ {arm} BY DEF OnBus, IInv, TypeOK
<1>2. CASE launching \/ active BY <1>1, <1>2, FailRefines
<1>3. CASE ~(launching \/ active) /\ faulted
  BY <1>1, <1>3 DEF AbstractStep, Quits, Phase, PairArms
<1>4. CASE ~(launching \/ active) /\ ~faulted
  <2>1. OnBus = {}
    BY <1>4 DEF IInv, TypeOK, Progress, InLaunch, BetweenPairs, OnBus
  <2> QED BY <1>1, <1>4, <2>1 DEF AbstractStep, Stutters, Phase, PairArms
<1> QED BY <1>2, <1>3, <1>4

LEMMA CallerRefines ==
    ASSUME IInv,
           \/ Stop \/ LatchFault \/ Reset
           \/ \E arm \in Arms : RequestPosition(arm)
    PROVE  AbstractStep
<1>1. CASE Stop
  <2>1. OnBus' = {} BY <1>1 DEF Stop, OnBus, Quiet
  <2>2. CASE active BY <1>1, <2>1, <2>2, FailRefines DEF Stop, counts
  <2>3. CASE ~active /\ ~faulted
    <3>1. OnBus = {}
      BY <1>1, <2>3 DEF Stop, IInv, Progress, BetweenPairs, OnBus
    <3> QED
      BY <1>1, <2>1, <2>3, <3>1 DEF Stop, AbstractStep, Stutters, Phase,
                                    PairArms, counts
  <2>4. CASE ~active /\ faulted
    BY <1>1, <2>1, <2>4 DEF Stop, AbstractStep, Quits, Phase, PairArms, counts
  <2> QED BY <2>2, <2>3, <2>4
<1>2. CASE LatchFault
  <2>1. OnBus' = {} BY <1>2 DEF LatchFault, OnBus, Quiet
  <2> QED BY <1>2, <2>1, FailRefines DEF LatchFault, counts
<1>3. CASE Reset
  <2>1. OnBus' = {} BY <1>3 DEF Reset, OnBus, Quiet
  <2> QED BY <1>3, <2>1 DEF Reset, AbstractStep, Phase, PairArms
<1>4. CASE \E arm \in Arms : RequestPosition(arm)
  <2>1. OnBus' = OnBus
    BY <1>4 DEF RequestPosition, OnBus, IInv, TypeOK
  <2> QED
    BY <1>4, <2>1 DEF RequestPosition, AbstractStep, Stutters, Phase, PairArms,
                      counts
<1> QED BY <1>1, <1>2, <1>3, <1>4

\* The interrupt-driven dispatch implements the paired cycle its callers see.
THEOREM ImplementsPairedCycle == Spec => ImplementsCycle
<1>1. Init => Cycle!CycleInit
  BY DEF Init, Quiet, Cycle!CycleInit
<1>2. IInv /\ [Next]_vars => [Cycle!CycleNext]_(Cycle!cycle)
  <2> SUFFICES ASSUME IInv, [Next]_vars
               PROVE  [Cycle!CycleNext]_(Cycle!cycle)
    OBVIOUS
  <2>1. AbstractStep
    <3>1. CASE MainLoop BY <3>1, LaunchRefines, CallerRefines DEF MainLoop
    <3>2. CASE Interrupt
      BY <3>2, TxCompleteRefines, UartErrorRefines DEF Interrupt
    <3>3. CASE Reset BY <3>3, CallerRefines
    <3>4. CASE UNCHANGED vars
      BY <3>4 DEF vars, AbstractStep, Stutters, Phase, PairArms, OnBus
    <3> QED BY <3>1, <3>2, <3>3, <3>4 DEF Next
  <2> QED
    BY <2>1 DEF AbstractStep, OutStep, Quits, Stutters, Phase, PairArms, OnBus,
                Cycle!CycleNext, Cycle!cycle, Cycle!StartPair,
                Cycle!StartPacket, Cycle!Deliver, Cycle!CompletePair, Cycle!Out,
                Cycle!GiveUp, Cycle!MCUReset
<1> QED
  BY <1>1, <1>2, Invariance, PTL DEF Spec, ImplementsCycle, Cycle!CycleSpec

-----------------------------------------------------------------------------
(* What the paired cycle promises, proved of the abstract specification       *)
(* alone: its own variables, not the dispatch's.                             *)

VARIABLES phase, started, sending, received, pairs

Any == INSTANCE PairedCycle

CycleTyped ==
    /\ started \subseteq Arms /\ sending \subseteq Arms
    /\ received \in [Arms -> Nat] /\ pairs \in Nat

\* A busy cycle owes its packet to no arm that was started and is not sending.
Paid ==
    phase = "busy" =>
        \A arm \in started \ sending : received[arm] = pairs + 1

AnyInv == CycleTyped /\ Any!InPairs /\ Paid

LEMMA AnyInitInv == Any!CycleInit => AnyInv
BY DEF Any!CycleInit, AnyInv, CycleTyped, Any!InPairs, Paid

LEMMA AnyNextInv == AnyInv /\ [Any!CycleNext]_(Any!cycle) => AnyInv'
<1> SUFFICES ASSUME AnyInv, [Any!CycleNext]_(Any!cycle) PROVE AnyInv' OBVIOUS
<1> USE DEF AnyInv, CycleTyped, Any!InPairs, Paid
<1>1. CASE Any!StartPair BY <1>1 DEF Any!StartPair
<1>2. CASE Any!GiveUp BY <1>2 DEF Any!GiveUp
<1>3. CASE Any!MCUReset BY <1>3 DEF Any!MCUReset
<1>4. ASSUME NEW arm \in Arms, Any!StartPacket(arm) PROVE AnyInv'
  BY <1>4 DEF Any!StartPacket
<1>5. ASSUME NEW arm \in Arms, Any!Deliver(arm) PROVE AnyInv'
  BY <1>5 DEF Any!Deliver, Any!Out
<1>6. ASSUME NEW arm \in Arms, Any!CompletePair(arm) PROVE AnyInv'
  BY <1>6 DEF Any!CompletePair, Any!Out
<1>7. CASE UNCHANGED Any!cycle BY <1>7 DEF Any!cycle
<1> QED BY <1>1, <1>2, <1>3, <1>4, <1>5, <1>6, <1>7 DEF Any!CycleNext

\* The paired cycle keeps the arms in pairs: after whatever faults, an arm has
\* received the completed pairs and at most one packet more, and a ready cycle
\* has delivered the same number to both.
THEOREM CyclePairs == Any!CycleSpec => []Any!InPairs
BY AnyInitInv, AnyNextInv, PTL DEF Any!CycleSpec, AnyInv

=============================================================================
