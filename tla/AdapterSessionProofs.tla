------------------------- MODULE AdapterSessionProofs -------------------------
(* Proofs about AdapterSession, for plans, queues, links and clocks of every  *)
(* size: PREPARE_SHADOW never reaches arms that are powered, and a STOP that  *)
(* succeeded has stopped the arms, as far as the buses let it.                *)
EXTENDS AdapterSession, SequenceTheorems, TLAPS

-----------------------------------------------------------------------------
(* The scripts of the operations.                                            *)

Steps == PlainKinds \cup StatusKinds \cup {"CLAIM", "PUMP"}

Lacks(script, kind) == \A i \in 1 .. Len(script) : script[i] # kind

\* What is left of the first START until it has claimed the stream.
Claiming == <<"CLAIM", "ARM", "HEARTBEAT", "ENABLE", "HEARTBEAT", "OPEN",
              "APPEND">>
Preparing == <<"SHADOW", "CLAIM", "ARM", "HEARTBEAT", "ENABLE", "HEARTBEAT",
               "OPEN", "APPEND">>
Unarmed == {Arming, Preparing, Claiming}

\* Only a START powers the arms, after its claim; only a session that is not
\* armed prepares.
Scripts ==
    /\ todo \in Seq(Steps)
    /\ job \in {"prepare", "refresh"} => Lacks(todo, "ARM")
    /\ job = "start" /\ ~armed => todo \in Unarmed
    /\ job = "start" /\ armed => Lacks(todo, "SHADOW")
    /\ job = "stop" => todo \in {<<>>, <<"SAFE_STOP">>}
    /\ job \notin {"prepare", "refresh", "start"} =>
          Lacks(todo, "ARM") /\ Lacks(todo, "SHADOW")
    /\ job # "start" => Lacks(todo, "CLAIM")

\* Which operation runs in which state of the adapter.
HostJob ==
    /\ host = "NEW" => ~armed
    /\ host = "ACTIVE" => armed
    /\ job = "prepare" => host = "NEW"
    /\ job = "refresh" => host = "READY" /\ ~armed
    /\ job \in {"start", "feedback"} => host = "READY"
    /\ job \in {"append", "splice", "poll"} => host = "ACTIVE"
    /\ job = "keepalive" => host \in {"READY", "ACTIVE"}
    /\ job = "stop" => host \in {"READY", "ACTIVE", "FAULTED"}
    /\ job = "fault" => host = "FAULTED"
    /\ host \in {"STOPPED", "DEAD"} => job = "none"

\* The request that waits is the next one of the script; the feeder's is a
\* batch.
AskedIsNext ==
    Waiting => /\ job # "none" /\ todo # <<>>
               /\ asked \in PlainKinds \cup StatusKinds
               /\ Head(todo) = (IF Head(todo) = "PUMP" /\ asked = "APPEND"
                                THEN "PUMP" ELSE asked)

ScriptInv == Scripts /\ HostJob /\ AskedIsNext

-----------------------------------------------------------------------------
(* The link.                                                                 *)

Requests(S) == Seq([kind : S, mine : BOOLEAN, content : S])
Answers(S) == Seq([kind : S, mine : BOOLEAN, says : S, at : S])
LinkType == (\E S : up \in Requests(S)) /\ (\E S : down \in Answers(S))

\* The latest request is the last one on its way.
NewestIsLast ==
    Waiting => \A i \in 1 .. Len(up) :
                  up[i].mine => i = Len(up) /\ up[i].kind = asked

\* When it was answered nothing is left behind it, and SAFE_STOP has stopped
\* the arms.
AnsweredIsEmpty ==
    Waiting /\ (\E i \in 1 .. Len(down) : down[i].mine) =>
        /\ up = <<>>
        /\ asked = "SAFE_STOP" => latched /\ ArmsAreOff

LinkInv == LinkType /\ NewestIsLast /\ AnsweredIsEmpty

-----------------------------------------------------------------------------
(* The arms.                                                                 *)

Sent(kind) == \E i \in 1 .. Len(up) : up[i].kind = kind

\* A session that is not armed has not powered the arms.
UnarmedIsOff == ~armed /\ host \in {"NEW", "READY"} => ~Sent("ARM") /\ ~armsOn

\* A preparation is on its way alone: it is waited for, or the session is over.
ShadowIsAlone ==
    Sent("SHADOW") =>
        /\ ~armsOn /\ ~Sent("ARM")
        /\ asked = "SHADOW" \/ host \notin {"NEW", "READY", "ACTIVE"}

\* A stop that was answered, and a session that is stopped.
StopIsDone ==
    (job = "stop" /\ todo = <<>>) \/ host = "STOPPED" =>
        latched /\ ArmsAreOff /\ up = <<>>

ArmsInv == UnarmedIsOff /\ ShadowIsAlone /\ StopIsDone

-----------------------------------------------------------------------------
(* Facts about scripts.                                                      *)

\* A script without a step still lacks it when its first step is done.
LEMMA TailLacks ==
    ASSUME NEW s \in Seq(Steps), s # <<>>
    PROVE  /\ Tail(s) \in Seq(Steps)
           /\ \A k : Lacks(s, k) => Lacks(Tail(s), k) /\ Head(s) # k
  BY DEF Lacks

\* Nor is a step in a script made of two that lack it.
LEMMA ConcatLacks ==
    ASSUME NEW s \in Seq(Steps), NEW t \in Seq(Steps)
    PROVE  /\ s \o t \in Seq(Steps)
           /\ \A k : Lacks(s, k) /\ Lacks(t, k) => Lacks(s \o t, k)
  BY DEF Lacks

\* The shortest scripts.
LEMMA ShortScripts ==
    /\ <<>> \in Seq(Steps)
    /\ \A k : Lacks(<<>>, k)
    /\ \A a \in Steps : <<a>> \in Seq(Steps) /\ <<a>> # <<>>
    /\ \A a \in Steps : Tail(<<a>>) = <<>> /\ Head(<<a>>) = a
    /\ \A a \in Steps : \A k : a # k => Lacks(<<a>>, k)
  BY DEF Lacks

\* The first START goes on step by step until it claims.
LEMMA UnarmedGoesOn ==
    ASSUME NEW s \in Unarmed
    PROVE  /\ s \in Seq(Steps) /\ s # <<>>
           /\ Head(s) \in {"HEARTBEAT", "SHADOW", "CLAIM"}
           /\ Head(s) # "CLAIM" => Tail(s) \in Unarmed
           /\ Head(s) = "CLAIM" => Lacks(Tail(s), "SHADOW")
<1>1. /\ Arming \in Seq(Steps) /\ Preparing \in Seq(Steps)
      /\ Claiming \in Seq(Steps)
  BY DEF Arming, Preparing, Claiming, Steps, PlainKinds, StatusKinds
<1>2. /\ Head(Arming) = "HEARTBEAT" /\ Tail(Arming) = Preparing
      /\ Head(Preparing) = "SHADOW" /\ Tail(Preparing) = Claiming
      /\ Head(Claiming) = "CLAIM" /\ Lacks(Claiming, "SHADOW")
  BY DEF Arming, Preparing, Claiming, Lacks
<1>3. /\ Arming # <<>> /\ Preparing # <<>> /\ Claiming # <<>>
  BY DEF Arming, Preparing, Claiming
<1> QED
  BY <1>1, <1>2, <1>3, TailLacks DEF Unarmed

-----------------------------------------------------------------------------
(* ScriptInv.                                                                *)

\* An operation that is over leaves nothing to say about its script.
LEMMA DoneKeepsScripts ==
    ASSUME Done
    PROVE  Scripts'
  BY ShortScripts DEF Done, Scripts

\* A fault leaves SAFE_STOP, or nothing.
LEMMA FaultKeepsScripts ==
    ASSUME ScriptInv, Fault, asked' = "NONE"
    PROVE  ScriptInv'
<1>1. "SAFE_STOP" \in Steps
  BY DEF Steps, PlainKinds
<1>2. Scripts'
  BY <1>1, ShortScripts DEF Fault, Scripts
<1>3. HostJob'
  BY DEF ScriptInv, HostJob, Fault
<1> QED
  BY <1>2, <1>3 DEF ScriptInv, AskedIsNext, Waiting

\* Nothing waits when no operation runs.
LEMMA IdleWaitsNot ==
    ASSUME ScriptInv, job = "none"
    PROVE  asked = "NONE"
  BY DEF ScriptInv, AskedIsNext, Waiting

\* The scripts of the operations.
LEMMA OperationScripts ==
    ASSUME ScriptInv, Operation
    PROVE  ScriptInv'
<1>1. CASE StrayClaim
  <2>1. UNCHANGED <<todo, job, armed, host, asked>> /\ job = "none"
    BY <1>1 DEF StrayClaim, Idle, operation, link
  <2> QED
    BY <2>1 DEF ScriptInv, Scripts, HostJob, AskedIsNext, Waiting
<1>2. CASE ~StrayClaim
  <2>1. UNCHANGED <<armed, host, asked>> /\ job = "none" /\ asked = "NONE"
    BY <1>2, IdleWaitsNot
       DEF Operation, Prepare, RefreshUnarmedAnchor, Start, AppendPoints,
           SplicePoints, Poll, Keepalive, PublishFeedback, StopStream, Begin,
           Idle, link
  <2>2. HostJob'
    BY <1>2, <2>1
       DEF Operation, Prepare, RefreshUnarmedAnchor, Start, AppendPoints,
           SplicePoints, Poll, Keepalive, PublishFeedback, StopStream, Begin,
           ScriptInv, HostJob, MayRefresh, HeartbeatRequired
  <2>3. Scripts'
    <3> USE DEF Begin, Scripts, Lacks, Steps, PlainKinds, StatusKinds
    <3>1. CASE Prepare
      BY <3>1 DEF Prepare
    <3>2. CASE RefreshUnarmedAnchor
      BY <3>2 DEF RefreshUnarmedAnchor
    <3>3. CASE Start
      <4>1. CASE armed
        BY <3>3, <4>1, <2>1 DEF Start, Opening
      <4>2. CASE ~armed
        <5>1. Arming \in Seq(Steps)
          BY DEF Arming
        <5> QED
          BY <3>3, <4>2, <2>1, <5>1 DEF Start, Unarmed
      <4> QED
        BY <4>1, <4>2
    <3>4. CASE AppendPoints
      BY <3>4 DEF AppendPoints
    <3>5. CASE SplicePoints
      BY <3>5 DEF SplicePoints
    <3>6. CASE Poll
      <4> DEFINE feed == IF pending = <<>> THEN <<>> ELSE <<"HEARTBEAT", "PUMP">>
                 look == <<"HEARTBEAT", "EXECUTOR", "HEARTBEAT", "TRACKING",
                           "HEARTBEAT">>
      <4>1. /\ feed \in Seq(Steps) /\ Lacks(feed, "ARM")
            /\ Lacks(feed, "SHADOW") /\ Lacks(feed, "CLAIM")
        <5>1. CASE pending = <<>>
          BY <5>1, ShortScripts
        <5>2. CASE pending # <<>>
          BY <5>2
        <5> QED
          BY <5>1, <5>2
      <4>2. /\ look \in Seq(Steps) /\ Lacks(look, "ARM")
            /\ Lacks(look, "SHADOW") /\ Lacks(look, "CLAIM")
        OBVIOUS
      <4>3. job' = "poll" /\ todo' = feed \o look
        BY <3>6 DEF Poll
      <4> HIDE DEF feed, look, Lacks, Steps
      <4> QED
        BY <4>1, <4>2, <4>3, ConcatLacks
    <3>7. CASE Keepalive
      BY <3>7 DEF Keepalive
    <3>8. CASE PublishFeedback
      BY <3>8 DEF PublishFeedback
    <3>9. CASE StopStream
      BY <3>9 DEF StopStream
    <3> QED
      BY <1>2, <3>1, <3>2, <3>3, <3>4, <3>5, <3>6, <3>7, <3>8, <3>9 DEF Operation
  <2> QED
    BY <2>1, <2>2, <2>3 DEF ScriptInv, AskedIsNext, Waiting
<1> QED
  BY <1>1, <1>2

\* A request is the next step of the script.
LEMMA AskKeepsScripts ==
    ASSUME ScriptInv, NEW kind, Next1(kind),
           asked' \in PlainKinds \cup StatusKinds,
           kind = asked' \/ (kind = "PUMP" /\ asked' = "APPEND"),
           UNCHANGED <<todo, job, armed, host>>
    PROVE  ScriptInv'
<1>1. Scripts' /\ HostJob'
  BY DEF ScriptInv, Scripts, HostJob
<1>2. AskedIsNext'
  BY DEF AskedIsNext, Next1, Waiting
<1> QED
  BY <1>1, <1>2 DEF ScriptInv

\* An answered step is done.
LEMMA AnswerKeepsScripts ==
    ASSUME ScriptInv, Waiting, NEW says, todo' = Rest(says), asked' = "NONE",
           UNCHANGED <<job, armed, host>>
    PROVE  ScriptInv'
<1>1. /\ todo \in Seq(Steps) /\ todo # <<>> /\ asked # "CLAIM"
      /\ Head(todo) = "PUMP" \/ Head(todo) = asked
  BY DEF ScriptInv, Scripts, AskedIsNext, PlainKinds, StatusKinds
<1>2. /\ todo' \in Seq(Steps)
      /\ \A k \in {"ARM", "SHADOW", "CLAIM"} : Lacks(todo, k) => Lacks(todo', k)
  <2>1. CASE asked = "EXECUTOR" /\ says = "SUCCEEDED"
    <3>1. todo' = <<"FEEDBACK">> \o Tail(todo) /\ "FEEDBACK" \in Steps
      BY <2>1 DEF Rest, Steps, PlainKinds
    <3> DEFINE more == <<"FEEDBACK">>
               rest == Tail(todo)
    <3>2. /\ more \in Seq(Steps)
          /\ \A k \in {"ARM", "SHADOW", "CLAIM"} : Lacks(more, k)
      BY <3>1, ShortScripts
    <3>3. /\ rest \in Seq(Steps)
          /\ \A k \in {"ARM", "SHADOW", "CLAIM"} : Lacks(todo, k) => Lacks(rest, k)
      BY <1>1, TailLacks
    <3>4. todo' = more \o rest
      BY <3>1
    <3> HIDE DEF more, rest
    <3> QED
      BY <3>2, <3>3, <3>4, ConcatLacks
  <2>2. CASE ~(asked = "EXECUTOR" /\ says = "SUCCEEDED")
    <3>1. todo' = <<>> \o Tail(todo)
      BY <2>2 DEF Rest
    <3>2. todo' = Tail(todo)
      BY <3>1, <1>1, TailLacks
    <3> QED
      BY <1>1, <3>2, TailLacks
  <2> QED
    BY <2>1, <2>2
<1>3. asked # "EXECUTOR" => todo' = Tail(todo)
  BY <1>1, TailLacks DEF Rest
<1>4. job = "start" /\ ~armed => todo' \in Unarmed
  <2> SUFFICES ASSUME job = "start", ~armed
               PROVE  todo' \in Unarmed
    OBVIOUS
  <2>1. todo \in Unarmed
    BY DEF ScriptInv, Scripts
  <2>2. Head(todo) \in {"HEARTBEAT", "SHADOW"} /\ Head(todo) = asked
    BY <2>1, <1>1, UnarmedGoesOn
  <2> QED
    BY <2>1, <2>2, <1>3, UnarmedGoesOn
<1>5. job = "stop" => todo' = <<>>
  <2> SUFFICES ASSUME job = "stop"
               PROVE  todo' = <<>>
    OBVIOUS
  <2>1. todo = <<"SAFE_STOP">> /\ "SAFE_STOP" \in Steps
    BY <1>1 DEF ScriptInv, Scripts, Steps, PlainKinds
  <2> QED
    BY <2>1, <1>1, <1>3, ShortScripts
<1>6. Scripts'
  BY <1>2, <1>4, <1>5 DEF ScriptInv, Scripts
<1>7. HostJob'
  BY DEF ScriptInv, HostJob
<1> QED
  BY <1>6, <1>7 DEF ScriptInv, AskedIsNext, Waiting

\* The steps of an operation that talk to the firmware.
LEMMA RequestScripts ==
    ASSUME ScriptInv, AskPlain \/ OpenPlan \/ AskFirstBatch \/ AskAppend
                      \/ AskSplice \/ Pump
    PROVE  ScriptInv'
<1>0. /\ "OPEN" \in PlainKinds \cup StatusKinds
      /\ "APPEND" \in PlainKinds \cup StatusKinds
      /\ "SPLICE" \in PlainKinds \cup StatusKinds
  BY DEF StatusKinds
<1>1. CASE AskPlain
  <2>1. PICK kind \in PlainKinds : Next1(kind) /\ Ask(kind, NoContent)
    BY <1>1 DEF AskPlain
  <2> QED
    <3>1. Next1(kind) /\ asked' = kind /\ UNCHANGED <<todo, job, armed, host>>
      BY <2>1 DEF Ask, Send
    <3> QED
      BY <3>1, <1>0, AskKeepsScripts
<1>2. CASE OpenPlan
  <2>1. /\ Next1("OPEN") /\ asked' = "OPEN"
        /\ UNCHANGED <<todo, job, armed, host>>
    BY <1>2 DEF OpenPlan, Ask, Send
  <2> QED
    BY <2>1, <1>0, AskKeepsScripts
<1>3. CASE AskFirstBatch
  <2>1. /\ Next1("APPEND") /\ asked' = "APPEND"
        /\ UNCHANGED <<todo, job, armed, host>>
    BY <1>3 DEF AskFirstBatch, Ask, Send
  <2> QED
    BY <2>1, <1>0, AskKeepsScripts
<1>4. CASE AskAppend
  <2>1. Next1("APPEND") /\ (\/ Fault /\ UNCHANGED asked
                            \/ asked' = "APPEND"
                               /\ UNCHANGED <<todo, job, armed, host>>)
    BY <1>4 DEF AskAppend, Ask, Send, link
  <2>2. CASE Fault /\ UNCHANGED asked
    BY <2>1, <2>2, FaultKeepsScripts DEF Next1, Waiting
  <2>3. CASE asked' = "APPEND" /\ UNCHANGED <<todo, job, armed, host>>
    BY <2>1, <2>3, <1>0, AskKeepsScripts
  <2> QED
    BY <2>1, <2>2, <2>3
<1>5. CASE AskSplice
  <2>1. Next1("SPLICE") /\ (\/ Fault /\ UNCHANGED asked
                            \/ asked' = "SPLICE"
                               /\ UNCHANGED <<todo, job, armed, host>>)
    BY <1>5 DEF AskSplice, Ask, Send, link
  <2>2. CASE Fault /\ UNCHANGED asked
    BY <2>1, <2>2, FaultKeepsScripts DEF Next1, Waiting
  <2>3. CASE asked' = "SPLICE" /\ UNCHANGED <<todo, job, armed, host>>
    BY <2>1, <2>3, <1>0, AskKeepsScripts
  <2> QED
    BY <2>1, <2>2, <2>3
<1>6. CASE Pump
  <2>1. /\ Next1("PUMP")
        /\ \/ Fault /\ UNCHANGED asked
           \/ asked' = "APPEND" /\ UNCHANGED <<todo, job, armed, host>>
           \/ todo' = Tail(todo) /\ UNCHANGED <<asked, job, armed, host>>
    BY <1>6 DEF Pump, Ask, Send, link
  <2>2. CASE todo' = Tail(todo) /\ UNCHANGED <<asked, job, armed, host>>
    <3>1. todo \in Seq(Steps) /\ todo # <<>> /\ Head(todo) = "PUMP"
          /\ job # "none" /\ asked = "NONE"
      BY <2>1 DEF Next1, Waiting, ScriptInv, Scripts
    <3>2. ~(job = "start" /\ ~armed) /\ job # "stop"
      BY <3>1, UnarmedGoesOn, ShortScripts DEF ScriptInv, Scripts
    <3>3. Scripts' /\ HostJob'
      BY <2>2, <3>1, <3>2, TailLacks DEF ScriptInv, Scripts, HostJob
    <3> QED
      BY <2>2, <3>1, <3>3 DEF ScriptInv, AskedIsNext, Waiting
  <2>3. CASE Fault /\ UNCHANGED asked
    BY <2>1, <2>3, FaultKeepsScripts DEF Next1, Waiting
  <2>4. CASE asked' = "APPEND" /\ UNCHANGED <<todo, job, armed, host>>
    BY <2>1, <2>4, <1>0, AskKeepsScripts
  <2> QED
    BY <2>1, <2>2, <2>3, <2>4
<1> QED
  BY <1>1, <1>2, <1>3, <1>4, <1>5, <1>6

\* An operation that ends, or is answered, or given up.
LEMMA EndScripts ==
    ASSUME ScriptInv, PrepareEnds \/ StartEnds \/ PollEnds \/ FeedbackEnds
                      \/ StopEnds \/ FaultEnds \/ OtherEnds
    PROVE  ScriptInv'
<1>1. UNCHANGED asked /\ asked = "NONE" /\ todo = <<>>
  BY DEF PrepareEnds, StartEnds, PollEnds, FeedbackEnds, StopEnds, FaultEnds,
         OtherEnds, Ends, Waiting, link
<1>2. CASE Fault
  BY <1>1, <1>2, FaultKeepsScripts
<1>3. CASE ~Fault
  <2>1. Done
    BY <1>3 DEF PrepareEnds, StartEnds, PollEnds, FeedbackEnds, StopEnds,
                FaultEnds, OtherEnds
  <2>2. job = "start" => armed
    BY <1>1, UnarmedGoesOn DEF ScriptInv, Scripts
  <2>3. HostJob'
    BY <1>3, <2>1, <2>2
       DEF PrepareEnds, StartEnds, PollEnds, FeedbackEnds, StopEnds, FaultEnds,
           OtherEnds, Ends, Done, ScriptInv, HostJob
  <2> QED
    BY <1>1, <2>1, <2>3, DoneKeepsScripts DEF ScriptInv, AskedIsNext, Waiting
<1> QED
  BY <1>2, <1>3

\* Every step keeps the scripts in order.
LEMMA NextScripts ==
    ASSUME ScriptInv, [Next]_vars
    PROVE  ScriptInv'
<1>1. CASE UNCHANGED <<asked, todo, job, armed, host>>
  BY <1>1 DEF ScriptInv, Scripts, HostJob, AskedIsNext, Waiting
<1>2. CASE Operation
  BY <1>2, OperationScripts
<1>3. CASE Claim
  <2>1. /\ todo \in Seq(Steps) /\ todo # <<>> /\ Head(todo) = "CLAIM"
        /\ UNCHANGED <<asked, host>> /\ asked = "NONE"
    BY <1>3 DEF Claim, Next1, Waiting, link, ScriptInv, Scripts
  <2>2. job = "start"
    BY <2>1, TailLacks DEF ScriptInv, Scripts
  <2>3. CASE Done /\ UNCHANGED armed
    <3>1. HostJob'
      BY <2>1, <2>3 DEF Done, ScriptInv, HostJob
    <3> QED
      BY <2>1, <2>3, <3>1, DoneKeepsScripts DEF ScriptInv, AskedIsNext, Waiting
  <2>4. CASE armed' = TRUE /\ todo' = Tail(todo) /\ UNCHANGED job
    <3>1. Lacks(todo', "SHADOW") /\ todo' \in Seq(Steps)
      BY <2>1, <2>2, <2>4, TailLacks, UnarmedGoesOn DEF ScriptInv, Scripts
    <3>2. Scripts'
      BY <2>2, <2>4, <3>1 DEF Scripts
    <3>3. HostJob'
      BY <2>1, <2>2, <2>4 DEF ScriptInv, HostJob
    <3> QED
      BY <2>1, <3>2, <3>3 DEF ScriptInv, AskedIsNext, Waiting
  <2> QED
    BY <1>3, <2>3, <2>4 DEF Claim
<1>4. CASE AskPlain \/ OpenPlan \/ AskFirstBatch \/ AskAppend \/ AskSplice \/ Pump
  BY <1>4, RequestScripts
<1>5. CASE GetAnswer
  <2>1. /\ Waiting /\ asked' = "NONE"
        /\ \/ Fault
           \/ (\E says : todo' = Rest(says)) /\ UNCHANGED <<job, armed, host>>
    BY <1>5 DEF GetAnswer, Receive
  <2> QED
    BY <2>1, FaultKeepsScripts, AnswerKeepsScripts
<1>6. CASE TimeOut
  <2>1. /\ asked' = "NONE"
        /\ \/ Fault
           \/ /\ Done /\ UNCHANGED host
              /\ UNCHANGED armed \/ (armed' = FALSE /\ job = "fault")
    BY <1>6 DEF TimeOut, GiveUp
  <2>2. CASE /\ Done /\ UNCHANGED host
             /\ UNCHANGED armed \/ (armed' = FALSE /\ job = "fault")
    <3>1. HostJob'
      BY <2>2 DEF Done, ScriptInv, HostJob
    <3> QED
      BY <2>1, <2>2, <3>1, DoneKeepsScripts DEF ScriptInv, AskedIsNext, Waiting
  <2> QED
    BY <2>1, <2>2, FaultKeepsScripts
<1>7. CASE PrepareEnds \/ StartEnds \/ PollEnds \/ FeedbackEnds \/ StopEnds
           \/ FaultEnds \/ OtherEnds
  BY <1>7, EndScripts
<1>8. CASE Crash
  <2>1. HostJob' /\ asked' = "NONE" /\ Done
    BY <1>8 DEF Crash, Done, HostJob
  <2> QED
    BY <2>1, DoneKeepsScripts DEF ScriptInv, AskedIsNext, Waiting
<1>9. CASE Firmware
  BY <1>1, <1>9
     DEF Firmware, Handle, Hello, Heartbeat, PrepareShadow, ArmRequest, Enable,
         SafeStop, ExecutorDiagnostics, TrackingDiagnostics, FeedbackSnapshot,
         StreamOpen, SetpointBatch, SpliceBatch, Admit, Answer, AnswerAt, adapter,
         operation
<1>10. CASE Environment \/ Loss \/ UNCHANGED vars
  BY <1>1, <1>10
     DEF Environment, Loss, LoseRequest, LoseAnswer, adapter, operation, link, vars
<1> QED
  BY <1>2, <1>3, <1>4, <1>5, <1>6, <1>7, <1>8, <1>9, <1>10 DEF Next, Exchange

\* The scripts are in order at all times.
LEMMA SpecScripts == Spec => []ScriptInv
<1>1. Init => ScriptInv
  BY ShortScripts DEF Init, ScriptInv, Scripts, HostJob, AskedIsNext, Waiting
<1>2. ScriptInv /\ [Next]_vars => ScriptInv'
  BY NextScripts
<1> QED
  BY <1>1, <1>2, PTL DEF Spec

-----------------------------------------------------------------------------
(* LinkInv.                                                                  *)

\* Frames that are not waited for any more keep their kind and their order.
LEMMA DisownedRequests ==
    ASSUME NEW S, NEW s \in Requests(S), NEW U, S \subseteq U
    PROVE  /\ Disowned(s) \in Requests(U)
           /\ Len(Disowned(s)) = Len(s) /\ Len(s) \in Nat
           /\ \A i \in 1 .. Len(s) :
                 Disowned(s)[i].kind = s[i].kind /\ ~Disowned(s)[i].mine
<1> DEFINE R(V) == [kind : V, mine : BOOLEAN, content : V]
           new(i) == [s[i] EXCEPT !.mine = FALSE]
<1>0. s \in Seq(R(S))
  BY DEF Requests
<1>1. /\ Len(s) \in Nat /\ DOMAIN s = 1 .. Len(s)
      /\ \A i \in 1 .. Len(s) : s[i] \in R(S)
  <2> HIDE DEF R
  <2> QED
    BY <1>0
<1>2. \A r \in R(S) : LET n == [r EXCEPT !.mine = FALSE]
                      IN  n \in R(U) /\ n.kind = r.kind /\ n.mine = FALSE
  OBVIOUS
<1>3. \A i \in 1 .. Len(s) :
         new(i) \in R(U) /\ new(i).kind = s[i].kind /\ ~new(i).mine
  BY <1>1, <1>2
<1>4. Disowned(s) = [i \in 1 .. Len(s) |-> new(i)]
  BY <1>1 DEF Disowned
<1> HIDE DEF R, new
<1>5. Disowned(s) \in Seq(R(U)) /\ Len(Disowned(s)) = Len(s)
  BY <1>1, <1>3, <1>4
<1> QED
  BY <1>1, <1>3, <1>4, <1>5 DEF Requests, R

LEMMA DisownedAnswers ==
    ASSUME NEW S, NEW s \in Answers(S)
    PROVE  /\ Disowned(s) \in Answers(S)
           /\ Len(Disowned(s)) = Len(s) /\ Len(s) \in Nat
           /\ \A i \in 1 .. Len(s) : ~Disowned(s)[i].mine
<1> DEFINE R == [kind : S, mine : BOOLEAN, says : S, at : S]
           new(i) == [s[i] EXCEPT !.mine = FALSE]
<1>0. s \in Seq(R)
  BY DEF Answers
<1>1. /\ Len(s) \in Nat /\ DOMAIN s = 1 .. Len(s)
      /\ \A i \in 1 .. Len(s) : s[i] \in R
  <2> HIDE DEF R
  <2> QED
    BY <1>0
<1>2. \A r \in R : LET n == [r EXCEPT !.mine = FALSE] IN n \in R /\ n.mine = FALSE
  OBVIOUS
<1>3. \A i \in 1 .. Len(s) : new(i) \in R /\ ~new(i).mine
  BY <1>1, <1>2
<1>4. Disowned(s) = [i \in 1 .. Len(s) |-> new(i)]
  BY <1>1 DEF Disowned
<1> HIDE DEF R, new
<1>5. Disowned(s) \in Seq(R) /\ Len(Disowned(s)) = Len(s)
  BY <1>1, <1>3, <1>4
<1> QED
  BY <1>1, <1>3, <1>4, <1>5 DEF Answers, R

\* A request joins those on their way, which are not waited for any more.
LEMMA SendAppends ==
    ASSUME LinkInv, NEW kind, NEW content, Send(kind, content)
    PROVE  /\ LinkInv'
           /\ Len(up') = Len(up) + 1 /\ Len(up) \in Nat
           /\ \A i \in 1 .. Len(up) : up'[i].kind = up[i].kind
           /\ up'[Len(up) + 1].kind = kind
<1>1. PICK S : up \in Requests(S)
  BY DEF LinkInv, LinkType
<1>2. PICK T : down \in Answers(T)
  BY DEF LinkInv, LinkType
<1> DEFINE U == S \cup {kind, content}
           old == Disowned(up)
           new == [kind |-> kind, mine |-> TRUE, content |-> content]
<1>3. /\ old \in Requests(U) /\ Len(old) = Len(up) /\ Len(up) \in Nat
      /\ \A i \in 1 .. Len(up) : old[i].kind = up[i].kind /\ ~old[i].mine
  BY <1>1, DisownedRequests
<1>4. /\ down' \in Answers(T) /\ Len(down') = Len(down) /\ Len(down) \in Nat
      /\ \A i \in 1 .. Len(down) : ~down'[i].mine
  BY <1>2, DisownedAnswers DEF Send
<1>5. new \in [kind : U, mine : BOOLEAN, content : U] /\ up' = Append(old, new)
      /\ asked' = kind /\ new.kind = kind /\ new.mine
  BY DEF Send
<1> HIDE DEF U, old, new
<1>6. /\ up' \in Requests(U) /\ Len(up') = Len(up) + 1
      /\ \A i \in 1 .. Len(up) : up'[i] = old[i]
      /\ up'[Len(up) + 1] = new
  BY <1>3, <1>5 DEF Requests
<1>7. NewestIsLast'
  BY <1>3, <1>5, <1>6 DEF NewestIsLast
<1>8. AnsweredIsEmpty'
  BY <1>4 DEF AnsweredIsEmpty
<1>9. LinkType'
  BY <1>4, <1>6 DEF LinkType
<1> QED
  BY <1>3, <1>5, <1>6, <1>7, <1>8, <1>9 DEF LinkInv

\* The frames behind the first one of the link.
LEMMA TailOfLink ==
    ASSUME NEW S, NEW s \in Seq(S), s # <<>>
    PROVE  /\ Tail(s) \in Seq(S) /\ Len(Tail(s)) = Len(s) - 1
           /\ Len(s) \in Nat \ {0} /\ Head(s) = s[1] /\ Head(s) \in S
           /\ \A i \in 1 .. Len(Tail(s)) : Tail(s)[i] = s[i + 1]
  OBVIOUS

LEMMA SequenceOfMore ==
    ASSUME NEW S, NEW T, S \subseteq T, NEW s \in Seq(S)
    PROVE  s \in Seq(T)
  OBVIOUS

LEMMA SuffixOfLink ==
    ASSUME NEW S, NEW s \in Seq(S), NEW i \in DOMAIN s
    PROVE  SubSeq(s, i + 1, Len(s)) \in Seq(S)
  BY SubSeqProperties

\* The newest request stays the last when the first one leaves the link.
LEMMA TailKeepsNewest ==
    ASSUME NewestIsLast, asked' = asked, Len(up) \in Nat \ {0},
           Len(up') = Len(up) - 1,
           \A i \in 1 .. Len(up') : up'[i] = up[i + 1]
    PROVE  NewestIsLast'
<1> SUFFICES ASSUME asked # "NONE", NEW i \in 1 .. Len(up'), up'[i].mine
             PROVE  i = Len(up') /\ up'[i].kind = asked
  BY DEF NewestIsLast, Waiting
<1>1. i + 1 \in 1 .. Len(up) /\ up'[i] = up[i + 1]
  OBVIOUS
<1>2. i + 1 = Len(up) /\ up[i + 1].kind = asked
  BY <1>1 DEF NewestIsLast, Waiting
<1> QED
  BY <1>1, <1>2

\* The firmware does not power the arms, and takes no stop back.
OnlyStops ==
    (latched => latched') /\ (armsOn' => armsOn) /\ (ArmsAreOff => ArmsAreOff')

\* What a handler does to the link and the arms.
LEMMA HandleEffect ==
    ASSUME Handle
    PROVE  /\ up # <<>> /\ up' = Tail(up) /\ asked' = asked
           /\ \E k, says, at :
                 down' = Append(down, [kind |-> k, mine |-> Head(up).mine,
                                       says |-> says, at |-> at])
           /\ latched => latched'
           /\ armsOn' => armsOn \/ Head(up).kind = "ARM"
           /\ ArmsAreOff => ArmsAreOff' \/ Head(up).kind = "ARM"
           /\ Head(up).kind = "SAFE_STOP" => latched' /\ ArmsAreOff'
<1>1. up # <<>> /\ \E says, at : AnswerAt(says, at)
  BY DEF Handle, Handles, Answer, Hello, Heartbeat, PrepareShadow, ArmRequest,
         Enable, SafeStop, ExecutorDiagnostics, TrackingDiagnostics,
         FeedbackSnapshot, StreamOpen, SetpointBatch, SpliceBatch, Admit
<1>2. /\ up' = Tail(up) /\ asked' = asked
      /\ \E k, says, at :
            down' = Append(down, [kind |-> k, mine |-> Head(up).mine,
                                  says |-> says, at |-> at])
  BY <1>1 DEF AnswerAt
<1>3. CASE Hello \/ Heartbeat \/ Enable \/ ExecutorDiagnostics
           \/ TrackingDiagnostics \/ FeedbackSnapshot
  <2>1. UNCHANGED <<latched, armsOn, torque, faulted>> /\ Head(up).kind # "SAFE_STOP"
    BY <1>3 DEF Hello, Heartbeat, Enable, ExecutorDiagnostics, Handles,
                TrackingDiagnostics, FeedbackSnapshot, firmware, arms
  <2> QED
    BY <1>1, <1>2, <2>1 DEF ArmsAreOff
<1>4. CASE PrepareShadow
  <2>1. Head(up).kind # "SAFE_STOP"
    BY <1>4 DEF PrepareShadow, Handles
  <2>2. (armsOn' => armsOn) /\ (ArmsAreOff => ArmsAreOff')
    <3>1. armsOn' = FALSE
      BY <1>4, Zenon DEF PrepareShadow
    <3>2. \/ torque' = FALSE
          \/ torque' \in {torque, FALSE} /\ faulted' = TRUE
      BY <1>4, Zenon DEF PrepareShadow
    <3> QED
      BY <3>1, <3>2 DEF ArmsAreOff
  <2>3. latched => latched'
    BY <1>4, Zenon DEF PrepareShadow
  <2> QED
    BY <1>1, <1>2, <2>1, <2>2, <2>3, Zenon
<1>5. CASE ArmRequest
  <2>1. Head(up).kind = "ARM" /\ latched' = latched
    BY <1>5 DEF ArmRequest, Handles
  <2> QED
    BY <1>1, <1>2, <2>1
<1>6. CASE SafeStop
  BY <1>1, <1>2, <1>6 DEF SafeStop, CoordinatedStop, ArmsAreOff
<1>7. CASE StreamOpen \/ SetpointBatch \/ SpliceBatch
  <2>1. UNCHANGED <<latched, armsOn, torque, faulted>> /\ Head(up).kind # "SAFE_STOP"
    BY <1>7 DEF StreamOpen, SetpointBatch, SpliceBatch, Admit, Handles, firmware,
                arms
  <2> QED
    BY <1>1, <1>2, <2>1 DEF ArmsAreOff
<1> QED
  BY <1>3, <1>4, <1>5, <1>6, <1>7 DEF Handle

\* Left to itself the firmware only ever stops the arms.
LEMMA EnvironmentEffect ==
    ASSUME Environment
    PROVE  /\ UNCHANGED <<link, adapter>>
           /\ latched => latched'
           /\ armsOn' => armsOn
           /\ ArmsAreOff => ArmsAreOff'
  BY DEF Environment, Clock, Watchdog, FirmwareStops, Control, Stop,
         CoordinatedStop, ArmsAreOff, StreamStarts, SampleApplied, Underflow, SettleEnds, arms

\* A step of the adapter that asks: the arms are powered or prepared by the
\* script alone.
Asks(kind, content) ==
    /\ Send(kind, content)
    /\ asked = "NONE" /\ job # "none" /\ todo # <<>>
    /\ kind \in {"ARM", "SHADOW"} => Head(todo) = kind
    /\ UNCHANGED <<job, todo, host, armed>>

\* The steps of the adapter but for answers, deadlines and its end.
HostStep ==
    \/ Operation \/ Claim \/ AskPlain \/ OpenPlan \/ AskFirstBatch
    \/ AskAppend \/ AskSplice \/ Pump \/ PrepareEnds \/ StartEnds
    \/ PollEnds \/ FeedbackEnds \/ StopEnds \/ FaultEnds \/ OtherEnds

\* They leave the link alone, or ask.
LEMMA HostAsks ==
    ASSUME HostStep
    PROVE  /\ UNCHANGED <<latched, armsOn, torque, faulted>>
           /\ UNCHANGED link \/ \E kind, content : Asks(kind, content)
<1> USE DEF Asks, Next1, Waiting
<1>1. CASE Operation
  BY <1>1
     DEF Operation, Prepare, RefreshUnarmedAnchor, Start, AppendPoints,
         SplicePoints, StrayClaim, Poll, Keepalive, PublishFeedback, StopStream,
         Begin, firmware, arms
<1>2. CASE Claim \/ PrepareEnds \/ StartEnds \/ PollEnds \/ FeedbackEnds
           \/ StopEnds \/ FaultEnds \/ OtherEnds
  BY <1>2
     DEF Claim, PrepareEnds, StartEnds, PollEnds, FeedbackEnds, StopEnds,
         FaultEnds, OtherEnds, Ends, firmware, arms
<1>3. CASE AskPlain
  BY <1>3 DEF AskPlain, Ask, firmware, arms
<1>4. CASE AskFirstBatch
  BY <1>4 DEF AskFirstBatch, Ask, firmware, arms
<1>5. CASE OpenPlan
  BY <1>5 DEF OpenPlan, Ask, firmware, arms
<1>6. CASE AskAppend
  BY <1>6 DEF AskAppend, Ask, firmware, arms
<1>7. CASE AskSplice
  BY <1>7 DEF AskSplice, Ask, firmware, arms
<1>8. CASE Pump
  BY <1>8 DEF Pump, Ask, firmware, arms
<1> QED
  BY <1>1, <1>2, <1>3, <1>4, <1>5, <1>6, <1>7, <1>8 DEF HostStep

\* Every step keeps the link in order.
LEMMA NextLink ==
    ASSUME LinkInv, [Next]_vars
    PROVE  LinkInv'
<1>1. PICK S : up \in Requests(S)
  BY DEF LinkInv, LinkType
<1>2. PICK T : down \in Answers(T)
  BY DEF LinkInv, LinkType
<1>3. CASE UNCHANGED link /\ OnlyStops
  <2>1. UNCHANGED <<up, down, asked>>
    BY <1>3 DEF link
  <2>2. LinkType' /\ NewestIsLast'
    BY <2>1 DEF LinkInv, LinkType, NewestIsLast, Waiting
  <2>3. AnsweredIsEmpty'
    BY <1>3, <2>1 DEF LinkInv, AnsweredIsEmpty, Waiting, OnlyStops
  <2> QED
    BY <2>2, <2>3 DEF LinkInv
<1>4. CASE HostStep
  <2>1. /\ UNCHANGED <<latched, armsOn, torque, faulted>>
        /\ UNCHANGED link \/ \E kind, content : Send(kind, content)
    BY <1>4, HostAsks DEF Asks
  <2> QED
    BY <1>3, <2>1, SendAppends DEF OnlyStops, ArmsAreOff
<1>5. CASE GetAnswer \/ TimeOut \/ Crash
  <2>1. /\ asked' = "NONE" /\ up' = up
        /\ \/ down' = down \/ down' = <<>>
           \/ \E i \in DOMAIN down : down' = SubSeq(down, i + 1, Len(down))
    BY <1>5 DEF GetAnswer, Receive, TimeOut, GiveUp, Crash
  <2>2. down' \in Answers(T)
    <3> DEFINE R == [kind : T, mine : BOOLEAN, says : T, at : T]
    <3>1. down \in Seq(R) /\ Answers(T) = Seq(R)
      BY <1>2 DEF Answers
    <3> HIDE DEF R
    <3>2. CASE down' = down \/ down' = <<>>
      <4>1. <<>> \in Seq(R)
        OBVIOUS
      <4> QED
        BY <3>1, <3>2, <4>1, Zenon
    <3>3. ASSUME NEW i \in DOMAIN down, down' = SubSeq(down, i + 1, Len(down))
          PROVE  down' \in Seq(R)
      BY <3>1, <3>3, SuffixOfLink
    <3> QED
      BY <2>1, <3>1, <3>2, <3>3
  <2> QED
    BY <1>1, <2>1, <2>2 DEF LinkInv, LinkType, NewestIsLast, AnsweredIsEmpty, Waiting
<1>6. CASE Firmware
  <2>1. /\ up # <<>> /\ up' = Tail(up) /\ asked' = asked
        /\ Head(up).kind = "SAFE_STOP" => latched' /\ ArmsAreOff'
    BY <1>6, HandleEffect DEF Firmware
  <2>2. PICK k, says, at :
           down' = Append(down, [kind |-> k, mine |-> Head(up).mine,
                                 says |-> says, at |-> at])
    BY <1>6, HandleEffect DEF Firmware
  <2> DEFINE U == T \cup {k, says, at}
             new == [kind |-> k, mine |-> Head(up).mine, says |-> says, at |-> at]
  <2>3. /\ up' \in Requests(S) /\ Len(up') = Len(up) - 1
        /\ Len(up) \in Nat \ {0} /\ Head(up) = up[1]
        /\ \A i \in 1 .. Len(up') : up'[i] = up[i + 1]
    BY <1>1, <2>1, TailOfLink DEF Requests
  <2>4. up[1].mine \in BOOLEAN
    <3>1. up[1] \in [kind : S, mine : BOOLEAN, content : S]
      BY <1>1, <2>1, <2>3, TailOfLink DEF Requests
    <3> QED
      BY <3>1
  <2>5. down \in Answers(U)
    <3>1. [kind : T, mine : BOOLEAN, says : T, at : T]
             \subseteq [kind : U, mine : BOOLEAN, says : U, at : U]
      OBVIOUS
    <3> QED
      BY <1>2, <3>1, SequenceOfMore DEF Answers
  <2>6. new \in [kind : U, mine : BOOLEAN, says : U, at : U] /\ new.mine = up[1].mine
    BY <2>3, <2>4
  <2>7. down' = Append(down, new)
    BY <2>2
  <2> HIDE DEF U, new
  <2>8. /\ down' \in Answers(U) /\ Len(down') = Len(down) + 1 /\ Len(down) \in Nat
        /\ \A i \in 1 .. Len(down) : down'[i] = down[i]
        /\ down'[Len(down) + 1] = new
    BY <2>5, <2>6, <2>7 DEF Answers
  <2>9. NewestIsLast'
    BY <2>1, <2>3, TailKeepsNewest DEF LinkInv
  <2>10. AnsweredIsEmpty'
    <3> SUFFICES ASSUME asked # "NONE", NEW i \in 1 .. Len(down'), down'[i].mine
                 PROVE  /\ up' = <<>>
                        /\ asked = "SAFE_STOP" => latched' /\ ArmsAreOff'
      BY <2>1 DEF AnsweredIsEmpty, Waiting
    <3>1. i = Len(down) + 1
      BY <2>1, <2>8 DEF LinkInv, AnsweredIsEmpty, Waiting
    <3>2. up[1].mine
      BY <3>1, <2>6, <2>8
    <3>3. Len(up) = 1 /\ up[1].kind = asked
      BY <3>2, <2>3 DEF LinkInv, NewestIsLast, Waiting
    <3>4. up' = <<>>
      BY <3>3, <2>3 DEF Requests
    <3> QED
      BY <3>3, <3>4, <2>1, <2>3
  <2> QED
    BY <2>3, <2>8, <2>9, <2>10 DEF LinkInv, LinkType
<1>7. CASE Environment
  BY <1>3, <1>7, EnvironmentEffect DEF OnlyStops
<1>8. CASE Loss /\ LoseRequest
  <2>1. /\ up # <<>> /\ up' = Tail(up)
        /\ UNCHANGED <<down, asked, latched, armsOn, torque, faulted>>
    BY <1>8 DEF Loss, LoseRequest, firmware, arms
  <2>2. /\ up' \in Requests(S) /\ Len(up') = Len(up) - 1
        /\ Len(up) \in Nat \ {0}
        /\ \A i \in 1 .. Len(up') : up'[i] = up[i + 1]
    BY <1>1, <2>1, TailOfLink DEF Requests
  <2>3. NewestIsLast'
    BY <2>1, <2>2, TailKeepsNewest DEF LinkInv
  <2>4. AnsweredIsEmpty'
    BY <2>1 DEF LinkInv, AnsweredIsEmpty, Waiting, ArmsAreOff
  <2> QED
    BY <1>2, <2>1, <2>2, <2>3, <2>4 DEF LinkInv, LinkType
<1>9. CASE Loss /\ LoseAnswer
  <2>1. /\ down # <<>> /\ down' = Tail(down)
        /\ UNCHANGED <<up, asked, latched, armsOn, torque, faulted>>
    BY <1>9 DEF Loss, LoseAnswer, firmware, arms
  <2>2. /\ down' \in Answers(T) /\ Len(down') = Len(down) - 1
        /\ Len(down) \in Nat \ {0}
        /\ \A i \in 1 .. Len(down') : down'[i] = down[i + 1]
    BY <1>2, <2>1, TailOfLink DEF Answers
  <2>3. NewestIsLast'
    BY <2>1 DEF LinkInv, NewestIsLast, Waiting
  <2>4. AnsweredIsEmpty'
    BY <2>1, <2>2 DEF LinkInv, AnsweredIsEmpty, Waiting, ArmsAreOff
  <2> QED
    BY <1>1, <2>1, <2>2, <2>3, <2>4 DEF LinkInv, LinkType
<1>10. CASE UNCHANGED vars
  BY <1>3, <1>10 DEF vars, firmware, arms, OnlyStops, ArmsAreOff
<1> QED
  BY <1>4, <1>5, <1>6, <1>7, <1>8, <1>9, <1>10 DEF Next, Exchange, HostStep, Loss

\* The link is in order at all times.
LEMMA SpecLink == Spec => []LinkInv
<1>1. Init => LinkInv
  <2> SUFFICES ASSUME Init PROVE LinkInv
    OBVIOUS
  <2>1. up = <<>> /\ down = <<>> /\ asked = "NONE"
    BY DEF Init
  <2>2. up \in Requests({}) /\ down \in Answers({})
    BY <2>1 DEF Requests, Answers
  <2> QED
    BY <2>1, <2>2 DEF LinkInv, LinkType, NewestIsLast, AnsweredIsEmpty, Waiting
<1>2. LinkInv /\ [Next]_vars => LinkInv'
  BY NextLink
<1> QED
  BY <1>1, <1>2, PTL DEF Spec

-----------------------------------------------------------------------------
(* ArmsInv.                                                                  *)

\* No session comes back, and none is disarmed but by its end; STOP is over
\* only when it was answered.
Onwards ==
    /\ host' \in {"NEW", "READY", "ACTIVE"} => host \in {"NEW", "READY", "ACTIVE"}
    /\ ~armed' /\ host' \in {"NEW", "READY"} => ~armed /\ host \in {"NEW", "READY"}
    /\ (job' = "stop" /\ todo' = <<>>) \/ host' = "STOPPED" =>
          (job = "stop" /\ todo = <<>>) \/ host = "STOPPED"

\* The adapter goes on so with every step but an answer.
LEMMA HostGoesOn ==
    ASSUME ScriptInv, HostStep
    PROVE  Onwards
<1>1. CASE Operation
  <2>1. CASE StopStream
    <3>1. todo' = <<"SAFE_STOP">> /\ UNCHANGED <<host, armed>>
      BY <2>1 DEF StopStream, Begin
    <3>2. todo' # <<>>
      BY <3>1
    <3> QED
      BY <3>1, <3>2 DEF Onwards
  <2>2. CASE ~StopStream
    <3>1. UNCHANGED <<host, armed>> /\ job' # "stop"
      BY <1>1, <2>2
         DEF Operation, Prepare, RefreshUnarmedAnchor, Start, AppendPoints,
             SplicePoints, StrayClaim, Poll, Keepalive, PublishFeedback, Begin,
             Idle, operation
    <3> QED
      BY <3>1 DEF Onwards
  <2> QED
    BY <2>1, <2>2
<1>2. CASE Fault
  BY <1>2 DEF Fault, Onwards
<1>3. CASE Claim
  <2>1. UNCHANGED host /\ (job' = "none" \/ job' = job) /\ todo # <<>>
        /\ Head(todo) = "CLAIM" /\ (armed' = armed \/ armed' = TRUE)
    BY <1>3 DEF Claim, Done, Next1
  <2>2. job # "stop"
    BY <2>1, TailLacks DEF ScriptInv, Scripts
  <2> QED
    BY <2>1, <2>2 DEF Onwards
<1>4. CASE ~Fault /\ (AskPlain \/ OpenPlan \/ AskFirstBatch \/ AskAppend \/ AskSplice)
  <2>1. UNCHANGED <<host, armed, job, todo>>
    BY <1>4 DEF AskPlain, OpenPlan, AskFirstBatch, AskAppend, AskSplice, Ask
  <2> QED
    BY <2>1 DEF Onwards
<1>5. CASE ~Fault /\ Pump
  <2>1. UNCHANGED <<host, armed, job>> /\ todo # <<>> /\ Head(todo) = "PUMP"
    BY <1>5 DEF Pump, Ask, Next1
  <2>2. "SAFE_STOP" \in Steps
    BY DEF Steps, PlainKinds
  <2>3. job # "stop"
    BY <2>1, <2>2, ShortScripts DEF ScriptInv, Scripts
  <2> QED
    BY <2>1, <2>3 DEF Onwards
<1>6. CASE ~Fault /\ (PrepareEnds \/ StartEnds \/ PollEnds \/ FeedbackEnds
                     \/ StopEnds \/ FaultEnds \/ OtherEnds)
  BY <1>6
     DEF PrepareEnds, StartEnds, PollEnds, FeedbackEnds, StopEnds, FaultEnds,
         OtherEnds, Ends, Done, ScriptInv, HostJob, Onwards
<1> QED
  BY <1>1, <1>2, <1>3, <1>4, <1>5, <1>6 DEF HostStep

\* The arms stay as they should when nothing new is asked of them.
LEMMA ArmsStay ==
    ASSUME ArmsInv, Onwards,
           \A kind : Sent(kind)' => Sent(kind),
           up = <<>> => up' = <<>>, OnlyStops,
           Sent("SHADOW")' /\ host' \in {"NEW", "READY", "ACTIVE"} => asked' = asked
    PROVE  ArmsInv'
<1>1. UnarmedIsOff'
  BY DEF ArmsInv, UnarmedIsOff, Onwards, OnlyStops
<1>2. ShadowIsAlone'
  BY DEF ArmsInv, ShadowIsAlone, Onwards, OnlyStops
<1>3. StopIsDone'
  BY DEF ArmsInv, StopIsDone, Onwards, OnlyStops
<1> QED
  BY <1>1, <1>2, <1>3 DEF ArmsInv

\* Frames that leave the link add nothing to it.
LEMMA LinkShrinks ==
    ASSUME LinkInv, up # <<>>, up' = Tail(up)
    PROVE  /\ \A kind : Sent(kind)' => Sent(kind)
           /\ Sent(Head(up).kind)
<1>1. PICK S : up \in Requests(S)
  BY DEF LinkInv, LinkType
<1>2. /\ Len(up') = Len(up) - 1 /\ Len(up) \in Nat \ {0} /\ Head(up) = up[1]
      /\ \A i \in 1 .. Len(up') : up'[i] = up[i + 1]
  BY <1>1, TailOfLink DEF Requests
<1>3. \A i \in 1 .. Len(up') : i + 1 \in 1 .. Len(up)
  BY <1>2
<1> QED
  BY <1>2, <1>3 DEF Sent

\* What is asked of the arms fits the session.
LEMMA AskKeepsArms ==
    ASSUME ScriptInv, LinkInv, ArmsInv, NEW kind, NEW content, Asks(kind, content),
           UNCHANGED <<latched, armsOn, torque, faulted>>
    PROVE  ArmsInv'
<1>1. /\ Len(up') = Len(up) + 1 /\ Len(up) \in Nat
      /\ \A i \in 1 .. Len(up) : up'[i].kind = up[i].kind
      /\ up'[Len(up) + 1].kind = kind
  BY SendAppends DEF Asks
<1>2. \A k : Sent(k)' => Sent(k) \/ k = kind
  BY <1>1 DEF Sent
<1>3. /\ asked = "NONE" /\ job # "none" /\ todo # <<>> /\ asked' = kind
      /\ UNCHANGED <<job, todo, host, armed>> /\ todo \in Seq(Steps)
      /\ kind \in {"ARM", "SHADOW"} => ~Lacks(todo, kind)
  <2>1. /\ asked = "NONE" /\ job # "none" /\ todo # <<>> /\ asked' = kind
        /\ UNCHANGED <<job, todo, host, armed>> /\ todo \in Seq(Steps)
        /\ kind \in {"ARM", "SHADOW"} => Head(todo) = kind
    BY DEF Asks, Send, ScriptInv, Scripts
  <2> QED
    BY <2>1, TailLacks
<1>4. kind = "ARM" => armed /\ host = "READY"
  <2> SUFFICES ASSUME kind = "ARM"
               PROVE  armed /\ host = "READY"
    OBVIOUS
  <2>1. Head(todo) = "ARM" /\ ~Lacks(todo, "ARM")
    BY <1>3 DEF Asks
  <2>2. job = "start"
    BY <2>1 DEF ScriptInv, Scripts
  <2>3. armed
    BY <2>1, <2>2, UnarmedGoesOn DEF ScriptInv, Scripts
  <2> QED
    BY <2>2, <2>3 DEF ScriptInv, HostJob
<1>5. kind = "SHADOW" => ~armed /\ host \in {"NEW", "READY"}
  <2> SUFFICES ASSUME kind = "SHADOW"
               PROVE  ~armed /\ host \in {"NEW", "READY"}
    OBVIOUS
  <2>1. ~Lacks(todo, "SHADOW")
    BY <1>3
  <2>2. job \in {"prepare", "refresh"} \/ (job = "start" /\ ~armed)
    BY <2>1 DEF ScriptInv, Scripts
  <2> QED
    BY <2>2 DEF ScriptInv, HostJob
<1>6. Sent("SHADOW") => host \notin {"NEW", "READY", "ACTIVE"}
  BY <1>3 DEF ArmsInv, ShadowIsAlone
<1>7. UnarmedIsOff'
  BY <1>2, <1>3, <1>4 DEF ArmsInv, UnarmedIsOff
<1>8. ShadowIsAlone'
  <2> SUFFICES ASSUME Sent("SHADOW")'
               PROVE  /\ ~armsOn /\ ~Sent("ARM")'
                      /\ kind = "SHADOW" \/ host \notin {"NEW", "READY", "ACTIVE"}
    BY <1>3 DEF ShadowIsAlone
  <2>1. CASE kind = "SHADOW"
    <3>1. ~Sent("ARM") /\ ~armsOn
      BY <2>1, <1>5 DEF ArmsInv, UnarmedIsOff
    <3>2. ~Sent("ARM")'
      BY <2>1, <3>1, <1>2
    <3> QED
      BY <2>1, <3>1, <3>2
  <2>2. CASE kind # "SHADOW"
    <3>1. Sent("SHADOW")
      BY <2>2, <1>2
    <3>2. ~armsOn /\ ~Sent("ARM") /\ kind # "ARM"
      BY <3>1, <1>4, <1>6 DEF ArmsInv, ShadowIsAlone
    <3>3. ~Sent("ARM")'
      BY <3>2, <1>2
    <3> QED
      BY <3>1, <3>2, <3>3, <1>6
  <2> QED
    BY <2>1, <2>2
<1>9. StopIsDone'
  <2>1. host # "STOPPED"
    BY <1>3 DEF ScriptInv, HostJob
  <2> QED
    BY <2>1, <1>3 DEF StopIsDone
<1> QED
  BY <1>7, <1>8, <1>9 DEF ArmsInv

\* An answer is the last of what was on its way; that of STOP confirms it.
LEMMA AnswerKeepsArms ==
    ASSUME ScriptInv, LinkInv, ArmsInv, GetAnswer
    PROVE  ArmsInv'
<1>1. /\ Waiting /\ \E i \in DOMAIN down : down[i].mine
      /\ UNCHANGED <<up, latched, armsOn, torque, faulted>>
      /\ Fault \/ ((\E says : todo' = Rest(says)) /\ UNCHANGED <<job, host, armed>>)
  BY DEF GetAnswer, Receive, FirstMatch, Matches, firmware, arms
<1>2. /\ up = <<>>
      /\ asked = "SAFE_STOP" => latched /\ ArmsAreOff
  <2>1. DOMAIN down = 1 .. Len(down)
    BY DEF LinkInv, LinkType, Answers
  <2> QED
    BY <1>1, <2>1 DEF LinkInv, AnsweredIsEmpty
<1>3. \A kind : ~Sent(kind)'
  BY <1>1, <1>2 DEF Sent
<1>4. ShadowIsAlone'
  BY <1>3 DEF ShadowIsAlone
<1>5. UnarmedIsOff'
  <2>1. ~armed' /\ host' \in {"NEW", "READY"} => ~armed /\ host \in {"NEW", "READY"}
    BY <1>1 DEF Fault
  <2> QED
    BY <1>1, <1>3, <2>1 DEF ArmsInv, UnarmedIsOff
<1>6. StopIsDone'
  <2>1. CASE Fault
    BY <2>1 DEF Fault, StopIsDone
  <2>2. CASE ~Fault
    <3>1. job = "stop" => asked = "SAFE_STOP"
      <4> SUFFICES ASSUME job = "stop"
                   PROVE  asked = "SAFE_STOP"
        OBVIOUS
      <4>1. todo = <<"SAFE_STOP">> /\ Head(todo) = "SAFE_STOP"
        BY <1>1 DEF ScriptInv, Scripts, AskedIsNext
      <4> QED
        BY <1>1, <4>1 DEF ScriptInv, AskedIsNext
    <3>2. host # "STOPPED"
      BY <1>1 DEF ScriptInv, HostJob, AskedIsNext
    <3> QED
      BY <1>1, <1>2, <2>2, <3>1, <3>2 DEF StopIsDone, ArmsAreOff
  <2> QED
    BY <2>1, <2>2
<1> QED
  BY <1>4, <1>5, <1>6 DEF ArmsInv

\* An exchange that is given up ends the session, if it prepares the arms.
LEMMA TimeOutKeepsArms ==
    ASSUME ScriptInv, ArmsInv, TimeOut
    PROVE  ArmsInv'
<1>1. /\ Waiting /\ UNCHANGED <<up, latched, armsOn, torque, faulted>>
      /\ \/ Fault
         \/ Done /\ host' = host /\ job = "fault"
         \/ Done /\ UNCHANGED <<host, armed>> /\ job = "feedback"
  BY DEF TimeOut, GiveUp, Borne, firmware, arms
<1>2. /\ job' # "stop" /\ host' # "STOPPED"
  BY <1>1 DEF Fault, Done, ScriptInv, HostJob
<1>3. \/ host' \notin {"NEW", "READY", "ACTIVE"}
      \/ UNCHANGED <<host, armed>> /\ asked # "SHADOW"
  <2>1. CASE Fault
    BY <2>1 DEF Fault
  <2>2. CASE job = "fault" /\ host' = host
    BY <2>2 DEF ScriptInv, HostJob
  <2>3. CASE job = "feedback" /\ UNCHANGED <<host, armed>>
    <3>1. Lacks(todo, "SHADOW") /\ todo \in Seq(Steps) /\ todo # <<>>
      BY <2>3, <1>1 DEF ScriptInv, Scripts, AskedIsNext
    <3>2. Head(todo) # "SHADOW" /\ (Head(todo) = asked \/ asked = "APPEND")
      BY <3>1, <1>1, TailLacks DEF ScriptInv, AskedIsNext
    <3> QED
      BY <2>3, <3>2
  <2> QED
    BY <1>1, <2>1, <2>2, <2>3
<1>4. \A kind : Sent(kind)' <=> Sent(kind)
  BY <1>1 DEF Sent
<1>5. UnarmedIsOff'
  BY <1>1, <1>3, <1>4 DEF ArmsInv, UnarmedIsOff
<1>6. ShadowIsAlone'
  BY <1>1, <1>3, <1>4 DEF ArmsInv, ShadowIsAlone
<1>7. StopIsDone'
  BY <1>2 DEF StopIsDone
<1> QED
  BY <1>5, <1>6, <1>7 DEF ArmsInv

\* Every step keeps the arms as they should be.
LEMMA NextArms ==
    ASSUME ScriptInv, LinkInv, ArmsInv, [Next]_vars
    PROVE  ArmsInv'
<1>1. CASE HostStep
  <2>1. /\ UNCHANGED <<latched, armsOn, torque, faulted>>
        /\ UNCHANGED link \/ \E kind, content : Asks(kind, content)
    BY <1>1, HostAsks
  <2>2. CASE UNCHANGED link
    <3>1. UNCHANGED <<up, asked>> /\ \A kind : Sent(kind)' => Sent(kind)
      BY <2>2 DEF link, Sent
    <3>2. OnlyStops
      BY <2>1 DEF OnlyStops, ArmsAreOff
    <3> QED
      BY <1>1, <3>1, <3>2, HostGoesOn, ArmsStay
  <2>3. CASE \E kind, content : Asks(kind, content)
    BY <2>1, <2>3, AskKeepsArms
  <2> QED
    BY <2>1, <2>2, <2>3
<1>2. CASE GetAnswer
  BY <1>2, AnswerKeepsArms
<1>3. CASE TimeOut
  BY <1>3, TimeOutKeepsArms
<1>4. CASE Crash
  <2>1. host' = "DEAD" /\ job' = "none"
    BY <1>4 DEF Crash, Done
  <2>2. UNCHANGED <<up, latched, armsOn, torque, faulted>> /\ \A kind : Sent(kind)' => Sent(kind)
    BY <1>4 DEF Crash, Sent, firmware, arms
  <2>3. Sent("SHADOW") => ~armsOn /\ ~Sent("ARM")
    BY DEF ArmsInv, ShadowIsAlone
  <2> QED
    BY <2>1, <2>2, <2>3 DEF ArmsInv, UnarmedIsOff, ShadowIsAlone, StopIsDone
<1>5. CASE Firmware
  <2>1. /\ up # <<>> /\ up' = Tail(up) /\ asked' = asked
        /\ latched => latched'
        /\ armsOn' => armsOn \/ Head(up).kind = "ARM"
        /\ UNCHANGED <<host, armed, job, todo>>
    BY <1>5, HandleEffect DEF Firmware, adapter, operation
  <2>2. /\ \A kind : Sent(kind)' => Sent(kind)
        /\ Sent(Head(up).kind)
    BY <2>1, LinkShrinks
  <2>3. UnarmedIsOff'
    BY <2>1, <2>2 DEF ArmsInv, UnarmedIsOff
  <2>4. ShadowIsAlone'
    BY <2>1, <2>2 DEF ArmsInv, ShadowIsAlone
  <2>5. StopIsDone'
    BY <2>1 DEF ArmsInv, StopIsDone
  <2> QED
    BY <2>3, <2>4, <2>5 DEF ArmsInv
<1>6. CASE Environment
  <2>1. /\ UNCHANGED <<up, asked, host, armed, job, todo>>
    BY <1>6, EnvironmentEffect DEF link, adapter, operation
  <2>2. OnlyStops
    BY <1>6, EnvironmentEffect DEF OnlyStops
  <2>3. Onwards /\ \A kind : Sent(kind)' => Sent(kind)
    BY <2>1 DEF Onwards, Sent
  <2> QED
    BY <2>1, <2>2, <2>3, ArmsStay
<1>7. CASE Loss
  <2>1. /\ UNCHANGED <<asked, host, armed, job, todo, latched, armsOn, torque, faulted>>
        /\ up' = up \/ (up # <<>> /\ up' = Tail(up))
    BY <1>7 DEF Loss, LoseRequest, LoseAnswer, firmware, arms, adapter, operation
  <2>2. \A kind : Sent(kind)' => Sent(kind)
    BY <2>1, LinkShrinks DEF Sent
  <2>3. Onwards /\ OnlyStops /\ (up = <<>> => up' = <<>>)
    BY <2>1 DEF Onwards, OnlyStops, ArmsAreOff
  <2> QED
    BY <2>1, <2>2, <2>3, ArmsStay
<1>8. CASE UNCHANGED vars
  <2>1. UNCHANGED <<up, asked, host, armed, job, todo, latched, armsOn, torque, faulted>>
    BY <1>8 DEF vars, firmware, arms, link, adapter, operation
  <2>2. Onwards /\ \A kind : Sent(kind)' => Sent(kind)
    BY <2>1 DEF Onwards, Sent
  <2>3. OnlyStops
    BY <2>1 DEF OnlyStops, ArmsAreOff
  <2> QED
    BY <2>1, <2>2, <2>3, ArmsStay
<1> QED
  BY <1>1, <1>2, <1>3, <1>4, <1>5, <1>6, <1>7, <1>8 DEF Next, Exchange, HostStep

LEMMA SpecArms == Spec => []ArmsInv
<1>1. Init => ArmsInv
  <2> SUFFICES ASSUME Init PROVE ArmsInv
    OBVIOUS
  <2>1. up = <<>> /\ ~armsOn /\ job = "none" /\ host = "NEW"
    BY DEF Init, FirmwareInit
  <2>2. \A kind : ~Sent(kind)
    BY <2>1 DEF Sent
  <2> QED
    BY <2>1, <2>2 DEF ArmsInv, UnarmedIsOff, ShadowIsAlone, StopIsDone
<1>2. ScriptInv /\ LinkInv /\ ArmsInv /\ [Next]_vars => ArmsInv'
  BY NextArms
<1> QED
  BY <1>1, <1>2, SpecScripts, SpecLink, PTL DEF Spec

-----------------------------------------------------------------------------
(* The theorems.                                                             *)

\* PREPARE_SHADOW, which takes the torque off the arms before anything else,
\* is never on its way to arms that are powered, whatever the link loses or
\* delays and however the session ends.
THEOREM SpecNoTorqueGap == Spec => []NoTorqueGap
<1>1. LinkInv /\ ArmsInv => NoTorqueGap
  <2> SUFFICES ASSUME LinkInv, ArmsInv, NEW i \in DOMAIN up, up[i].kind = "SHADOW"
               PROVE  ~armsOn
    BY DEF NoTorqueGap
  <2>1. DOMAIN up = 1 .. Len(up)
    BY DEF LinkInv, LinkType, Requests
  <2>2. Sent("SHADOW")
    BY <2>1 DEF Sent
  <2> QED
    BY <2>2 DEF ArmsInv, ShadowIsAlone
<1> QED
  BY <1>1, SpecLink, SpecArms, PTL

\* When STOP has succeeded, the stop is latched and the arms are switched off,
\* or one that failed to is on record as a fault: the answer it went by is its
\* own, and nothing was left on its way that could power them again.
THEOREM SpecStopIsConfirmed == Spec => []StopIsConfirmed
<1>1. ArmsInv => StopIsConfirmed
  BY DEF ArmsInv, StopIsDone, StopIsConfirmed
<1> QED
  BY <1>1, SpecArms, PTL

=============================================================================
