---------------------------- MODULE HostUartProofs ----------------------------
(* Proofs about HostUart, for rings, queues and bursts of every size: no      *)
(* service runs on bytes from both sides of a break without a latched stop,   *)
(* and no reply is overwritten on its way out before one.                     *)
EXTENDS HostUart, SequenceTheorems, TLAPS

Byte == [first : BOOLEAN, damaged : BOOLEAN, break : BOOLEAN]

\* The type invariant, in parts: the flags, and the rest of each side.
Flags ==
    /\ starts \in BOOLEAN /\ missing \in BOOLEAN /\ armed \in BOOLEAN
    /\ rxFault \in BOOLEAN /\ broken \in BOOLEAN /\ stopped \in BOOLEAN
    /\ active \in BOOLEAN /\ txFault \in BOOLEAN /\ cut \in BOOLEAN

ReceiverType == ring \in Seq(Byte) /\ Len(ring) < RingCapacity

LoopType ==
    /\ at \in {"top", "error", "burst", "reply", "check", "service"}
    /\ left \in 0 .. BurstMax /\ parser \in {"empty", "whole", "torn"}

TransmitterType ==
    /\ head \in Slots /\ tail \in Slots /\ count \in 0 .. QueueDepth
    /\ dma \in Slots \cup {Quiet}

\* The bytes in the ring come from both sides of a break.
BreakInRing == \E i \in 1 .. Len(ring) : ring[i].break

\* A break is known to the main loop, or was dealt with.
BreakIsFlagged ==
    missing \/ ~armed \/ BreakInRing \/ broken =>
        rxFault \/ stopped \/ at = "error"

\* What the DMA was given by the queue is the queue's head.
ActiveIsHead == active => dma = head /\ count > 0

\* The slot after the last one of the queue.
QueueEnd == IF head + count < QueueDepth THEN head + count
            ELSE head + count - QueueDepth

\* Until the first fault the queue and the DMA agree.
QueueAgrees ==
    ~stopped /\ ~txFault =>
        /\ tail = QueueEnd
        /\ dma # Quiet => active
        /\ ~active => count = 0

IInv ==
    /\ Flags /\ ReceiverType /\ LoopType /\ TransmitterType
    /\ BreakIsFlagged /\ BreakEndsWithBurst
    /\ ActiveIsHead /\ QueueAgrees /\ CutReplyIsStopped

-----------------------------------------------------------------------------
\* The index of the queue wraps at its end.
LEMMA NextSlotWraps ==
    ASSUME NEW i \in Slots
    PROVE  NextSlot(i) = IF i + 1 = QueueDepth THEN 0 ELSE i + 1
<1>1. CASE i + 1 = QueueDepth
  BY <1>1, UartAssumption DEF NextSlot, Slots
<1>2. CASE i + 1 # QueueDepth
  BY <1>2, UartAssumption DEF NextSlot, Slots
<1> QED BY <1>1, <1>2

LEMMA NextSlotTyped == ASSUME NEW i \in Slots PROVE NextSlot(i) \in Slots
BY NextSlotWraps, UartAssumption DEF Slots

\* No step gives a flag another value than TRUE or FALSE.
LEMMA NextFlags == ASSUME Flags, [Next]_vars PROVE Flags'
<1> USE DEF Flags, receiver, loop, transmitter
<1>1. CASE ByteArrives \/ ReceiveError
  <2>1. missing' \in BOOLEAN
    BY <1>1, Zenon DEF ByteArrives, ReceiveError, Store
  <2>2. rxFault' \in BOOLEAN
    BY <1>1, Zenon DEF ByteArrives, ReceiveError
  <2> QED BY <1>1, <2>1, <2>2 DEF ByteArrives, ReceiveError, Receiving, OnError
<1>2. CASE TransmitError BY <1>2 DEF TransmitError, OnError
<1>3. CASE TransmitComplete
  BY <1>3 DEF TransmitComplete, StartNext, StartAt
<1>4. CASE BurstBegins \/ BurstCheck
  <2>1. missing' \in BOOLEAN
    BY <1>4, Zenon DEF BurstBegins, BurstCheck, BurstChecked, TakeFault
  <2> QED BY <1>4, <2>1 DEF BurstBegins, BurstCheck, BurstChecked, TakeFault
<1>5. CASE FaultHandled BY <1>5 DEF FaultHandled
<1>6. CASE TakeByte
  <2>1. broken' \in BOOLEAN BY <1>6, Zenon DEF TakeByte
  <2> QED BY <1>6, <2>1 DEF TakeByte
<1>7. CASE Reply
  <2>1. cut' \in BOOLEAN BY <1>7, Zenon DEF Reply, Enqueue
  <2> QED BY <1>7, <2>1 DEF Reply, Enqueue, StartAt
<1>8. CASE BurstEnds BY <1>8 DEF BurstEnds
<1>9. CASE Service
  <2>1. stopped' \in BOOLEAN BY <1>9, Zenon DEF Service
  <2> QED BY <1>9, <2>1 DEF Service
<1>10. CASE UNCHANGED vars BY <1>10 DEF vars
<1> QED
  BY <1>1, <1>2, <1>3, <1>4, <1>5, <1>6, <1>7, <1>8, <1>9, <1>10
  DEF Next, MainLoop, Interrupt

LEMMA InitIInv == Init => IInv
<1> SUFFICES ASSUME Init PROVE IInv OBVIOUS
<1> USE UartAssumption DEF Init
<1>0. Flags BY DEF Flags
<1>1. ReceiverType BY DEF ReceiverType
<1>2. LoopType BY DEF LoopType
<1>3. TransmitterType BY DEF TransmitterType, Slots, Quiet
<1>4. BreakIsFlagged
  <2>1. ~BreakInRing BY DEF BreakInRing
  <2> QED BY <2>1 DEF BreakIsFlagged
<1>5. BreakEndsWithBurst BY DEF BreakEndsWithBurst
<1>6. ActiveIsHead /\ QueueAgrees /\ CutReplyIsStopped
  BY DEF ActiveIsHead, QueueAgrees, QueueEnd, CutReplyIsStopped
<1> QED BY <1>0, <1>1, <1>2, <1>3, <1>4, <1>5, <1>6 DEF IInv

-----------------------------------------------------------------------------
(* The receiver.                                                             *)

\* Storing a byte keeps the ring's type, and a break is not forgotten.
LEMMA StoreKeeps ==
    ASSUME Flags, ReceiverType, NEW damaged \in BOOLEAN, Store(damaged)
    PROVE  /\ ring' \in Seq(Byte) /\ Len(ring') < RingCapacity
           /\ missing' \/ BreakInRing' =>
                missing \/ BreakInRing \/ damaged \/ RingFull
<1> USE DEF ReceiverType, Flags
<1>1. CASE RingFull
  BY <1>1 DEF Store, BreakInRing
<1>2. CASE ~RingFull
  <2> DEFINE byte == [first |-> starts, damaged |-> damaged,
                      break |-> missing \/ damaged]
  <2>1. ring' = Append(ring, byte) /\ missing' = FALSE
    BY <1>2, Zenon DEF Store
  <2>2. byte \in Byte
    <3>1. (missing \/ damaged) \in BOOLEAN OBVIOUS
    <3> QED BY <3>1 DEF Byte
  <2>3. ring' \in Seq(Byte) /\ Len(ring') = Len(ring) + 1
    BY <2>1, <2>2
  <2>4. Len(ring') < RingCapacity
    BY <2>3, <1>2, UartAssumption DEF RingFull
  <2>5. ASSUME BreakInRing' PROVE missing \/ BreakInRing \/ damaged
    <3>1. PICK i \in 1 .. Len(ring') : ring'[i].break
      BY <2>5 DEF BreakInRing
    <3>2. CASE i = Len(ring) + 1
      BY <3>1, <3>2, <2>1, <2>2
    <3>3. CASE i # Len(ring) + 1
      <4>1. i \in 1 .. Len(ring) /\ ring'[i] = ring[i]
        BY <3>1, <3>3, <2>1, <2>2, <2>3
      <4> QED BY <4>1, <3>1 DEF BreakInRing
    <3> QED BY <3>2, <3>3
  <2> QED BY <2>1, <2>3, <2>4, <2>5
<1> QED BY <1>1, <1>2

\* Bytes and errors that come in keep the invariant.
LEMMA ReceiveIInv ==
    ASSUME IInv, Flags', ByteArrives \/ ReceiveError PROVE IInv'
<1> USE DEF IInv
<1>1. /\ UNCHANGED loop
      /\ rxFault => rxFault'
  BY DEF ByteArrives, ReceiveError, Receiving, ReceiverType
<1>2. LoopType' /\ BreakEndsWithBurst'
  BY <1>1 DEF loop, LoopType, BreakEndsWithBurst
<1>3. CASE ByteArrives
  <2>1. Store(FALSE) /\ rxFault' = (rxFault \/ Loss) /\ UNCHANGED transmitter
    BY <1>3 DEF ByteArrives
  <2>2. ReceiverType'
    BY <2>1, <1>1, StoreKeeps DEF ReceiverType
  <2>3. BreakIsFlagged'
    BY <2>1, <1>1, StoreKeeps DEF BreakIsFlagged, Loss, loop
  <2>4. /\ TransmitterType' /\ ActiveIsHead' /\ QueueAgrees'
        /\ CutReplyIsStopped'
    BY <2>1, <1>1 DEF transmitter, loop, TransmitterType, ActiveIsHead,
                      QueueAgrees, QueueEnd, CutReplyIsStopped
  <2> QED BY <1>2, <2>2, <2>3, <2>4
<1>4. CASE ReceiveError
  <2>1. rxFault' = TRUE /\ OnError /\ UNCHANGED <<dma, cut>>
    BY <1>4 DEF ReceiveError
  <2>2. ring' \in Seq(Byte) /\ Len(ring') < RingCapacity
    <3>1. CASE missing' = TRUE /\ UNCHANGED ring
      BY <3>1 DEF ReceiverType
    <3>2. CASE Store(TRUE)
      BY <3>2, StoreKeeps
    <3> QED BY <3>1, <3>2, <1>4 DEF ReceiveError
  <2>3. ReceiverType' /\ BreakIsFlagged'
    BY <2>1, <2>2, <1>1 DEF ReceiverType, BreakIsFlagged
  <2>4. /\ TransmitterType' /\ ActiveIsHead' /\ QueueAgrees'
        /\ CutReplyIsStopped'
    BY <2>1, <1>1, UartAssumption
    DEF OnError, loop, TransmitterType, ActiveIsHead, QueueAgrees,
        CutReplyIsStopped, Slots
  <2> QED BY <1>2, <2>3, <2>4
<1> QED BY <1>3, <1>4

-----------------------------------------------------------------------------
(* The transmitter.                                                          *)

\* What the receiver and the loop are told apart from is not disturbed.
LEMMA OthersKept ==
    ASSUME ReceiverType, LoopType, BreakIsFlagged, BreakEndsWithBurst,
           UNCHANGED <<receiver, loop>>
    PROVE  ReceiverType' /\ LoopType' /\ BreakIsFlagged' /\ BreakEndsWithBurst'
BY DEF receiver, loop, ReceiverType, LoopType, BreakIsFlagged, BreakInRing,
       BreakEndsWithBurst

LEMMA TransmitErrorIInv == ASSUME IInv, Flags', TransmitError PROVE IInv'
<1> USE DEF IInv
<1>1. /\ OnError /\ rxFault' = TRUE /\ dma' = Quiet
      /\ UNCHANGED <<starts, missing, armed, ring, cut, loop>>
  BY DEF TransmitError
<1>2. ReceiverType' BY <1>1 DEF ReceiverType
<1>3. LoopType' /\ BreakIsFlagged' /\ BreakEndsWithBurst'
  BY <1>1 DEF loop, LoopType, BreakIsFlagged, BreakEndsWithBurst
<1>4. /\ TransmitterType' /\ ActiveIsHead' /\ QueueAgrees'
      /\ CutReplyIsStopped'
  BY <1>1, UartAssumption
  DEF OnError, loop, TransmitterType, ActiveIsHead, QueueAgrees,
      CutReplyIsStopped, Slots
<1> QED BY <1>2, <1>3, <1>4

LEMMA TransmitCompleteIInv == ASSUME IInv, Flags', TransmitComplete PROVE IInv'
<1> USE DEF IInv
<1>1. UNCHANGED <<tail, cut, receiver, loop>> BY DEF TransmitComplete
<1>2. ReceiverType' /\ LoopType' /\ BreakIsFlagged' /\ BreakEndsWithBurst'
  BY <1>1, OthersKept
<1>3. CutReplyIsStopped' BY <1>1 DEF loop, CutReplyIsStopped
<1>4. TransmitterType' /\ ActiveIsHead' /\ QueueAgrees'
  <2>1. CASE ~active
    BY <2>1, <1>1 DEF TransmitComplete, TransmitterType, ActiveIsHead,
                      QueueAgrees, QueueEnd, loop
  <2>2. CASE active
    <3>1. head' = NextSlot(head) /\ count' = count - 1 /\ count > 0
      BY <2>2 DEF TransmitComplete, ActiveIsHead
    <3>2. head' \in Slots /\ head' = IF head + 1 = QueueDepth THEN 0 ELSE head + 1
      BY <3>1, NextSlotTyped, NextSlotWraps DEF TransmitterType
    <3>3. tail = QueueEnd => tail = QueueEnd'
      BY <3>1, <3>2, UartAssumption DEF QueueEnd, TransmitterType, Slots
    <3>4. CASE count > 1
      <4>1. StartNext(head') BY <2>2, <3>1, <3>4 DEF TransmitComplete
      <4>2. \/ dma' = head' /\ active' = TRUE /\ UNCHANGED txFault
            \/ dma' = Quiet /\ active' = FALSE /\ txFault' = TRUE
        BY <4>1 DEF StartNext, StartAt
      <4>3. TransmitterType'
        BY <4>2, <3>1, <3>2, <3>4, <1>1, UartAssumption DEF TransmitterType
      <4>4. count' > 0 BY <3>1, <3>4 DEF TransmitterType
      <4> QED
        BY <4>2, <4>3, <4>4, <3>3, <1>1, <2>2
        DEF ActiveIsHead, QueueAgrees, loop
    <3>5. CASE ~(count > 1)
      <4>1. dma' = Quiet /\ active' = FALSE /\ UNCHANGED txFault
        BY <2>2, <3>5 DEF TransmitComplete
      <4>2. count' = 0 BY <3>1, <3>5 DEF TransmitterType
      <4>3. TransmitterType'
        BY <4>1, <4>2, <3>2, <1>1, UartAssumption DEF TransmitterType
      <4> QED
        BY <4>1, <4>2, <4>3, <3>3, <1>1, <2>2
        DEF ActiveIsHead, QueueAgrees, loop
    <3> QED BY <3>4, <3>5
  <2> QED BY <2>1, <2>2 DEF TransmitterType
<1> QED BY <1>2, <1>3, <1>4

\* A reply that is queued keeps the queue, and is written into a free slot as
\* long as there was no fault.
LEMMA EnqueueKeeps ==
    ASSUME TransmitterType, ActiveIsHead, QueueAgrees, CutReplyIsStopped,
           Enqueue, UNCHANGED stopped
    PROVE  TransmitterType' /\ ActiveIsHead' /\ QueueAgrees' /\ CutReplyIsStopped'
<1>1. CASE QueueRefuses
  BY <1>1 DEF Enqueue, TransmitterType, ActiveIsHead, QueueAgrees,
              CutReplyIsStopped
<1>2. CASE ~QueueRefuses
  <2>0. cut' = (cut \/ tail = dma) /\ ~txFault
    BY <1>2 DEF Enqueue, QueueRefuses
  <2>1. /\ tail' = NextSlot(tail) /\ count' = count + 1
        /\ UNCHANGED head
        /\ count < QueueDepth
    BY <1>2, UartAssumption DEF Enqueue, QueueRefuses, TransmitterType
  <2>2. tail' \in Slots /\ tail' = IF tail + 1 = QueueDepth THEN 0 ELSE tail + 1
    BY <2>1, NextSlotTyped, NextSlotWraps DEF TransmitterType
  <2>3. tail = QueueEnd => tail' = QueueEnd'
    BY <2>1, <2>2, UartAssumption DEF QueueEnd, TransmitterType, Slots
  <2>4. ~stopped => tail # dma
    <3> SUFFICES ASSUME ~stopped, tail = dma PROVE FALSE OBVIOUS
    <3>1. tail = QueueEnd /\ (dma # Quiet => active)
      BY <2>0 DEF QueueAgrees
    <3>2. dma # Quiet
      BY UartAssumption DEF TransmitterType, Slots, Quiet
    <3>3. dma = head /\ count > 0
      BY <3>1, <3>2 DEF ActiveIsHead
    <3>4. count > 0 => QueueEnd # head
      BY <2>1, UartAssumption DEF QueueEnd, TransmitterType, Slots
    <3> QED BY <3>1, <3>3, <3>4
  <2>5. CutReplyIsStopped'
    BY <2>0, <2>4 DEF CutReplyIsStopped
  <2>6. CASE active
    <3>1. UNCHANGED <<active, txFault, dma>>
      BY <1>2, <2>6 DEF Enqueue
    <3>2. TransmitterType' /\ count' > 0
      BY <3>1, <2>1, <2>2, UartAssumption DEF TransmitterType
    <3> QED
      BY <3>1, <3>2, <2>0, <2>1, <2>3, <2>5, <2>6
      DEF ActiveIsHead, QueueAgrees
  <2>7. CASE ~active
    <3>1. StartAt(head, dma # Quiet)
      BY <1>2, <2>7 DEF Enqueue
    <3>2. \/ dma' = head /\ active' = TRUE /\ UNCHANGED txFault
          \/ dma' \in {dma, Quiet} /\ active' = FALSE /\ txFault' = TRUE
      BY <3>1 DEF StartAt
    <3>3. TransmitterType' /\ count' > 0
      BY <3>2, <2>1, <2>2, UartAssumption DEF TransmitterType
    <3> QED
      BY <3>2, <3>3, <2>0, <2>1, <2>3, <2>5, <2>7
      DEF ActiveIsHead, QueueAgrees
  <2> QED BY <2>6, <2>7
<1> QED BY <1>1, <1>2

-----------------------------------------------------------------------------
(* The main loop.                                                            *)

\* What the loop does without the transmitter leaves the queue as it is; a
\* stop only makes it matter less.
LEMMA QueueKept ==
    ASSUME TransmitterType, ActiveIsHead, QueueAgrees, CutReplyIsStopped,
           stopped => stopped', UNCHANGED transmitter
    PROVE  TransmitterType' /\ ActiveIsHead' /\ QueueAgrees' /\ CutReplyIsStopped'
BY DEF transmitter, TransmitterType, ActiveIsHead, QueueAgrees, QueueEnd,
       CutReplyIsStopped

\* Looking for a fault finds every break there may be.
LEMMA TakeFaultIInv ==
    ASSUME IInv, Flags', NEW otherwise \in {"burst", "service"}, TakeFault(otherwise),
           at \in {"top", "check"}, left' \in 0 .. BurstMax,
           UNCHANGED <<starts, armed, parser, broken, stopped, transmitter>>
    PROVE  IInv'
<1> USE DEF IInv
<1>1. TransmitterType' /\ ActiveIsHead' /\ QueueAgrees' /\ CutReplyIsStopped'
  BY QueueKept
<1>2. CASE rxFault
  <2>1. /\ rxFault' = FALSE /\ ring' = <<>> /\ at' = "error"
        /\ missing' = (missing \/ ring # <<>>)
    BY <1>2 DEF TakeFault
  <2>3. ring' \in Seq(Byte) /\ Len(ring') < RingCapacity
    BY <2>1, UartAssumption
  <2>4. ReceiverType' BY <2>1, <2>3 DEF ReceiverType
  <2>5. LoopType' /\ BreakIsFlagged' /\ BreakEndsWithBurst'
    BY <2>1 DEF LoopType, BreakIsFlagged, BreakEndsWithBurst
  <2> QED BY <1>1, <2>4, <2>5
<1>3. CASE ~rxFault
  <2>1. at' = otherwise /\ UNCHANGED <<rxFault, ring, missing>>
    BY <1>3 DEF TakeFault
  <2>2. ReceiverType' /\ LoopType'
    BY <2>1 DEF ReceiverType, LoopType
  <2>3. BreakIsFlagged' /\ BreakEndsWithBurst'
    BY <2>1, <1>3 DEF BreakIsFlagged, BreakInRing, BreakEndsWithBurst
  <2> QED BY <1>1, <2>2, <2>3
<1> QED BY <1>2, <1>3

LEMMA TakeByteIInv == ASSUME IInv, Flags', TakeByte PROVE IInv'
<1> USE DEF IInv
<1> DEFINE byte == Head(ring)
<1>0. /\ ring # <<>> /\ ring' = Tail(ring)
      /\ left > 0 /\ left' = left - 1
  BY DEF TakeByte, BurstOver, LoopType
<1>1. /\ at = "burst"
      /\ broken' = (broken \/ byte.break)
      /\ parser' \in {"empty", "whole", "torn"}
      /\ at' \in {"reply", "burst"}
      /\ UNCHANGED <<starts, missing, armed, rxFault, stopped, transmitter>>
  BY DEF TakeByte
<1>2. /\ TransmitterType' /\ ActiveIsHead' /\ QueueAgrees'
      /\ CutReplyIsStopped'
  BY <1>1, QueueKept
<1>3. Len(ring) > 0 /\ byte = ring[1] /\ byte \in Byte
  BY <1>0 DEF ReceiverType
<1>4. ReceiverType'
  BY <1>0, <1>3, UartAssumption DEF ReceiverType
<1>5. LoopType'
  <2>1. left' \in 0 .. BurstMax BY <1>0, UartAssumption DEF LoopType
  <2> QED BY <1>1, <2>1 DEF LoopType
<1>6. BreakInRing' => BreakInRing
  <2> SUFFICES ASSUME NEW i \in 1 .. Len(ring'), ring'[i].break
               PROVE  BreakInRing
    BY DEF BreakInRing
  <2>1. i + 1 \in 1 .. Len(ring) /\ ring'[i] = ring[i + 1]
    BY <1>0, <1>3 DEF ReceiverType
  <2> QED BY <2>1 DEF BreakInRing
<1>7. byte.break => BreakInRing
  BY <1>3 DEF BreakInRing, ReceiverType
<1>8. BreakIsFlagged' /\ BreakEndsWithBurst'
  BY <1>1, <1>6, <1>7 DEF BreakIsFlagged, BreakEndsWithBurst
<1> QED BY <1>2, <1>4, <1>5, <1>8

LEMMA MainLoopIInv == ASSUME IInv, Flags', MainLoop PROVE IInv'
<1> USE DEF IInv
<1>1. CASE BurstBegins
  BY <1>1, TakeFaultIInv, UartAssumption DEF BurstBegins
<1>2. CASE FaultHandled
  BY <1>2, QueueKept, UartAssumption
  DEF FaultHandled, receiver, ReceiverType, LoopType, BreakIsFlagged,
      BreakEndsWithBurst
<1>3. CASE TakeByte BY <1>3, TakeByteIInv
<1>4. CASE Reply
  BY <1>4, EnqueueKeeps
  DEF Reply, receiver, ReceiverType, LoopType, BreakIsFlagged, BreakInRing,
      BreakEndsWithBurst
<1>5. CASE BurstEnds
  BY <1>5, QueueKept
  DEF BurstEnds, receiver, ReceiverType, LoopType, BreakIsFlagged, BreakInRing,
      BreakEndsWithBurst
<1>6. CASE BurstCheck
  BY <1>6, TakeFaultIInv, UartAssumption DEF BurstCheck, BurstChecked
<1>7. CASE Service
  <2>1. /\ at' = "top" /\ at = "service"
        /\ stopped' = (stopped \/ txFault) /\ txFault' = FALSE
        /\ UNCHANGED <<left, parser, broken, receiver, head, tail, count,
                       active, dma, cut>>
    BY <1>7 DEF Service
  <2>3. ReceiverType' BY <2>1 DEF receiver, ReceiverType
  <2>4. LoopType' BY <2>1 DEF LoopType
  <2>5. BreakIsFlagged' /\ BreakEndsWithBurst'
    BY <2>1 DEF receiver, BreakIsFlagged, BreakInRing, BreakEndsWithBurst
  <2>6. TransmitterType' BY <2>1 DEF TransmitterType
  <2>7. ActiveIsHead' /\ QueueAgrees' /\ CutReplyIsStopped'
    BY <2>1 DEF ActiveIsHead, QueueAgrees, QueueEnd, CutReplyIsStopped
  <2> QED BY <2>3, <2>4, <2>5, <2>6, <2>7
<1> QED BY <1>1, <1>2, <1>3, <1>4, <1>5, <1>6, <1>7 DEF MainLoop

-----------------------------------------------------------------------------
\* The invariant holds throughout.
LEMMA SpecIInv == Spec => []IInv
<1>1. IInv /\ [Next]_vars => IInv'
  <2> SUFFICES ASSUME IInv, [Next]_vars PROVE IInv' OBVIOUS
  <2>0. Flags' BY NextFlags DEF IInv
  <2>1. CASE MainLoop BY <2>0, <2>1, MainLoopIInv
  <2>2. CASE Interrupt
    BY <2>0, <2>2, ReceiveIInv, TransmitErrorIInv, TransmitCompleteIInv DEF Interrupt
  <2>3. CASE UNCHANGED vars
    BY <2>0, <2>3, OthersKept, QueueKept DEF vars, IInv, loop
  <2> QED BY <2>1, <2>2, <2>3 DEF Next
<1> QED BY InitIInv, <1>1, PTL DEF Spec

\* Every variable of the port keeps its type; the ring never fills its last
\* slot, and the queue never holds more than its slots.
THEOREM SpecTypeOK == Spec => []TypeOK
<1>1. IInv => TypeOK
  BY DEF IInv, TypeOK, Flags, ReceiverType, LoopType, TransmitterType, Byte
<1> QED BY SpecIInv, <1>1, PTL

\* When the services of the loop run, or the next burst begins, the parser was
\* given bytes from both sides of a break only if a stop is latched
\* (SingleArmApp_Process).
THEOREM SpecBreakEndsWithBurst == Spec => []BreakEndsWithBurst
<1>1. IInv => BreakEndsWithBurst BY DEF IInv
<1> QED BY SpecIInv, <1>1, PTL

\* No reply is overwritten while the DMA sends it unless a stop is latched
\* (HostUartTx_Enqueue).
THEOREM SpecCutReplyIsStopped == Spec => []CutReplyIsStopped
<1>1. IInv => CutReplyIsStopped BY DEF IInv
<1> QED BY SpecIInv, <1>1, PTL

=============================================================================
