------------------------------- MODULE HostUart -------------------------------
(* The host's serial port of the firmware: the receive ring (host_uart_rx.c)  *)
(* and the transmit queue (host_uart_tx.c), filled and drained by interrupts  *)
(* of LPUART1 and its DMA, and the main loop between them                     *)
(* (SingleArmApp_Process), in binary mode.                                    *)
(*                                                                            *)
(* A frame is two bytes here, the first and the delimiter.  Of a byte the     *)
(* model keeps which one it is, whether it is damaged, and whether the stream *)
(* is broken at it, as one before it was lost or it is damaged itself.  The   *)
(* checksum rejects what is not exactly one frame.  An interrupt is one step; *)
(* so is what the main loop does with interrupts off.                         *)
EXTENDS Naturals, Sequences

CONSTANTS
    RingCapacity,   \* HOST_UART_RX_RING_CAPACITY; one slot stays free
    QueueDepth,     \* HOST_UART_TX_QUEUE_DEPTH
    BurstMax        \* HOST_BINARY_RX_BURST_MAX_BYTES

ASSUME UartAssumption ==
    /\ RingCapacity \in Nat \ {0, 1}
    /\ QueueDepth \in Nat \ {0, 1}
    /\ BurstMax \in Nat \ {0}

VARIABLES
    \* the receiver
    starts,     \* the host's next byte is the first of a frame
    missing,    \* bytes were lost since the last one in the ring
    armed,      \* HAL_UART_Receive_IT waits for a byte
    ring,       \* the bytes from tail to head
    rxFault,    \* host_rx_fault
    \* the main loop
    at,         \* where it is
    left,       \* bytes the burst may still take
    parser,     \* what the frame parser holds: "empty", "whole" or "torn"
    broken,     \* history: it was given bytes from both sides of a break
    stopped,    \* history: a fault of the port has latched a stop
    \* the transmitter
    head, tail, count,   \* host_tx_head, host_tx_tail, host_tx_count
    active,     \* host_tx_active
    txFault,    \* host_tx_fault
    dma,        \* the slot the DMA sends, or Quiet
    cut         \* history: a slot was written while the DMA sent it

receiver == <<starts, missing, armed, ring, rxFault>>
loop == <<at, left, parser, broken, stopped>>
transmitter == <<head, tail, count, active, txFault, dma, cut>>
vars == <<receiver, loop, transmitter>>

Slots == 0 .. QueueDepth - 1
Quiet == QueueDepth

-----------------------------------------------------------------------------
\* Binary mode begins: the receiver could be started, or a stop is latched.
Init ==
    /\ starts = TRUE /\ missing = FALSE /\ ring = <<>>
    /\ armed \in BOOLEAN /\ rxFault = ~armed
    /\ at = "top" /\ left = 0 /\ parser = "empty" /\ broken = FALSE
    /\ stopped = ~armed
    /\ head = 0 /\ tail = 0 /\ count = 0 /\ active = FALSE /\ txFault = FALSE
    /\ dma = Quiet /\ cut = FALSE

-----------------------------------------------------------------------------
(* The receiver's interrupts.                                                *)

\* Mutant: the slot that tells a full ring from an empty one is used.
MutantRingFull == Len(ring) >= RingCapacity

RingFull == Len(ring) >= RingCapacity - 1

\* A byte for which there is no room is lost.
Store(damaged) ==
    IF RingFull
    THEN missing' = TRUE /\ UNCHANGED ring
    ELSE /\ ring' = Append(ring, [first |-> starts, damaged |-> damaged,
                                  break |-> missing \/ damaged])
         /\ missing' = FALSE

\* The host has sent a byte; the HAL may refuse to wait for the next.
Receiving == armed /\ starts' = ~starts /\ armed' \in BOOLEAN

\* Mutant: the HAL's refusal is not looked at.
MutantLoss == RingFull

\* What leaves a gap behind the byte that came.
Loss == RingFull \/ ~armed'

\* HAL_UART_RxCpltCallback
ByteArrives ==
    /\ Receiving
    /\ Store(FALSE)
    /\ rxFault' = (rxFault \/ Loss)
    /\ UNCHANGED <<loop, transmitter>>

\* HostUartTx_OnError: the queue is emptied; a transfer of the DMA goes on.
OnError ==
    /\ txFault' = TRUE
    /\ head' = 0 /\ tail' = 0 /\ count' = 0 /\ active' = FALSE

\* HAL_UART_ErrorCallback for an overrun, noise or framing: the byte is lost,
\* or stored as it came.
ReceiveError ==
    /\ Receiving
    /\ \/ missing' = TRUE /\ UNCHANGED ring
       \/ Store(TRUE)
    /\ rxFault' = TRUE
    /\ OnError
    /\ UNCHANGED <<dma, cut, loop>>

\* The same callback for an error of the transmitting DMA.
TransmitError ==
    /\ dma # Quiet /\ dma' = Quiet
    /\ OnError
    /\ rxFault' = TRUE
    /\ UNCHANGED <<starts, missing, armed, ring, cut, loop>>

-----------------------------------------------------------------------------
(* The transmitter.                                                          *)

NextSlot(i) == (i + 1) % QueueDepth

\* HostUartTx_StartLocked with the queue's head at slot i.  The HAL refuses
\* while the DMA is busy, and may refuse at any time.
StartAt(i, busy) ==
    \/ ~busy /\ dma' = i /\ active' = TRUE /\ UNCHANGED txFault
    \/ dma' = (IF busy THEN dma ELSE Quiet) /\ active' = FALSE /\ txFault' = TRUE

\* Mutant: the next reply waits for somebody else to start it.
MutantStartNext(i) == dma' = Quiet /\ active' = FALSE /\ UNCHANGED txFault

\* The next reply of the queue follows at once.
StartNext(i) == StartAt(i, FALSE)

\* HAL_UART_TxCpltCallback.  A transfer the queue no longer knows about just
\* ends.
TransmitComplete ==
    /\ dma # Quiet
    /\ IF active
       THEN /\ head' = NextSlot(head) /\ count' = count - 1
            /\ IF count > 1
               THEN StartNext(NextSlot(head))
               ELSE dma' = Quiet /\ active' = FALSE /\ UNCHANGED txFault
       ELSE dma' = Quiet /\ UNCHANGED <<head, count, active, txFault>>
    /\ UNCHANGED <<tail, cut, receiver, loop>>

\* Mutant: a fault that was not looked at yet does not keep replies out.
MutantQueueRefuses == count >= QueueDepth

QueueRefuses == txFault \/ count >= QueueDepth

\* HostUartTx_Enqueue
Enqueue ==
    IF QueueRefuses
    THEN txFault' = TRUE /\ UNCHANGED <<head, tail, count, active, dma, cut>>
    ELSE /\ cut' = (cut \/ tail = dma)
         /\ tail' = NextSlot(tail) /\ count' = count + 1
         /\ IF active
            THEN UNCHANGED <<active, txFault, dma>>
            ELSE StartAt(head, dma # Quiet)
         /\ UNCHANGED head

-----------------------------------------------------------------------------
(* The main loop.                                                            *)

\* HostUartRx_TakeFault: what is in the ring is thrown away with the fault.
TakeFault(otherwise) ==
    IF rxFault
    THEN /\ rxFault' = FALSE /\ ring' = <<>> /\ missing' = (missing \/ ring # <<>>)
         /\ at' = "error"
    ELSE at' = otherwise /\ UNCHANGED <<rxFault, ring, missing>>

\* A fault from before the burst.
BurstBegins ==
    /\ at = "top"
    /\ TakeFault("burst")
    /\ left' = BurstMax
    /\ UNCHANGED <<starts, armed, parser, broken, stopped, transmitter>>

\* BinaryControl_HandleHostUartError
FaultHandled ==
    /\ at = "error" /\ at' = "service"
    /\ parser' = "empty" /\ stopped' = TRUE /\ left' = 0
    /\ UNCHANGED <<broken, receiver, transmitter>>

\* The delimiter completes a frame if what it ends is one.
Whole(byte) == parser = "whole" /\ ~byte.first /\ ~byte.break

\* A burst ends with its last byte or the ring's.
BurstOver == left = 0 \/ ring = <<>>

\* HostUartRx_Pop, and the parser.
TakeByte ==
    /\ at = "burst" /\ ~BurstOver
    /\ LET byte == Head(ring) IN
       /\ broken' = (broken \/ byte.break)
       /\ parser' = IF ~byte.first THEN "empty"
                    ELSE IF parser = "empty" /\ ~byte.damaged
                    THEN "whole" ELSE "torn"
       /\ at' = IF Whole(byte) THEN "reply" ELSE "burst"
    /\ ring' = Tail(ring) /\ left' = left - 1
    /\ UNCHANGED <<starts, missing, armed, rxFault, stopped, transmitter>>

\* The frame is handled and answered.
Reply ==
    /\ at = "reply" /\ at' = "burst"
    /\ Enqueue
    /\ UNCHANGED <<left, parser, broken, stopped, receiver>>

BurstEnds ==
    /\ at = "burst" /\ BurstOver /\ at' = "check"
    /\ UNCHANGED <<left, parser, broken, stopped, receiver, transmitter>>

\* Mutant: the faults of the burst are left for the next one to find.
MutantBurstChecked == at' = "service" /\ UNCHANGED <<rxFault, ring, missing>>

BurstChecked == TakeFault("service")

\* A fault of the burst itself.
BurstCheck ==
    /\ at = "check"
    /\ BurstChecked
    /\ left' = 0
    /\ UNCHANGED <<starts, armed, parser, broken, stopped, transmitter>>

\* The beginning of BinaryControl_Service.
Service ==
    /\ at = "service" /\ at' = "top"
    /\ stopped' = (stopped \/ txFault) /\ txFault' = FALSE
    /\ UNCHANGED <<left, parser, broken, receiver, head, tail, count, active,
                   dma, cut>>

-----------------------------------------------------------------------------
MainLoop ==
    \/ BurstBegins \/ FaultHandled \/ TakeByte \/ Reply
    \/ BurstEnds \/ BurstCheck \/ Service

Interrupt == ByteArrives \/ ReceiveError \/ TransmitError \/ TransmitComplete

Next == MainLoop \/ Interrupt

\* The main loop goes round, and the DMA finishes what it sends; nobody needs
\* to send anything.
Fairness == WF_vars(MainLoop) /\ WF_vars(TransmitComplete)

Spec == Init /\ [][Next]_vars /\ Fairness

-----------------------------------------------------------------------------
(* Properties.                                                               *)

\* Every variable has its type; the ring leaves the slot free that tells full
\* from empty, and the queue never holds more than its slots.
TypeOK ==
    /\ {starts, missing, armed, rxFault, broken, stopped} \subseteq BOOLEAN
    /\ ring \in Seq([first : BOOLEAN, damaged : BOOLEAN, break : BOOLEAN])
    /\ Len(ring) < RingCapacity
    /\ at \in {"top", "error", "burst", "reply", "check", "service"}
    /\ left \in 0 .. BurstMax /\ parser \in {"empty", "whole", "torn"}
    /\ head \in Slots /\ tail \in Slots /\ count \in 0 .. QueueDepth
    /\ {active, txFault, cut} \subseteq BOOLEAN
    /\ dma \in Slots \cup {Quiet}

\* An interrupt can lose a byte in the middle of a burst, and what follows is
\* parsed, even handled, in the same burst.  But a stop is latched before the
\* services of the loop run: no control tick acts on what came after a break.
BreakEndsWithBurst ==
    broken /\ at \in {"top", "service"} => stopped

\* An error empties the queue while the DMA may still send from it.  No reply
\* is overwritten on its way out before the stop for that error is latched.
CutReplyIsStopped == cut => stopped

\* A lost byte, and a receiver the HAL does not serve any more, latch a stop,
\* however fast bytes arrive.
LossIsStopped == missing \/ ~armed ~> stopped

\* The reply at the head of the queue leaves it, although only the end of the
\* one before it, or a later reply, starts the DMA; or a stop is latched.
RepliesLeave ==
    \A i \in Slots : count > 0 /\ head = i ~> head # i \/ stopped

=============================================================================
