---------------------------- MODULE StreamTransport ----------------------------
(* The host's side of the serial link (stream_transport_v2.py) and the link:  *)
(* one request at a time, each with the next sequence number, each answered   *)
(* with the number of its request.                                            *)
(*                                                                            *)
(* A frame is lost when it arrives corrupted; what arrives is in order.  An   *)
(* answer that comes after the deadline stays in the port until the next      *)
(* exchange reads past it.  Only whether a frame's number is the one of the   *)
(* latest request is told apart.                                              *)
EXTENDS Naturals, Sequences

CONSTANT LinkCapacity   \* frames on the link when a request gives up, at most

ASSUME TransportAssumption == LinkCapacity \in Nat \ {0}

VARIABLES
    up,       \* requests on their way to the firmware, in order
    down,     \* answers on their way to the host, in order
    asked     \* the kind of the request that waits for its answer, or "NONE"

link == <<up, down, asked>>

Waiting == asked # "NONE"

StateKinds == {"HEARTBEAT", "ENABLE", "SAFE_STOP"}
StatusKinds == {"OPEN", "APPEND", "SPLICE"}

\* The message type a request is answered with.
AnswerKind(kind) ==
    CASE kind \in StateKinds  -> "STATE"
      [] kind \in StatusKinds -> "STATUS"
      [] OTHER                -> kind

Disowned(frames) == [i \in DOMAIN frames |-> [frames[i] EXCEPT !.mine = FALSE]]

\* _send: a new sequence number; `content` is the payload of a batch or of an
\* open request.
Send(kind, content) ==
    /\ up' = Append(Disowned(up),
                    [kind |-> kind, mine |-> TRUE, content |-> content])
    /\ down' = Disowned(down)
    /\ asked' = kind

\* The test of _receive.
Matches(answer) == answer.kind = AnswerKind(asked) /\ answer.mine

FirstMatch(i) ==
    Matches(down[i]) /\ \A j \in 1 .. i - 1 : ~Matches(down[j])

\* _receive returns the first answer that matches; those before it are gone.
Receive(i) ==
    /\ Waiting /\ FirstMatch(i)
    /\ down' = SubSeq(down, i + 1, Len(down))
    /\ asked' = "NONE"
    /\ UNCHANGED up

\* The deadline of _receive passes.
GiveUp ==
    /\ Waiting
    /\ Len(up) + Len(down) < LinkCapacity
    /\ asked' = "NONE"
    /\ UNCHANGED <<up, down>>

LoseRequest == up # <<>> /\ up' = Tail(up) /\ UNCHANGED <<down, asked>>
LoseAnswer == down # <<>> /\ down' = Tail(down) /\ UNCHANGED <<up, asked>>

\* The firmware answers the request it handles; `at` is the tick of its last
\* heartbeat, in an answer that is asked for it.
AnswerAt(says, at) ==
    /\ down' = Append(down, [kind |-> AnswerKind(Head(up).kind),
                             mine |-> Head(up).mine, says |-> says, at |-> at])
    /\ up' = Tail(up)
    /\ UNCHANGED asked

Answer(says) == AnswerAt(says, 0)

=============================================================================
