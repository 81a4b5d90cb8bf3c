-------------------------- MODULE TransferSequence --------------------------
(***************************************************************************)
(* One transfer sequence of a client pair: the SendSequence of the sender, *)
(* the ReceiveSequence the receiver forms for its sequence id, and the     *)
(* multi route network between them (transfer.go).  Both sides require no  *)
(* contract from each other and every frame asks for an ack, so this       *)
(* module is about sequence numbers, the resend queue, the receive queue   *)
(* and the two ack windows.  Contracts are the subject of TransferContract.*)
(*                                                                         *)
(* A frame is its sequence number.  Time is abstracted: a timer that is    *)
(* set may fire.                                                           *)
(***************************************************************************)
EXTENDS Integers, Sequences, FiniteSets, FiniteSetsExt, SequenceAckWindow

CONSTANTS
    MaxSeq,                   \* bound: frames the client sends
    MaxGen,                   \* bound: times the receive sequence is formed
    Bytes,                    \* messageByteCount of each frame
    ResendQueueMaxByteCount,
    ReceiveQueueMaxByteCount,
    SelectiveAckExpires,      \* SelectiveAckTimeout < AckTimeout
    Duplicating               \* TRUE: the network may deliver a copy again
                              \* FALSE: it loses and reorders, only

Frames == 0 .. MaxSeq - 1
None == -1

ASSUME BoundsAssumption == MaxSeq \in Nat /\ MaxGen \in Nat
ASSUME BytesAssumption == Bytes \in [Frames -> Nat]
ASSUME LimitsAssumption ==
    ResendQueueMaxByteCount \in Nat /\ ReceiveQueueMaxByteCount \in Nat
ASSUME FlagsAssumption ==
    SelectiveAckExpires \in BOOLEAN /\ Duplicating \in BOOLEAN

VARIABLES
    \* SendSequence
    sOpen,        \* Run has not returned
    sPc,          \* "apply": top of the Run loop, "ready": past the acks
    nextSend,     \* nextSequenceNumber
    sendItems,    \* frames sent and not acked
    resendQueue,  \* the resend queue: sendItems minus the one being written
    heads,        \* frames whose encoded pack has head=true
    paused,       \* frames whose resendTime a selective ack pushed back
    writing,      \* the frame in a blocking Write, or None
    looked,       \* ack found in the resend queue, not yet in the window
    sWin,         \* ackWindow of SendSequence.Run
    \* ReceiveSequence
    rOpen,
    rNext,        \* nextSequenceNumber
    rQueue,       \* receiveQueue
    rWin,         \* ackWindow of the ReceiveSequence
    gen,          \* receive sequences formed so far for this sequence id
    \* the routes
    packNet, ackNet,
    \* what the applications have seen
    acked,        \* ack callback called with no error
    failed,       \* ack callback called with an error
    received,     \* handed to the receive callback at least once
    delivered     \* the calls of the receive callback, in order

sender == <<sOpen, sPc, nextSend, sendItems, resendQueue, heads, paused, writing>>
receiver == <<rOpen, rNext, rQueue, gen>>
vars == <<sender, looked, sWin, receiver, rWin, packNet, ackNet,
          acked, failed, received, delivered>>

Pack(i, h) == [seq |-> i, head |-> h]
Ack(i, s) == [seq |-> i, selective |-> s]
Packs == [seq : Frames, head : BOOLEAN]
Acks == [seq : Frames, selective : BOOLEAN]

ByteCount(S) == MapThenSumSet(LAMBDA i : Bytes[i], S)

Init ==
    /\ sOpen = TRUE /\ sPc = "apply" /\ nextSend = 0
    /\ sendItems = {} /\ resendQueue = {} /\ heads = {} /\ paused = {}
    /\ writing = None /\ looked = {} /\ sWin = NewWindow
    /\ rOpen = FALSE /\ rNext = 0 /\ rQueue = {} /\ rWin = NewWindow /\ gen = 0
    /\ packNet = {} /\ ackNet = {}
    /\ acked = {} /\ failed = {} /\ received = {} /\ delivered = <<>>

-----------------------------------------------------------------------------
(* The network: a Write puts a copy on some route.  A write that fails is  *)
(* a copy that is never delivered.                                         *)

Consume(net, m) == IF Duplicating THEN net ELSE net \ {m}

Lose ==
    /\ ~Duplicating
    /\ \/ \E m \in packNet : packNet' = packNet \ {m} /\ UNCHANGED ackNet
       \/ \E m \in ackNet : ackNet' = ackNet \ {m} /\ UNCHANGED packNet
    /\ UNCHANGED <<sender, looked, sWin, receiver, rWin,
                   acked, failed, received, delivered>>

-----------------------------------------------------------------------------
(* SendSequence                                                            *)

\* Fault: only the acked frame itself is acked, not the ones before it.
CumulativelyAckedOnlyItself ==
    IF sWin.updated /\ sWin.head \in resendQueue THEN {sWin.head} ELSE {}

\* receiveAck for the head ack of the snapshot: every frame up to it is
\* acked, when the frame of the ack is still in the resend queue.
CumulativelyAcked ==
    IF sWin.updated /\ sWin.head \in resendQueue
    THEN {i \in sendItems : i <= sWin.head}
    ELSE {}

\* receiveAck for the selective acks: the resend time is pushed back.
SelectivelyAcked ==
    SnapshotSelective(sWin) \cap (resendQueue \ CumulativelyAcked)

\* The top of the Run loop.
ApplyAcks ==
    /\ sOpen /\ sPc = "apply"
    /\ sPc' = "ready"
    /\ sWin' = Reset(sWin)
    /\ sendItems' = sendItems \ CumulativelyAcked
    /\ resendQueue' = resendQueue \ CumulativelyAcked
    /\ paused' = (paused \cup SelectivelyAcked) \ CumulativelyAcked
    /\ acked' = acked \cup CumulativelyAcked
    /\ UNCHANGED <<sOpen, nextSend, heads, writing, looked, receiver, rWin,
                   packNet, ackNet, failed, received, delivered>>

\* Fault: the loop goes on while a frame is out of the queue.
IdleDuringWrite == sOpen /\ sPc = "ready"

\* The Run loop between two writes.
Idle == sOpen /\ sPc = "ready" /\ writing = None

\* Fault: every resend is encoded as a head.
IsHeadWhenResent(i) == TRUE

\* A frame is encoded as the head when it is the first unacked one, and
\* stays encoded so.
IsHead(i) == i \in heads \/ \A j \in sendItems : i <= j

\* The resend loop takes a due frame out of the resend queue and
\* writes it, as the head if it has become the first unacked frame.
ResendBegin(i) ==
    /\ Idle
    /\ i \in resendQueue
    /\ i \in paused => SelectiveAckExpires
    /\ heads' = IF IsHead(i) THEN heads \cup {i} ELSE heads
    /\ packNet' = packNet \cup {Pack(i, IsHead(i))}
    /\ resendQueue' = resendQueue \ {i}
    /\ paused' = paused \ {i}
    /\ writing' = i
    /\ UNCHANGED <<sOpen, sPc, nextSend, sendItems, looked, sWin, receiver,
                   rWin, ackNet, acked, failed, received, delivered>>

ResendEnd ==
    /\ writing \in sendItems
    /\ resendQueue' = resendQueue \cup {writing}
    /\ writing' = None
    /\ UNCHANGED <<sOpen, sPc, nextSend, sendItems, heads, paused, looked,
                   sWin, receiver, rWin, packNet, ackNet, acked, failed,
                   received, delivered>>

\* Fault: one frame more enters a queue that is at its limit.
SenderCanQueueAtLimit ==
    resendQueue = {} \/ ByteCount(resendQueue) <= ResendQueueMaxByteCount

\* canQueue: at least one frame, and more while the queue is below its limit.
SenderCanQueue ==
    resendQueue = {} \/ ByteCount(resendQueue) < ResendQueueMaxByteCount

\* sendWithSetContract writes the new frame before it is known to the resend
\* queue, so that an ack that arrives during the write finds nothing.
SendBegin ==
    /\ Idle
    /\ nextSend < MaxSeq
    /\ SenderCanQueue
    /\ heads' = IF sendItems = {} THEN heads \cup {nextSend} ELSE heads
    /\ packNet' = packNet \cup {Pack(nextSend, sendItems = {})}
    /\ writing' = nextSend
    /\ nextSend' = nextSend + 1
    /\ UNCHANGED <<sOpen, sPc, sendItems, resendQueue, paused, looked, sWin,
                   receiver, rWin, ackNet, acked, failed, received, delivered>>

SendEnd ==
    /\ writing # None /\ writing \notin sendItems
    /\ sendItems' = sendItems \cup {writing}
    /\ resendQueue' = resendQueue \cup {writing}
    /\ writing' = None
    /\ sPc' = "apply"
    /\ UNCHANGED <<sOpen, nextSend, heads, paused, looked, sWin, receiver,
                   rWin, packNet, ackNet, acked, failed, received, delivered>>

\* The select is left by the ack notification or by its timeout.
Wake ==
    /\ Idle
    /\ sPc' = "apply"
    /\ UNCHANGED <<sOpen, nextSend, sendItems, resendQueue, heads, paused,
                   writing, looked, sWin, receiver, rWin, packNet, ackNet,
                   acked, failed, received, delivered>>

\* Run returns: cancelled, idle, or the first frame of the resend queue was
\* not acked in time.  The callbacks of the resend queue get an error.
SenderExit ==
    /\ Idle
    /\ sOpen' = FALSE
    /\ failed' = failed \cup resendQueue
    /\ UNCHANGED <<sPc, nextSend, sendItems, resendQueue, heads, paused,
                   writing, looked, sWin, receiver, rWin, packNet, ackNet,
                   acked, received, delivered>>

\* The ack goroutine of Run looks the message up in the resend queue ...
LookupAck(m) ==
    /\ sOpen
    /\ looked = {}
    /\ m.seq \in resendQueue
    /\ looked' = {m}
    /\ ackNet' = Consume(ackNet, m)
    /\ UNCHANGED <<sender, sWin, receiver, rWin, packNet, acked, failed,
                   received, delivered>>

\* ... and drops the ack when the frame is not there: acked already, or out
\* of the queue for the duration of a write.
DropAck(m) ==
    /\ sOpen
    /\ looked = {}
    /\ m.seq \notin resendQueue
    /\ ackNet' = Consume(ackNet, m)
    /\ UNCHANGED <<sender, looked, sWin, receiver, rWin, packNet, acked,
                   failed, received, delivered>>

UpdateAckWindow(m) ==
    /\ sOpen
    /\ m \in looked
    /\ sWin' = Update(sWin, m.seq, m.selective)
    /\ looked' = {}
    /\ UNCHANGED <<sender, receiver, rWin, packNet, ackNet, acked, failed,
                   received, delivered>>

-----------------------------------------------------------------------------
(* ReceiveSequence                                                         *)

\* canQueue of receive, for a frame of b bytes and a queue of frames Q.
ReceiverCanQueue(Q, b) ==
    Q = {} \/ ByteCount(Q) + b < ReceiveQueueMaxByteCount

\* What is left of the queue Q after later frames are removed, last first,
\* until frame i fits or no later frame is left.
KeptFor(Q, i) ==
    LET Before(l) == {q \in Q : q < l}
        truncations == {Q} \cup {Before(l) : l \in {q \in Q : i < q}}
        fitting == {T \in truncations : ReceiverCanQueue(T, Bytes[i])}
    IN  IF fitting = {} THEN Before(i) ELSE UNION fitting

\* receiveHead: the callback, and then the ack.
Deliver(i, g) ==
    /\ received' = received \cup {i}
    /\ delivered' = Append(delivered, [gen |-> g, seq |-> i])

\* The Run loop empties the queue up to the next sequence number before it
\* takes another pack.
Drainable == {i \in rQueue : i <= rNext}

DrainOne ==
    /\ rOpen
    /\ \E i \in Drainable :
          /\ \A j \in rQueue : i <= j
          /\ rQueue' = rQueue \ {i}
          /\ rWin' = Update(rWin, i, FALSE)
          /\ IF i = rNext
             THEN rNext' = rNext + 1 /\ Deliver(i, gen)
             ELSE UNCHANGED <<rNext, received, delivered>>
    /\ UNCHANGED <<sender, looked, sWin, rOpen, gen, packNet, ackNet, acked,
                   failed>>

\* A head past the next sequence number shows state of the sender that this
\* receive sequence is missing: it jumps there.
HeadJump(m, next) == IF m.head /\ next < m.seq THEN m.seq ELSE next

\* receive, for a receive sequence that is at sequence number next with
\* queue Q and ack window w, and that is the g-th formed.
Receive(m, next, Q, w, g) ==
    LET n == HeadJump(m, next)
        others == Q \ {m.seq}
        kept == KeptFor(others, m.seq)
    IN  \/ /\ m.seq = n
           /\ rNext' = n + 1
           /\ rQueue' = others
           /\ rWin' = Update(w, m.seq, FALSE)
           /\ Deliver(m.seq, g)
        \/ /\ m.seq < n
           /\ rNext' = n
           /\ rQueue' = others
           /\ rWin' = Update(w, m.seq, FALSE)
           /\ UNCHANGED <<received, delivered>>
        \/ /\ n < m.seq
           /\ rNext' = n
           /\ IF ReceiverCanQueue(kept, Bytes[m.seq])
              THEN rQueue' = kept \cup {m.seq} /\ rWin' = Update(w, m.seq, TRUE)
              ELSE rQueue' = kept /\ rWin' = w
           /\ UNCHANGED <<received, delivered>>

ReceivePack(m) ==
    /\ rOpen
    /\ Drainable = {}
    /\ Receive(m, rNext, rQueue, rWin, gen)
    /\ packNet' = Consume(packNet, m)
    /\ UNCHANGED <<sender, looked, sWin, rOpen, gen, ackNet, acked, failed>>

\* The receive buffer forms a receive sequence for a pack of the sequence id
\* when it has none, starting over at sequence number zero.
FormReceiver(m) ==
    /\ ~rOpen
    /\ gen < MaxGen
    /\ rOpen' = TRUE
    /\ gen' = gen + 1
    /\ Receive(m, 0, {}, NewWindow, gen + 1)
    /\ packNet' = Consume(packNet, m)
    /\ UNCHANGED <<sender, looked, sWin, ackNet, acked, failed>>

\* The goroutine that compresses and writes the acks.
WriteAcks ==
    /\ rOpen
    /\ ~NothingToReport(rWin)
    /\ ackNet' = ackNet \cup {Ack(i, TRUE) : i \in SnapshotSelective(rWin)}
                        \cup IF rWin.updated THEN {Ack(rWin.head, FALSE)} ELSE {}
    /\ rWin' = Reset(rWin)
    /\ UNCHANGED <<sender, looked, sWin, receiver, packNet, acked, failed,
                   received, delivered>>

\* Run returns: cancelled, flushed, gap timeout, idle, or an error.  What is
\* in the queue and in the ack window is gone.
ReceiverExit ==
    /\ rOpen
    /\ gen < MaxGen
    /\ rOpen' = FALSE
    /\ rNext' = 0 /\ rQueue' = {} /\ rWin' = NewWindow
    /\ UNCHANGED <<sender, looked, sWin, gen, packNet, ackNet, acked, failed,
                   received, delivered>>

-----------------------------------------------------------------------------
SenderStep ==
    \/ ApplyAcks \/ (\E i \in Frames : ResendBegin(i)) \/ ResendEnd
    \/ SendBegin \/ SendEnd \/ Wake \/ SenderExit
    \/ \E m \in ackNet : LookupAck(m) \/ DropAck(m)
    \/ \E m \in looked : UpdateAckWindow(m)

ReceiverStep ==
    \/ \E m \in packNet : ReceivePack(m) \/ FormReceiver(m)
    \/ DrainOne \/ WriteAcks \/ ReceiverExit

Next == SenderStep \/ ReceiverStep \/ Lose

Spec == Init /\ [][Next]_vars

-----------------------------------------------------------------------------
(* Properties                                                              *)

\* The state has the shape the code gives it: sequence numbers below the
\* next one, heads of the ack windows that were acks, one write at a time.
TypeOK ==
    /\ sOpen \in BOOLEAN /\ sPc \in {"apply", "ready"}
    /\ nextSend \in 0 .. MaxSeq
    /\ sendItems \subseteq Frames /\ resendQueue \subseteq sendItems
    /\ heads \subseteq Frames /\ paused \subseteq resendQueue
    /\ writing \in Frames \cup {None}
    /\ looked \subseteq Acks
    /\ sWin \in AckWindows(Frames)
    /\ rOpen \in BOOLEAN /\ rNext \in 0 .. MaxSeq /\ rQueue \subseteq Frames
    /\ rWin \in AckWindows(Frames)
    /\ gen \in 0 .. MaxGen
    /\ packNet \subseteq Packs /\ ackNet \subseteq Acks
    /\ acked \subseteq Frames /\ failed \subseteq Frames /\ received \subseteq Frames
    /\ delivered \in Seq([gen : 1 .. MaxGen, seq : Frames])

\* An ack callback without an error means that the frame reached the receive
\* callback ("sender is notified when frames are received"), although acks
\* are cumulative, compressed, dropped during writes and applied late.
AckedWasReceived == acked \subseteq received

\* No frame is skipped: when a frame is handed to the receive callback, so
\* were all frames before it.  A receive sequence that is formed again jumps
\* to the head it is sent, which is right only if the head flag is never set
\* on a frame with an unreceived predecessor.
NoFrameSkipped == \A i \in received : 0 .. i \subseteq received

\* One receive sequence hands frames over in order of send, each once, from
\* the network, from its queue and across jumps of its sequence number.
InOrderWhileFormed ==
    \A j, k \in DOMAIN delivered :
        j < k /\ delivered[j].gen = delivered[k].gen
            => delivered[j].seq < delivered[k].seq

\* Both of them: what the receive callback sees of a sender is a gapless stream
\* in order of send, that starts over only with a new receive sequence.
InOrderWithoutGap == NoFrameSkipped /\ InOrderWhileFormed

\* The ack callback of every frame is called at most once, and by the time
\* the send sequence has exited it has been called for every frame sent.
CallbackOnce ==
    /\ acked \cap failed = {}
    /\ ~sOpen => acked \cup failed = 0 .. nextSend - 1

\* receiveAck panics with "Missing item" when a frame to ack is not in the
\* resend queue, and the resend loop reads sendItems[0]: where the acks are
\* applied nothing is out of the queue, and a frame being resent is pending.
NoMissingItem ==
    /\ sPc = "apply" => sendItems = resendQueue
    /\ sWin.updated => sWin.head # -1
    /\ resendQueue # {} => sendItems # {}

\* "Bounded resource usage" across acks, resends, evictions and queues that start
\* over: without its last frame the resend queue is below its limit, and the
\* receive queue is below its limit or holds a single frame.
BoundedQueues ==
    /\ \A i \in sendItems : (\E j \in sendItems : j < i)
            => ByteCount({j \in sendItems : j < i}) < ResendQueueMaxByteCount
    /\ \/ ByteCount(rQueue) < ReceiveQueueMaxByteCount
       \/ Cardinality(rQueue) <= 1

\* A frame whose resend is paused by a selective ack is held by the receiver
\* or was handed over: with a receive queue that is larger than the resend
\* queue by a frame, nothing that was selectively acked is evicted.  The
\* defaults pause for the whole ack timeout, so an evicted frame would not be
\* sent again before the sequence is given up.
PausedIsHeld == paused \subseteq rQueue \cup received

\* "frames are received in order of send", of the whole life of the send
\* sequence, whatever happens to the receive sequence.
\* The code does not keep it: README, "Where code and comments part".
ReceivedInOrderOfSend ==
    \A j, k \in DOMAIN delivered : j < k => delivered[j].seq < delivered[k].seq

-----------------------------------------------------------------------------
(* Implementation of the promise.  A frame counts as sent once its write   *)
(* has begun.                                                              *)

Channel == INSTANCE FrameChannel WITH open <- sOpen, sent <- nextSend

\* The two sequences and the routes implement the channel: queues, resends,
\* ack windows and formed-again receivers are invisible behind it.
ImplementsChannel == Channel!Spec

-----------------------------------------------------------------------------
(* Liveness.  The run loops and goroutines keep running (weak fairness).   *)
(* A pass of the resend loop resends a frame at most once, because the new *)
(* resend time is after the time of the pass, so the pass ends.            *)
(* The resend timer of a frame keeps firing, a route that is written to    *)
(* again and again delivers again and again (strong fairness), and its     *)
(* delay does not conspire with the writes of the sender: if acks of a     *)
(* frame keep arriving during writes of the frame, some arrive between.    *)

Loops ==
    /\ WF_vars(ApplyAcks \/ ResendEnd \/ SendEnd) /\ SF_vars(Wake)
    /\ WF_vars(DrainOne) /\ WF_vars(WriteAcks)
    /\ WF_vars(\E m \in looked : UpdateAckWindow(m))

Routes ==
    \A i \in Frames :
        /\ SF_vars(ResendBegin(i))
        /\ SF_vars(\E m \in packNet : m.seq = i /\ (ReceivePack(m) \/ FormReceiver(m)))
        /\ SF_vars(Ack(i, FALSE) \in ackNet /\ LookupAck(Ack(i, FALSE)))
        /\ []<><<writing = i /\ Ack(i, FALSE) \in ackNet /\ DropAck(Ack(i, FALSE))>>_vars
              => []<><<LookupAck(Ack(i, FALSE))>>_vars

Fairness == Loops /\ Routes

FairSpec == Spec /\ Fairness

\* "as long the sending client is active, frames are eventually delivered up
\* to timeout": a frame the sender has written is acked, unless the send
\* sequence exits, under loss, reordering and acks dropped during writes.
EventuallyAcked ==
    \A i \in Frames : i \in sendItems ~> (i \in acked \/ ~sOpen)

\* "sender is notified when frames are received": a received frame is acked
\* while the send sequence lives.  With the default settings a selective ack
\* pauses resends for as long as the ack timeout (SelectiveAckExpires is
\* FALSE), and a frame whose only cumulative ack is lost is not acked again.
\* The code does not keep it: README, "Where code and comments part".
NotifiedWhenReceived ==
    \A i \in Frames : i \in received ~> (i \in acked \/ ~sOpen)
=============================================================================
