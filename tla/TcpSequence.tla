---------------------------- MODULE TcpSequence ----------------------------
(***************************************************************************)
(* TcpSequence (ip.go): the user space end of a tcp connection of a peer,  *)
(* joined to a socket that is connected to the remote.                     *)
(*                                                                         *)
(* Run takes the segments of the peer from sendItems, and has four         *)
(* goroutines: the writer puts the payloads of the peer into the socket,   *)
(* the reader turns what the socket gives into packets that keep to the    *)
(* window of the peer, the forwarder gives the packets to the peer, and    *)
(* the acker acks what Run has taken.  They share the connection state     *)
(* under mutex, two condition variables on it, and a context.              *)
(*                                                                         *)
(* Sequence numbers wrap at SeqSpace.  A position counts from the SYN of   *)
(* the peer, in both directions, and does not wrap: the SYN is 0, bytes    *)
(* follow from 1, the FIN comes last.  The peer keeps to tcp: it sends a   *)
(* segment again at will, acks what it has got in order, and moves its     *)
(* window.  A window is given in bytes; the scaling of its encoding, the   *)
(* window offered to the peer (nothing here enforces it) and the addresses *)
(* are left out.                                                           *)
(***************************************************************************)
EXTENDS Naturals, Sequences, SequencesExt

CONSTANTS
    SeqSpace,            \* number of sequence numbers
    Scenarios,           \* bounds: [isn, peerBytes, remoteBytes, windows], the sequence
                         \* number of the peer's SYN, the bytes of the peer and of the
                         \* remote, and the receive windows of the peer
    MaxRead,             \* ReadBufferByteCount, and the largest payload of the peer
    PacketSize,          \* payload of a packet that fits the mtu
    SequenceBufferSize

ASSUME TcpAssumption ==
    /\ SeqSpace \in Nat
    /\ \A s \in Scenarios :
          /\ s.isn \in 0 .. SeqSpace - 1 /\ s.windows \subseteq Nat
          /\ s.peerBytes \in 0 .. SeqSpace - 3 /\ s.remoteBytes \in 0 .. SeqSpace - 3
    /\ MaxRead \in Nat \ {0} /\ PacketSize \in Nat \ {0} /\ SequenceBufferSize \in Nat \ {0}

VARIABLES
    scenario,
    peer,           \* the peer: next position to send, next position to receive
    sendItems,      \* segments of the peer
    ctxDone,
    idleClosed,     \* idleCondition is closed
    conn,           \* ConnectionState, and ackedSendSeq
    run,            \* Run, and the segment it is at
    socket,         \* "none", "open" or "closed"
    writePayloads, writesClosed,
    writer,         \* the writer, and the bytes it has yet to write
    written,        \* bytes put into the socket
    remoteLeft,     \* bytes of the remote not read yet
    readPackets, readsClosed,
    reader,         \* the reader, what it read, and the packets made of it
    forwarder, acker,
    made,           \* position of receiveSeq
    offer,          \* positions the peer has offered to receive to: last, and ever
    gap             \* the peer was given a packet that leaves something out

peerVars == <<scenario, peer, sendItems, idleClosed>>
writerVars == <<writePayloads, writesClosed, writer, written>>
readerVars == <<remoteLeft, reader>>
forwardVars == <<readPackets, readsClosed, forwarder>>
seenVars == <<made, offer, gap>>
vars == <<peerVars, ctxDone, conn, run, socket, writerVars, readerVars, forwardVars, acker,
          seenVars>>

NumberOf(position) == (scenario.isn + position) % SeqSpace
Minus(a, b) == (a + SeqSpace - b) % SeqSpace

NoSegment == [syn |-> FALSE, from |-> 0, len |-> 0, fin |-> FALSE, ack |-> 0, window |-> 0]

Init ==
    /\ scenario \in Scenarios
    /\ peer = [next |-> 0, got |-> 0]
    /\ sendItems = <<>> /\ ctxDone = FALSE /\ idleClosed = FALSE
    /\ conn = [sendSeq |-> 0, receiveSeq |-> 0, receiveSeqAck |-> 0,
               receiveWindowSize |-> 0, ackedSendSeq |-> 0]
    /\ run = [pc |-> "syn", item |-> NoSegment, early |-> FALSE]
    /\ socket = "none"
    /\ writePayloads = <<>> /\ writesClosed = FALSE
    /\ writer = [pc |-> "none", left |-> <<>>] /\ written = <<>>
    /\ remoteLeft = scenario.remoteBytes
    /\ readPackets = <<>> /\ readsClosed = FALSE
    /\ reader = [pc |-> "none", n |-> 0, packets |-> <<>>, fin |-> FALSE]
    /\ forwarder = "none" /\ acker = "none"
    /\ made = 0 /\ offer = [last |-> 0, ever |-> 0] /\ gap = FALSE

-----------------------------------------------------------------------------
(* The peer                                                                *)

\* TcpSequence.send: the segment is dropped if there is no room for it in time.
SendItem(segment) ==
    /\ ~ctxDone /\ ~idleClosed
    /\ Len(sendItems) < SequenceBufferSize
    /\ sendItems' = Append(sendItems, segment)
    /\ peer' = [peer EXCEPT !.next =
                  Max({peer.next, segment.from + segment.len
                                  + (IF segment.syn \/ segment.fin THEN 1 ELSE 0)})]
    /\ UNCHANGED <<scenario, ctxDone, idleClosed, conn, run, socket, writerVars,
                   readerVars, forwardVars, acker, seenVars>>

\* The SYN, once or more; or "an ACK [...] for a previous FIN".
PeerSyn ==
    /\ peer.got = 0
    /\ \E syn \in BOOLEAN, w \in scenario.windows :
          SendItem([NoSegment EXCEPT !.syn = syn, !.window = w])

\* Any bytes from what was sent before on, with or without the FIN.
PeerSegment ==
    /\ peer.got > 0
    /\ \E from \in 1 .. peer.next, len \in 0 .. MaxRead, fin \in BOOLEAN, w \in scenario.windows :
          /\ len > 0 => from + len <= scenario.peerBytes + 1
          /\ fin => from + len = scenario.peerBytes + 1
          /\ SendItem([syn |-> FALSE, from |-> from, len |-> len, fin |-> fin,
                       ack |-> peer.got, window |-> w])

\* A RST of the peer, for which TcpBuffer cancels the sequence, or the end of
\* the user nat.
Cancel ==
    /\ ~ctxDone /\ ctxDone' = TRUE
    /\ UNCHANGED <<peerVars, conn, run, socket, writerVars, readerVars, forwardVars,
                   acker, seenVars>>

-----------------------------------------------------------------------------
(* Run                                                                     *)

\* The first packet must be a SYN; the sequence number of the SYN+ACK is the
\* one of the SYN.
TakeSyn ==
    LET item == Head(sendItems)
    IN  /\ run.pc = "syn" /\ sendItems # <<>>
        /\ sendItems' = Tail(sendItems)
        /\ IF item.syn
           THEN /\ conn' = [conn EXCEPT !.sendSeq = NumberOf(1), !.receiveSeq = NumberOf(1),
                                        !.receiveSeqAck = NumberOf(0),
                                        !.receiveWindowSize = item.window]
                /\ made' = 1
                /\ offer' = [last |-> item.window, ever |-> item.window]
                /\ run' = [run EXCEPT !.pc = "dial"]
           ELSE UNCHANGED <<conn, made, offer, run>>
        /\ UNCHANGED <<scenario, peer, ctxDone, idleClosed, socket, writerVars,
                       readerVars, forwardVars, acker, gap>>

\* The socket connects, the peer is given the SYN+ACK, and the goroutines start.
Dial ==
    /\ run.pc = "dial"
    /\ socket' = "open"
    /\ peer' = [peer EXCEPT !.got = 1]
    /\ conn' = [conn EXCEPT !.ackedSendSeq = conn.sendSeq]
    /\ run' = [run EXCEPT !.pc = "open"]
    /\ writer' = [writer EXCEPT !.pc = "take"]
    /\ reader' = [reader EXCEPT !.pc = "read"]
    /\ forwarder' = "open" /\ acker' = "lock"
    /\ UNCHANGED <<scenario, sendItems, ctxDone, idleClosed, writePayloads,
                   writesClosed, written, remoteLeft, readPackets, readsClosed,
                   seenVars>>

\* Run returns: the context is done, there is no SYN in time, or no connection.
RunStops ==
    /\ \/ run.pc \in {"syn", "open", "push", "flush"} /\ ctxDone
       \/ run.pc = "dial"
    /\ run' = [run EXCEPT !.pc = "broadcast", !.item = NoSegment]
    /\ UNCHANGED <<peerVars, ctxDone, conn, socket, writerVars, readerVars, forwardVars,
                   acker, seenVars>>

\* No segment for IdleTimeout (ConnectTimeout before the SYN), and none on its way.
RunIdles ==
    /\ run.pc \in {"syn", "open"} /\ sendItems = <<>>
    /\ idleClosed' = TRUE
    /\ run' = [run EXCEPT !.pc = "broadcast", !.item = NoSegment]
    /\ UNCHANGED <<scenario, peer, sendItems, ctxDone, conn, socket, writerVars,
                   readerVars, forwardVars, acker, seenVars>>

\* Fault: a segment that overlaps what was taken is not dropped.
RetransmitOfSyn(item) == item.syn

\* "a retransmit"
Retransmit(item) == conn.sendSeq # NumberOf(item.from) \/ item.syn

\* The condition variables.
WakeReader == IF reader.pc = "wait" THEN [reader EXCEPT !.pc = "lock"] ELSE reader
WakeAcker == IF acker = "wait" THEN "lock" ELSE acker

\* Fault: an ack with the number of the last one does not move the window.
AcksMoreOnly(item) == conn.receiveSeqAck < NumberOf(item.ack)

\* "note the window size can be be adjusted at any time for the same receive
\* seq number".  The numbers are compared as they are.
AcksFurther(item) == conn.receiveSeqAck <= NumberOf(item.ack)

\* Run is done with a segment; that it was a FIN is remembered.
AfterUse(item) == [NoSegment EXCEPT !.fin = item.fin]
AfterFin(item) == IF item.fin THEN "close" ELSE "open"
AfterAck(item) == IF item.len > 0 THEN "push" ELSE AfterFin(item)

\* A segment is taken, with its ack and its window.
TakeItem ==
    LET item == Head(sendItems)
    IN  /\ run.pc = "open" /\ sendItems # <<>>
        /\ sendItems' = Tail(sendItems)
        /\ IF Retransmit(item)
           THEN UNCHANGED <<conn, run, reader, offer>>
           ELSE /\ offer' = [last |-> item.ack + item.window,
                             ever |-> Max({offer.ever, item.ack + item.window})]
                /\ IF AcksFurther(item)
                   THEN /\ conn' = [conn EXCEPT !.receiveWindowSize = item.window,
                                                !.receiveSeqAck = NumberOf(item.ack)]
                        /\ reader' = WakeReader
                   ELSE UNCHANGED <<conn, reader>>
                /\ run' = [run EXCEPT !.pc = IF item.fin THEN "fin" ELSE AfterAck(item),
                                     !.item = IF item.len > 0 THEN item ELSE AfterUse(item)]
        /\ UNCHANGED <<scenario, peer, ctxDone, idleClosed, socket, writerVars,
                       remoteLeft, forwardVars, acker, made, gap>>

TakeFin ==
    /\ run.pc = "fin"
    /\ conn' = [conn EXCEPT !.sendSeq = (@ + 1) % SeqSpace]
    /\ acker' = WakeAcker
    /\ run' = [run EXCEPT !.pc = AfterAck(run.item)]
    /\ UNCHANGED <<peerVars, ctxDone, socket, writerVars, readerVars, forwardVars,
                   seenVars>>

Payload(item) == [i \in 1 .. item.len |-> item.from + i - 1]

\* The payload goes to the writer, as soon as there is room.
PushPayload ==
    /\ run.pc = "push"
    /\ Len(writePayloads) < SequenceBufferSize
    /\ writePayloads' = Append(writePayloads, Payload(run.item))
    /\ run' = [run EXCEPT !.pc = "seq"]
    /\ UNCHANGED <<peerVars, ctxDone, conn, socket, writesClosed, writer, written,
                   readerVars, forwardVars, acker, seenVars>>

\* Only then is it acked.
AdvanceSendSeq ==
    /\ run.pc = "seq"
    /\ conn' = [conn EXCEPT !.sendSeq = (@ + run.item.len) % SeqSpace]
    /\ acker' = WakeAcker
    /\ run' = [run EXCEPT !.pc = AfterFin(run.item), !.item = AfterUse(run.item)]
    /\ UNCHANGED <<peerVars, ctxDone, socket, writerVars, readerVars, forwardVars,
                   seenVars>>

\* After a FIN the writer flushes, and ends the context.
CloseWrites ==
    /\ run.pc = "close"
    /\ writesClosed' = TRUE
    /\ run' = [run EXCEPT !.pc = "flush"]
    /\ UNCHANGED <<peerVars, ctxDone, conn, socket, writePayloads, writer, written,
                   readerVars, forwardVars, acker, seenVars>>

\* The deferred calls of Run: the broadcasts, then socket.Close, then cancel.
Broadcast ==
    /\ run.pc = "broadcast"
    /\ reader' = WakeReader /\ acker' = WakeAcker
    /\ run' = [run EXCEPT !.pc = "socket", !.early = ~ctxDone]
    /\ UNCHANGED <<peerVars, ctxDone, conn, socket, writerVars, remoteLeft, forwardVars,
                   seenVars>>

CloseSocket ==
    /\ run.pc = "socket"
    /\ socket' = "closed"
    /\ run' = [run EXCEPT !.pc = "cancel"]
    /\ UNCHANGED <<peerVars, ctxDone, conn, writerVars, readerVars, forwardVars, acker,
                   seenVars>>

\* sendItems is closed and drained.
RunEnds ==
    /\ run.pc = "cancel"
    /\ ctxDone' = TRUE
    /\ sendItems' = <<>>
    /\ run' = [run EXCEPT !.pc = "done"]
    /\ UNCHANGED <<scenario, peer, idleClosed, conn, socket, writerVars, readerVars,
                   forwardVars, acker, seenVars>>

-----------------------------------------------------------------------------
(* The writer                                                              *)

WriterTakes ==
    /\ writer.pc = "take" /\ writePayloads # <<>>
    /\ writer' = [pc |-> "write", left |-> Head(writePayloads)]
    /\ writePayloads' = Tail(writePayloads)
    /\ UNCHANGED <<peerVars, ctxDone, conn, run, socket, writesClosed, written,
                   readerVars, forwardVars, acker, seenVars>>

\* The socket takes some of the payload.
Write ==
    /\ writer.pc = "write" /\ socket = "open"
    /\ \E n \in 1 .. Len(writer.left) :
          /\ written' = written \o SubSeq(writer.left, 1, n)
          /\ writer' = IF n = Len(writer.left) THEN [pc |-> "take", left |-> <<>>]
                       ELSE [writer EXCEPT !.left = SubSeq(@, n + 1, Len(@))]
    /\ UNCHANGED <<peerVars, ctxDone, conn, run, socket, writePayloads, writesClosed,
                   readerVars, forwardVars, acker, seenVars>>

\* All is written after a FIN; a write fails or takes too long; or the context
\* is done.  The writer ends, and the sequence with it.
WriterEnds ==
    /\ \/ writer.pc = "take" /\ ctxDone
       \/ writer.pc = "take" /\ writesClosed /\ writePayloads = <<>>
       \/ writer.pc = "write"
    /\ writer' = [pc |-> "end", left |-> <<>>]
    /\ ctxDone' = TRUE
    /\ UNCHANGED <<peerVars, conn, run, socket, writePayloads, writesClosed, written,
                   readerVars, forwardVars, acker, seenVars>>

-----------------------------------------------------------------------------
(* The reader and the forwarder                                            *)

\* The socket gives some bytes, the end of the stream, or an error.
Read ==
    /\ reader.pc = "read"
    /\ \/ \E n \in 1 .. Min({MaxRead, remoteLeft}) :
             /\ socket = "open"
             /\ reader' = [reader EXCEPT !.pc = "lock", !.n = n]
             /\ remoteLeft' = remoteLeft - n
       \/ /\ socket = "open" /\ remoteLeft = 0
          /\ reader' = [reader EXCEPT !.pc = "eof"]
          /\ UNCHANGED remoteLeft
       \/ reader' = [reader EXCEPT !.pc = "end"] /\ UNCHANGED remoteLeft
    /\ UNCHANGED <<peerVars, ctxDone, conn, run, socket, writerVars, forwardVars, acker,
                   seenVars>>

\* Fault: what was read is not counted.
WindowFullBefore(n) ==
    conn.receiveWindowSize < Minus(conn.receiveSeq, conn.receiveSeqAck)

\* "tcp receive window wait"
WindowFull(n) ==
    conn.receiveWindowSize < (Minus(conn.receiveSeq, conn.receiveSeqAck) + n) % SeqSpace

\* A packet for the peer, with its first sequence number and what it takes up.
Packet(kind, seq, len) == [kind |-> kind, seq |-> seq, len |-> len]

\* Fault: the packets all have the first sequence number.
DataPacketsUnnumbered(n) ==
    [k \in 1 .. (n + PacketSize - 1) \div PacketSize |->
        Packet("data", conn.receiveSeq, Min({PacketSize, n - (k - 1) * PacketSize}))]

\* DataPackets: n bytes in packets that fit the mtu.
DataPackets(n) ==
    [k \in 1 .. (n + PacketSize - 1) \div PacketSize |->
        Packet("data", (conn.receiveSeq + (k - 1) * PacketSize) % SeqSpace,
               Min({PacketSize, n - (k - 1) * PacketSize}))]

\* The reader waits for the window of the peer, then makes packets, which ack
\* what Run has taken.
ReaderLocks ==
    /\ reader.pc = "lock"
    /\ \/ /\ ctxDone
          /\ reader' = [reader EXCEPT !.pc = "end", !.n = 0]
          /\ UNCHANGED <<conn, made>>
       \/ /\ ~ctxDone /\ WindowFull(reader.n)
          /\ reader' = [reader EXCEPT !.pc = "wait"]
          /\ UNCHANGED <<conn, made>>
       \/ /\ ~ctxDone /\ ~WindowFull(reader.n)
          /\ reader' = [reader EXCEPT !.pc = "queue", !.n = 0,
                                      !.packets = DataPackets(reader.n)]
          /\ conn' = [conn EXCEPT !.receiveSeq = (@ + reader.n) % SeqSpace,
                                  !.ackedSendSeq = conn.sendSeq]
          /\ made' = made + reader.n
    /\ UNCHANGED <<peerVars, ctxDone, run, socket, writerVars, remoteLeft, forwardVars,
                   acker, offer, gap>>

\* A packet is queued, or dropped when the context is done.
ReaderQueues ==
    /\ reader.pc = "queue"
    /\ reader' = [reader EXCEPT !.packets = Tail(@),
                                !.pc = IF Len(reader.packets) = 1 THEN "read" ELSE "queue"]
    /\ \/ /\ Len(readPackets) < SequenceBufferSize
          /\ readPackets' = Append(readPackets, Head(reader.packets))
       \/ ctxDone /\ UNCHANGED readPackets
    /\ UNCHANGED <<peerVars, ctxDone, conn, run, socket, writerVars, remoteLeft,
                   readsClosed, forwarder, acker, seenVars>>

\* FinAck for the end of the stream.
ReaderMakesFin ==
    /\ reader.pc = "eof"
    /\ conn' = [conn EXCEPT !.receiveSeq = (@ + 1) % SeqSpace]
    /\ made' = made + 1
    /\ reader' = [reader EXCEPT !.pc = "fin",
                                !.packets = <<Packet("fin", conn.receiveSeq, 1)>>]
    /\ UNCHANGED <<peerVars, ctxDone, run, socket, writerVars, remoteLeft, forwardVars,
                   acker, offer, gap>>

ReaderQueuesFin ==
    /\ reader.pc = "fin"
    /\ \/ /\ Len(readPackets) < SequenceBufferSize
          /\ readPackets' = readPackets \o reader.packets
          /\ reader' = [reader EXCEPT !.pc = "end", !.packets = <<>>, !.fin = TRUE]
       \/ /\ ctxDone
          /\ reader' = [reader EXCEPT !.pc = "end", !.packets = <<>>]
          /\ UNCHANGED readPackets
    /\ UNCHANGED <<peerVars, ctxDone, conn, run, socket, writerVars, remoteLeft,
                   readsClosed, forwarder, acker, seenVars>>

\* The reader ends the context.
ReaderEnds ==
    /\ reader.pc = "end"
    /\ ctxDone' = TRUE
    /\ reader' = [reader EXCEPT !.pc = IF reader.fin THEN "close" ELSE "rst"]
    /\ UNCHANGED <<peerVars, conn, run, socket, writerVars, remoteLeft, forwardVars,
                   acker, seenVars>>

\* Without a FIN the peer is given a RST, which waits for room whatever happens.
ReaderQueuesRst ==
    /\ reader.pc = "rst"
    /\ Len(readPackets) < SequenceBufferSize
    /\ readPackets' = Append(readPackets, Packet("rst", conn.receiveSeq, 0))
    /\ reader' = [reader EXCEPT !.pc = "close"]
    /\ UNCHANGED <<peerVars, ctxDone, conn, run, socket, writerVars, remoteLeft,
                   readsClosed, forwarder, acker, seenVars>>

ReaderCloses ==
    /\ reader.pc = "close"
    /\ readsClosed' = TRUE
    /\ reader' = [reader EXCEPT !.pc = "done"]
    /\ UNCHANGED <<peerVars, ctxDone, conn, run, socket, writerVars, remoteLeft,
                   readPackets, forwarder, acker, seenVars>>

\* The forwarder gives a packet to the peer, context done or not.
Forward ==
    LET packet == Head(readPackets)
        inOrder == packet.seq = NumberOf(peer.got)
    IN  /\ forwarder = "open" /\ readPackets # <<>>
        /\ readPackets' = Tail(readPackets)
        /\ peer' = IF inOrder THEN [peer EXCEPT !.got = @ + packet.len] ELSE peer
        /\ gap' = (gap \/ ~inOrder)
        /\ UNCHANGED <<scenario, sendItems, ctxDone, idleClosed, conn, run, socket,
                       writerVars, readerVars, readsClosed, forwarder, acker, made,
                       offer>>

ForwarderEnds ==
    /\ forwarder = "open" /\ readPackets = <<>> /\ readsClosed
    /\ forwarder' = "done"
    /\ ctxDone' = TRUE
    /\ UNCHANGED <<peerVars, conn, run, socket, writerVars, readerVars, readPackets,
                   readsClosed, acker, seenVars>>

-----------------------------------------------------------------------------
(* The acker                                                               *)

\* The acker waits until there is something to ack.
AckerLocks ==
    /\ acker = "lock"
    /\ \/ /\ ctxDone
          /\ acker' = "done" /\ UNCHANGED conn
       \/ /\ ~ctxDone /\ conn.sendSeq = conn.ackedSendSeq
          /\ acker' = "wait" /\ UNCHANGED conn
       \/ /\ ~ctxDone /\ conn.sendSeq # conn.ackedSendSeq
          /\ acker' = "ack"
          /\ conn' = [conn EXCEPT !.ackedSendSeq = conn.sendSeq]
    /\ UNCHANGED <<peerVars, ctxDone, run, socket, writerVars, readerVars, forwardVars,
                   seenVars>>

\* It gives the PureAck to the peer, and pauses for AckCompressTimeout.
AckerAcks ==
    /\ acker = "ack"
    /\ acker' = IF ctxDone THEN "done" ELSE "lock"
    /\ UNCHANGED <<peerVars, ctxDone, conn, run, socket, writerVars, readerVars,
                   forwardVars, seenVars>>

-----------------------------------------------------------------------------
Next ==
    \/ PeerSyn \/ PeerSegment \/ Cancel
    \/ TakeSyn \/ Dial \/ RunStops \/ RunIdles
    \/ TakeItem \/ TakeFin \/ PushPayload \/ AdvanceSendSeq \/ CloseWrites
    \/ Broadcast \/ CloseSocket \/ RunEnds
    \/ WriterTakes \/ Write \/ WriterEnds
    \/ Read \/ ReaderLocks \/ ReaderQueues \/ ReaderMakesFin \/ ReaderQueuesFin
    \/ ReaderEnds \/ ReaderQueuesRst \/ ReaderCloses
    \/ Forward \/ ForwarderEnds
    \/ AckerLocks \/ AckerAcks

Spec == Init /\ [][Next]_vars

-----------------------------------------------------------------------------
(* Properties                                                              *)

\* The bytes of the peer that are on their way to the remote, in their order.
Carried ==
    written \o writer.left \o FlattenSeq(writePayloads)
        \o (IF run.pc \in {"fin", "push"} THEN Payload(run.item) ELSE <<>>)

IsStream(s) == \A i \in DOMAIN s : s[i] = i

\* The remote is given the bytes of the peer in order and once, whatever the
\* peer sends again; and what the peer may have been acked is on its way, until
\* the sequence ends.  A FIN takes up one number more than there are bytes.
AckedIsCarried ==
    /\ IsStream(written)
    /\ ~ctxDone => /\ IsStream(Carried)
                   /\ run.pc \in {"open", "fin", "push", "seq", "close", "flush"}
                        => Minus(conn.sendSeq, NumberOf(1))
                             <= Len(Carried) + (IF run.item.fin THEN 1 ELSE 0)

\* No byte for the peer lies beyond what the peer has ever offered to receive
\* to, also when the sequence numbers wrap.  The FIN is sent whatever the window.
WithinWindow == Min({made, scenario.remoteBytes + 1}) <= Max({1, offer.ever})

\* The sequence numbers of the packets for the peer wrap.
Wraps == scenario.isn + scenario.remoteBytes + 2 >= SeqSpace

\* The reader does not wait while the peer offers room for what was read, nor
\* the acker while there is something to ack; and nobody waits once Run has
\* returned from a context that was done.
NoLostWakeup ==
    /\ ~Wraps /\ reader.pc = "wait" => made + reader.n > offer.last
    /\ acker = "wait" => conn.sendSeq = conn.ackedSendSeq
    /\ run.pc = "done" /\ ~run.early => reader.pc # "wait" /\ acker # "wait"

\* The peer is given all bytes of the remote in order, without a gap, until the
\* sequence ends: "packet flow from the UNAT to the source is assumed to never
\* require retransmits".
NoGapToPeer == gap => ctxDone
=============================================================================
