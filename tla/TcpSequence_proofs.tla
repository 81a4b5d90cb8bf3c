------------------------- MODULE TcpSequence_proofs -------------------------
(***************************************************************************)
(* Proofs about TcpSequence, for any number of sequence numbers, any       *)
(* window, any sizes of payloads, packets and buffers: the bytes of both   *)
(* directions pass in order and once, within the window, with numbers that *)
(* wrap, and no wakeup is lost.                                            *)
(***************************************************************************)
EXTENDS TcpSequence, WellFoundedInduction, TLAPS

-----------------------------------------------------------------------------
(* The inductive invariant.                                                *)

Segments == [syn : BOOLEAN, from : Nat, len : Nat, fin : BOOLEAN, ack : Nat, window : Nat]
Packets == [kind : {"data", "fin", "rst"}, seq : Nat, len : Nat]

RunType ==
    [pc : {"syn", "dial", "open", "fin", "push", "seq", "close", "flush",
           "broadcast", "socket", "cancel", "done"},
     item : Segments, early : BOOLEAN]
ReaderType ==
    [pc : {"none", "read", "lock", "wait", "queue", "eof", "fin", "end", "rst",
           "close", "done"},
     n : Nat, packets : Seq(Packets), fin : BOOLEAN]
ConnType ==
    [sendSeq : Nat, receiveSeq : Nat, receiveSeqAck : Nat, receiveWindowSize : Nat,
     ackedSendSeq : Nat]
WriterType == [pc : {"none", "take", "write", "end"}, left : Seq(Nat)]

\* The types of the variables, in four parts.
PeerType ==
    /\ scenario \in Scenarios
    /\ peer \in [next : Nat, got : Nat] /\ sendItems \in Seq(Segments)
    /\ idleClosed \in BOOLEAN /\ ctxDone \in BOOLEAN
RunTypeOK == conn \in ConnType /\ run \in RunType /\ socket \in {"none", "open", "closed"}
WriterTypeOK ==
    /\ writePayloads \in Seq(Seq(Nat)) /\ writesClosed \in BOOLEAN
    /\ writer \in WriterType /\ written \in Seq(Nat)
ReadType ==
    /\ remoteLeft \in Nat /\ readPackets \in Seq(Packets) /\ readsClosed \in BOOLEAN
    /\ reader \in ReaderType /\ forwarder \in {"none", "open", "done"}
    /\ acker \in {"none", "lock", "wait", "ack", "done"}
    /\ made \in Nat /\ offer \in [last : Nat, ever : Nat] /\ gap \in BOOLEAN

TypeOK == PeerType /\ RunTypeOK /\ WriterTypeOK /\ ReadType

\* Before the socket is connected nothing else runs.
StartInv ==
    /\ run.pc \in {"syn", "dial"} =>
          /\ writer.pc = "none" /\ reader.pc = "none" /\ acker = "none" /\ forwarder = "none"
          /\ peer.got = 0
    /\ run.pc = "syn" => made = 0
    /\ run.pc = "dial" => made = 1
    /\ run.pc \in {"open", "fin", "push", "seq", "close", "flush"} => writer.pc # "none"
    /\ writer.pc = "none" => writePayloads = <<>> /\ written = <<>>
    /\ writer.pc # "write" => writer.left = <<>>
    /\ forwarder = "none" => readPackets = <<>> /\ reader.packets = <<>> /\ reader.pc = "none"

\* A segment of the peer lies within its stream, whose end is the FIN.
SegmentOK(x) ==
    /\ x.from <= scenario.peerBytes + 2
    /\ x.len > 0 => x.from + x.len <= scenario.peerBytes + 1
    /\ x.fin => x.from + x.len = scenario.peerBytes + 1

SegmentInv ==
    /\ peer.next <= scenario.peerBytes + 2
    /\ \A i \in DOMAIN sendItems : SegmentOK(sendItems[i])

\* The position of the last byte of the first k payloads for the writer.
EndOf(k) ==
    IF k = 0 THEN Len(written) + Len(writer.left)
    ELSE writePayloads[k][Len(writePayloads[k])]

\* Byte i of s is the one at position p + i.
IsFrom(s, p) == \A i \in DOMAIN s : s[i] = p + i

\* What the writer has, and has yet to take, continues what was written.
Continues ==
    /\ IsFrom(writer.left, Len(written))
    /\ \A k \in DOMAIN writePayloads :
          writePayloads[k] # <<>> /\ IsFrom(writePayloads[k], EndOf(k - 1))

One(b) == IF b THEN 1 ELSE 0

\* Run at a segment with the last byte for the writer at position end: what
\* sendSeq stands for, and what is left of the segment.
RunAt(end) ==
    /\ run.pc = "dial" => conn.sendSeq = NumberOf(1) /\ end = 0
    /\ run.pc \in {"syn", "dial", "open"} => ~run.item.fin
    /\ run.pc = "open" => end <= scenario.peerBytes /\ conn.sendSeq = NumberOf(end + 1)
    /\ run.pc \in {"fin", "push"} =>
          /\ run.item.len > 0 => run.item.from = end + 1
          /\ end + run.item.len <= scenario.peerBytes
          /\ run.item.fin => end + run.item.len = scenario.peerBytes
    /\ run.pc = "fin" => run.item.fin /\ conn.sendSeq = NumberOf(end + 1)
    /\ run.pc = "push" =>
          run.item.len > 0 /\ conn.sendSeq = NumberOf(end + 1 + One(run.item.fin))
    /\ run.pc = "seq" =>
          /\ run.item.len \in 1 .. end /\ end <= scenario.peerBytes
          /\ run.item.fin => end = scenario.peerBytes
          /\ conn.sendSeq = NumberOf(end - run.item.len + 1 + One(run.item.fin))
    /\ run.pc \in {"close", "flush"} =>
          run.item.fin /\ end = scenario.peerBytes /\ conn.sendSeq = NumberOf(end + 2)

CarryInv ==
    /\ IsStream(written)
    /\ writer.pc # "end" => Continues /\ RunAt(EndOf(Len(writePayloads)))

\* Every byte of the remote is with the remote, with the reader, or in a packet.
MadeInv ==
    /\ made <= scenario.remoteBytes + 2
    /\ made > 0 => conn.receiveSeq = NumberOf(made)
    /\ made = 0 =>
          /\ reader.pc = "none" /\ remoteLeft = scenario.remoteBytes
          /\ run.pc \in {"syn", "broadcast", "socket", "cancel", "done"}
    /\ reader.pc \in {"none", "read", "lock", "wait", "queue", "eof"} /\ made > 0 =>
          made + reader.n + remoteLeft = scenario.remoteBytes + 1
    /\ reader.pc \in {"lock", "wait"} => reader.n > 0
    /\ reader.pc \notin {"lock", "wait"} => reader.n = 0
    /\ reader.pc = "eof" => remoteLeft = 0
    /\ reader.pc \notin {"queue", "fin"} => reader.packets = <<>>
    /\ reader.pc = "queue" => reader.packets # <<>>
    /\ reader.pc = "fin" => Len(reader.packets) = 1

\* The acks of the peer are in order, and of what was made.
AckInv ==
    /\ \A i \in DOMAIN sendItems : sendItems[i].ack <= peer.got /\ sendItems[i].ack <= made
    /\ \A i, j \in DOMAIN sendItems : i < j => sendItems[i].ack <= sendItems[j].ack

\* The window of the connection state is at position a.
WindowAt(a) ==
    /\ a <= made /\ a <= peer.got
    /\ conn.receiveSeqAck = NumberOf(a)
    /\ a + conn.receiveWindowSize <= offer.ever
    /\ ~Wraps => offer.last = a + conn.receiveWindowSize
    /\ \A i \in DOMAIN sendItems : a <= sendItems[i].ack

WindowInv ==
    /\ made > 0 => \E a \in Nat : WindowAt(a)
    /\ \A p \in 2 .. scenario.remoteBytes + 1 : p <= made => p <= offer.ever
    /\ ~Wraps /\ reader.pc = "wait" => made + reader.n > offer.last

\* The packets in q follow each other from position a to position b.
Spans(q, a, b) ==
    \E f \in [1 .. Len(q) + 1 -> 0 .. b] :
        /\ f[1] = a /\ f[Len(q) + 1] = b
        /\ \A k \in DOMAIN q : q[k].seq = NumberOf(f[k]) /\ f[k + 1] = f[k] + q[k].len

\* Until the sequence ends, what the peer has yet to get is all on its way.
PacketInv ==
    /\ gap => ctxDone
    /\ ~ctxDone /\ forwarder # "none" =>
          \E m \in Nat : Spans(readPackets, peer.got, m) /\ Spans(reader.packets, m, made)
    /\ forwarder = "none" => peer.got = 0

WakeInv ==
    /\ acker = "wait" => conn.sendSeq = conn.ackedSendSeq
    /\ run.pc \in {"socket", "cancel", "done"} /\ ~run.early =>
          ctxDone /\ reader.pc # "wait" /\ acker # "wait"

\* The writer ends the context.
EndInv == writer.pc = "end" => ctxDone

IInv ==
    /\ TypeOK /\ StartInv /\ SegmentInv /\ CarryInv /\ MadeInv /\ AckInv /\ WindowInv
    /\ PacketInv /\ WakeInv /\ EndInv

-----------------------------------------------------------------------------
(* Sequence numbers and positions.                                         *)

LEMMA ModSmall ==
    ASSUME NEW m \in Nat \ {0}, NEW x \in Nat, x < m
    PROVE  x % m = x
  OBVIOUS

LEMMA ModOnce ==
    ASSUME NEW m \in Nat \ {0}, NEW x \in Nat, m <= x, x < m + m
    PROVE  x % m = x - m
  OBVIOUS

\* Both, for a number below twice the modulus.
LEMMA ModIs ==
    ASSUME NEW m \in Nat \ {0}, NEW x, x \in Nat, x < m + m, NEW y, y = x % m
    PROVE  y \in Nat /\ y < m /\ (x < m => y = x) /\ (m <= x => y = x - m)
  <1>1. CASE x < m
    BY <1>1, ModSmall
  <1>2. CASE m <= x
    <2>1. x % m = x - m
      BY <1>2, ModOnce, Zenon
    <2>2. y = x - m
      BY <2>1, Zenon
    <2> QED BY ONLY <1>2, <2>2, m \in Nat, x \in Nat, x < m + m
  <1> QED BY <1>1, <1>2

\* What the assumption says of a scenario.
LEMMA Bounds ==
    ASSUME scenario \in Scenarios
    PROVE  /\ SeqSpace \in Nat \ {0}
           /\ scenario.isn \in Nat /\ scenario.isn < SeqSpace
           /\ scenario.peerBytes \in Nat /\ scenario.peerBytes + 2 < SeqSpace
           /\ scenario.remoteBytes \in Nat /\ scenario.remoteBytes + 2 < SeqSpace
           /\ scenario.windows \subseteq Nat
           /\ MaxRead \in Nat \ {0} /\ PacketSize \in Nat \ {0}
           /\ SequenceBufferSize \in Nat \ {0}
  BY TcpAssumption

\* The number of a position that lies less than SeqSpace from the start.
LEMMA NumberIs ==
    ASSUME scenario \in Scenarios, NEW p \in Nat, p < SeqSpace
    PROVE  /\ NumberOf(p) \in Nat /\ NumberOf(p) < SeqSpace
           /\ scenario.isn + p < SeqSpace => NumberOf(p) = scenario.isn + p
           /\ scenario.isn + p >= SeqSpace => NumberOf(p) = scenario.isn + p - SeqSpace
  <1>1. PICK x : x = scenario.isn + p
    OBVIOUS
  <1>2. x \in Nat /\ x < SeqSpace + SeqSpace /\ SeqSpace \in Nat \ {0}
    BY <1>1, Bounds
  <1>3. NumberOf(p) = x % SeqSpace
    BY <1>1 DEF NumberOf
  <1>4. /\ NumberOf(p) \in Nat /\ NumberOf(p) < SeqSpace
        /\ x < SeqSpace => NumberOf(p) = x
        /\ SeqSpace <= x => NumberOf(p) = x - SeqSpace
    BY ONLY <1>2, <1>3, ModIs
  <1> QED BY <1>1, <1>2, <1>4, Bounds

\* No two of these positions have the same number.
LEMMA NumberUnique ==
    ASSUME scenario \in Scenarios, NEW p \in Nat, NEW q \in Nat, p < SeqSpace, q < SeqSpace,
           NumberOf(p) = NumberOf(q)
    PROVE  p = q
  BY Bounds, NumberIs

LEMMA NumberNext ==
    ASSUME scenario \in Scenarios, NEW p \in Nat, NEW k \in Nat, p + k < SeqSpace
    PROVE  (NumberOf(p) + k) % SeqSpace = NumberOf(p + k)
  <1>1. /\ p < SeqSpace /\ p + k \in Nat /\ SeqSpace \in Nat \ {0}
        /\ NumberOf(p) \in Nat /\ NumberOf(p) < SeqSpace
    BY Bounds, NumberIs
  <1>2. PICK x : x = NumberOf(p) + k
    OBVIOUS
  <1>3. PICK y : y = x % SeqSpace
    OBVIOUS
  <1>4. x \in Nat /\ x < SeqSpace + SeqSpace
    BY <1>1, <1>2
  <1>5. y \in Nat /\ y < SeqSpace /\ (x < SeqSpace => y = x) /\ (SeqSpace <= x => y = x - SeqSpace)
    BY ONLY <1>1, <1>3, <1>4, ModIs
  <1>6. y = NumberOf(p + k)
    BY <1>1, <1>2, <1>5, Bounds, NumberIs
  <1> QED BY <1>2, <1>3, <1>6

\* The difference of two numbers is the distance of their positions.
LEMMA MinusNumbers ==
    ASSUME scenario \in Scenarios, NEW p \in Nat, NEW q \in Nat, q <= p, p < SeqSpace
    PROVE  Minus(NumberOf(p), NumberOf(q)) = p - q
  <1>1. /\ q < SeqSpace /\ SeqSpace \in Nat \ {0}
        /\ NumberOf(p) \in Nat /\ NumberOf(p) < SeqSpace
        /\ NumberOf(q) \in Nat /\ NumberOf(q) < SeqSpace
    BY Bounds, NumberIs
  <1>2. PICK x : x = NumberOf(p) + SeqSpace - NumberOf(q)
    OBVIOUS
  <1>3. PICK y : y = x % SeqSpace
    OBVIOUS
  <1>4. x \in Nat /\ x < SeqSpace + SeqSpace /\ (x = p - q \/ x = p - q + SeqSpace)
    BY <1>1, <1>2, Bounds, NumberIs
  <1>5. y \in Nat /\ y < SeqSpace /\ (x < SeqSpace => y = x) /\ (SeqSpace <= x => y = x - SeqSpace)
    BY ONLY <1>1, <1>3, <1>4, ModIs
  <1>6. y = p - q
    BY <1>1, <1>4, <1>5
  <1> QED BY <1>2, <1>3, <1>6 DEF Minus

\* The window is full when the bytes would lie beyond it.
LEMMA WindowFullIs ==
    ASSUME scenario \in Scenarios, NEW a \in Nat, NEW n \in Nat, made \in Nat,
           conn.receiveSeq = NumberOf(made), conn.receiveSeqAck = NumberOf(a),
           conn.receiveWindowSize \in Nat, a <= made, made + n < SeqSpace
    PROVE  WindowFull(n) <=> a + conn.receiveWindowSize < made + n
  <1>1. SeqSpace \in Nat \ {0}
    BY Bounds
  <1>2. Minus(conn.receiveSeq, conn.receiveSeqAck) = made - a
    BY <1>1, MinusNumbers
  <1>3. PICK x : x = made - a + n
    OBVIOUS
  <1>4. x \in Nat /\ x < SeqSpace
    BY <1>1, <1>3
  <1>5. x % SeqSpace = x
    BY ONLY <1>1, <1>4, ModSmall
  <1>6. WindowFull(n) <=> conn.receiveWindowSize < x
    BY <1>2, <1>3, <1>5 DEF WindowFull
  <1> QED BY <1>3, <1>6

\* The lesser and the greater of two numbers.
LEMMA OfTwo ==
    ASSUME NEW a \in Nat, NEW b \in Nat
    PROVE  /\ Max({a, b}) = IF a >= b THEN a ELSE b
           /\ Min({a, b}) = IF a <= b THEN a ELSE b
  <1>1. Max({a, b}) = IF a >= b THEN a ELSE b
    <2>1. \E x \in {a, b} : \A y \in {a, b} : x >= y
      OBVIOUS
    <2>2. /\ Max({a, b}) \in {a, b} /\ \A y \in {a, b} : Max({a, b}) >= y
      BY <2>1 DEF Max
    <2> QED BY <2>2
  <1>2. Min({a, b}) = IF a <= b THEN a ELSE b
    <2>1. \E x \in {a, b} : \A y \in {a, b} : x <= y
      OBVIOUS
    <2>2. /\ Min({a, b}) \in {a, b} /\ \A y \in {a, b} : Min({a, b}) <= y
      BY <2>1 DEF Min
    <2> QED BY <2>2
  <1> QED BY <1>1, <1>2

-----------------------------------------------------------------------------
(* Sequences.                                                              *)

LEMMA Added ==
    ASSUME NEW T, NEW s \in Seq(T), NEW x \in T, NEW t, t = Append(s, x)
    PROVE  /\ t \in Seq(T) /\ Len(t) = Len(s) + 1 /\ Len(s) \in Nat
           /\ DOMAIN s = 1 .. Len(s) /\ DOMAIN t = 1 .. Len(s) + 1
           /\ \A k \in DOMAIN s : t[k] = s[k]
           /\ t[Len(s) + 1] = x /\ t # <<>>
  OBVIOUS

LEMMA Taken ==
    ASSUME NEW T, NEW s \in Seq(T), s # <<>>, NEW t, t = Tail(s)
    PROVE  /\ t \in Seq(T) /\ Len(s) \in Nat \ {0} /\ Len(t) = Len(s) - 1
           /\ DOMAIN s = 1 .. Len(s) /\ DOMAIN t = 1 .. Len(s) - 1
           /\ \A k \in DOMAIN t : t[k] = s[k + 1] /\ k + 1 \in DOMAIN s
           /\ Head(s) \in T /\ Head(s) = s[1] /\ 1 \in DOMAIN s
  OBVIOUS

-----------------------------------------------------------------------------
(* What every step keeps.                                                  *)

\* The scenario of a behaviour does not change.
LEMMA SameScenario ==
    ASSUME [Next]_vars
    PROVE  scenario' = scenario
  <1>1. CASE PeerSyn \/ PeerSegment
    <2>1. ASSUME NEW x, SendItem(x)
          PROVE  scenario' = scenario
      BY <2>1 DEF SendItem
    <2>2. CASE PeerSyn
      BY <2>1, <2>2, Zenon DEF PeerSyn
    <2>3. CASE PeerSegment
      BY <2>1, <2>3, Zenon DEF PeerSegment
    <2> QED BY <1>1, <2>2, <2>3
  <1>2. CASE Cancel \/ TakeSyn \/ Dial \/ RunStops \/ RunIdles \/ TakeItem \/ TakeFin
    BY <1>2 DEF Cancel, TakeSyn, Dial, RunStops, RunIdles, TakeItem, TakeFin, peerVars
  <1>3. CASE PushPayload \/ AdvanceSendSeq \/ CloseWrites \/ Broadcast \/ CloseSocket \/ RunEnds
    BY <1>3 DEF PushPayload, AdvanceSendSeq, CloseWrites, Broadcast, CloseSocket, RunEnds,
                peerVars
  <1>4. CASE WriterTakes \/ Write \/ WriterEnds
    BY <1>4 DEF WriterTakes, Write, WriterEnds, peerVars
  <1>5. CASE Read \/ ReaderLocks \/ ReaderQueues \/ ReaderMakesFin \/ ReaderQueuesFin
    BY <1>5 DEF Read, ReaderLocks, ReaderQueues, ReaderMakesFin, ReaderQueuesFin, peerVars
  <1>6. CASE ReaderEnds \/ ReaderQueuesRst \/ ReaderCloses \/ Forward \/ ForwarderEnds
    BY <1>6 DEF ReaderEnds, ReaderQueuesRst, ReaderCloses, Forward, ForwarderEnds, peerVars
  <1>7. CASE AckerLocks \/ AckerAcks \/ UNCHANGED vars
    BY <1>7 DEF AckerLocks, AckerAcks, peerVars, vars
  <1> QED BY <1>1, <1>2, <1>3, <1>4, <1>5, <1>6, <1>7 DEF Next

LEMMA SameNumbers ==
    ASSUME scenario' = scenario
    PROVE  \A p : NumberOf(p)' = NumberOf(p)
  BY DEF NumberOf

-----------------------------------------------------------------------------
(* Types.                                                                  *)

LEMMA PayloadType ==
    ASSUME NEW x \in Segments
    PROVE  /\ Payload(x) \in Seq(Nat) /\ Len(Payload(x)) = x.len
           /\ x.from > 0 => IsFrom(Payload(x), x.from - 1)
  <1>1. x.len \in Nat /\ x.from \in Nat
    BY DEF Segments
  <1>2. /\ DOMAIN Payload(x) = 1 .. x.len
        /\ \A i \in 1 .. x.len : Payload(x)[i] = x.from + i - 1
    BY DEF Payload
  <1>3. Payload(x) \in [1 .. x.len -> Nat]
    BY <1>1 DEF Payload
  <1>4. Payload(x) \in Seq(Nat) /\ Len(Payload(x)) = x.len
    BY <1>1, <1>3, <1>2
  <1> QED BY <1>1, <1>2, <1>4 DEF IsFrom

LEMMA SegmentTypes ==
    /\ NoSegment \in Segments
    /\ \A x \in Segments : AfterUse(x) \in Segments
  BY DEF NoSegment, AfterUse, Segments

LEMMA PeerTypeStep ==
    ASSUME TypeOK, Next
    PROVE  PeerType'
  <1>0. scenario' = scenario
    BY SameScenario
  <1>1. ASSUME NEW x \in Segments, SendItem(x)
        PROVE  PeerType'
    <2>1. x.from + x.len + (IF x.syn \/ x.fin THEN 1 ELSE 0) \in Nat
      BY DEF Segments
    <2>2. peer.next \in Nat
      BY DEF TypeOK, PeerType
    <2>3. Max({peer.next, x.from + x.len + (IF x.syn \/ x.fin THEN 1 ELSE 0)}) \in Nat
      BY <2>1, <2>2, OfTwo
    <2>4. sendItems' \in Seq(Segments)
      BY <1>1 DEF SendItem, TypeOK, PeerType
    <2>5. peer' \in [next : Nat, got : Nat]
      BY <1>1, <2>3 DEF SendItem, TypeOK, PeerType
    <2> QED BY <1>0, <1>1, <2>4, <2>5 DEF SendItem, TypeOK, PeerType
  <1>2. CASE PeerSyn
    <2>1. PICK syn \in BOOLEAN, w \in scenario.windows :
             SendItem([NoSegment EXCEPT !.syn = syn, !.window = w])
      BY <1>2 DEF PeerSyn
    <2>2. [NoSegment EXCEPT !.syn = syn, !.window = w] \in Segments
      BY Bounds DEF NoSegment, Segments, TypeOK, PeerType
    <2> QED BY <1>1, <2>1, <2>2
  <1>3. CASE PeerSegment
    <2>1. PICK from \in 1 .. peer.next, len \in 0 .. MaxRead, fin \in BOOLEAN,
               w \in scenario.windows :
             SendItem([syn |-> FALSE, from |-> from, len |-> len, fin |-> fin,
                       ack |-> peer.got, window |-> w])
      BY <1>3 DEF PeerSegment
    <2>2. [syn |-> FALSE, from |-> from, len |-> len, fin |-> fin,
           ack |-> peer.got, window |-> w] \in Segments
      BY Bounds DEF Segments, TypeOK, PeerType
    <2> QED BY <1>1, <2>1, <2>2
  <1>4. CASE TakeSyn \/ TakeItem
    <2>1. sendItems # <<>> /\ sendItems' = Tail(sendItems)
      BY <1>4 DEF TakeSyn, TakeItem
    <2>2. sendItems' \in Seq(Segments)
      BY <2>1, Taken DEF TypeOK, PeerType
    <2> QED BY <1>0, <1>4, <2>2 DEF TakeSyn, TakeItem, TypeOK, PeerType
  <1>5. CASE Dial \/ RunIdles \/ RunEnds \/ Cancel \/ WriterEnds \/ ReaderEnds \/ ForwarderEnds
    <2>1. CASE Dial
      BY <2>1 DEF Dial, TypeOK, PeerType
    <2>2. CASE RunIdles
      BY <2>2 DEF RunIdles, TypeOK, PeerType
    <2>4. CASE RunEnds
      BY <2>4 DEF RunEnds, TypeOK, PeerType
    <2>3. CASE Cancel \/ WriterEnds \/ ReaderEnds \/ ForwarderEnds
      BY <2>3 DEF Cancel, WriterEnds, ReaderEnds, ForwarderEnds, peerVars, TypeOK, PeerType
    <2> QED BY <1>5, <2>1, <2>2, <2>3, <2>4
  <1>6. CASE Forward
    <2>1. readPackets # <<>> /\ Head(readPackets) \in Packets
      BY <1>6, Taken DEF Forward, TypeOK, ReadType
    <2>2. Head(readPackets).len \in Nat
      BY <2>1 DEF Packets
    <2> QED BY <1>6, <2>2 DEF Forward, TypeOK, PeerType
  <1>7. CASE RunStops \/ TakeFin \/ PushPayload \/ AdvanceSendSeq \/ CloseWrites \/ Broadcast
               \/ CloseSocket
    BY <1>7 DEF RunStops, TakeFin, PushPayload, AdvanceSendSeq, CloseWrites, Broadcast,
                CloseSocket, peerVars, TypeOK, PeerType
  <1>8. CASE WriterTakes \/ Write \/ Read \/ ReaderLocks \/ ReaderQueues \/ ReaderMakesFin
               \/ ReaderQueuesFin
    BY <1>8 DEF WriterTakes, Write, Read, ReaderLocks, ReaderQueues, ReaderMakesFin,
                ReaderQueuesFin, peerVars, TypeOK, PeerType
  <1>9. CASE ReaderQueuesRst \/ ReaderCloses \/ AckerLocks \/ AckerAcks
    BY <1>9 DEF ReaderQueuesRst, ReaderCloses, AckerLocks, AckerAcks, peerVars, TypeOK, PeerType
  <1> QED BY <1>2, <1>3, <1>4, <1>5, <1>6, <1>7, <1>8, <1>9 DEF Next

LEMMA ModNat ==
    ASSUME scenario \in Scenarios, NEW x \in Nat
    PROVE  x % SeqSpace \in Nat /\ NumberOf(x) \in Nat
  <1>1. \A y \in Nat : y % SeqSpace \in Nat
    BY Bounds
  <1> QED BY <1>1, Bounds DEF NumberOf

LEMMA RunTypeStep ==
    ASSUME TypeOK, Next
    PROVE  RunTypeOK'
  <1>0. /\ scenario \in Scenarios /\ conn \in ConnType /\ run \in RunType
        /\ socket \in {"none", "open", "closed"}
        /\ conn.sendSeq \in Nat /\ run.item \in Segments
    BY DEF TypeOK, PeerType, RunTypeOK, ConnType, RunType
  <1>1. CASE TakeSyn \/ TakeItem
    <2> DEFINE item == Head(sendItems)
    <2>1. item \in Segments
      BY <1>1, Taken DEF TakeSyn, TakeItem, TypeOK, PeerType
    <2>2. item.window \in Nat /\ item.ack \in Nat /\ item.fin \in BOOLEAN
      BY <2>1 DEF Segments
    <2>3. NumberOf(0) \in Nat /\ NumberOf(1) \in Nat /\ NumberOf(item.ack) \in Nat
      BY <1>0, <2>2, ModNat
    <2>4. AfterUse(item) \in Segments
      BY <2>1, SegmentTypes
    <2> HIDE DEF item
    <2>5. conn' \in ConnType
      BY <1>0, <1>1, <2>2, <2>3 DEF TakeSyn, TakeItem, ConnType, item
    <2>6. run' \in RunType
      BY <1>0, <1>1, <2>1, <2>4 DEF TakeSyn, TakeItem, RunType, item, AfterAck, AfterFin
    <2> QED BY <1>0, <1>1, <2>5, <2>6 DEF TakeSyn, TakeItem, RunTypeOK
  <1>2. CASE Dial
    BY <1>0, <1>2 DEF Dial, RunTypeOK, ConnType, RunType
  <1>3. CASE RunStops \/ RunIdles
    BY <1>0, <1>3, SegmentTypes DEF RunStops, RunIdles, RunTypeOK, RunType
  <1>4. CASE TakeFin
    <2>1. (conn.sendSeq + 1) % SeqSpace \in Nat
      BY <1>0, ModNat
    <2>2. conn' \in ConnType
      BY <1>0, <1>4, <2>1 DEF TakeFin, ConnType
    <2> QED BY <1>0, <1>4, <2>2 DEF TakeFin, RunTypeOK, RunType, AfterAck, AfterFin
  <1>5. CASE AdvanceSendSeq
    <2>1. (conn.sendSeq + run.item.len) % SeqSpace \in Nat
      BY <1>0, ModNat DEF Segments
    <2>2. conn' \in ConnType
      BY <1>0, <1>5, <2>1 DEF AdvanceSendSeq, ConnType
    <2> QED BY <1>0, <1>5, <2>2, SegmentTypes DEF AdvanceSendSeq, RunTypeOK, RunType, AfterFin
  <1>6. CASE PushPayload \/ CloseWrites \/ CloseSocket \/ RunEnds
    BY <1>0, <1>6 DEF PushPayload, CloseWrites, CloseSocket, RunEnds, RunTypeOK, RunType
  <1>7. CASE Broadcast
    BY <1>0, <1>7 DEF Broadcast, RunTypeOK, RunType
  <1>8. CASE ReaderLocks
    <2>1. reader.n \in Nat /\ conn.receiveSeq \in Nat
      BY DEF TypeOK, ReadType, ReaderType, RunTypeOK, ConnType
    <2>2. (conn.receiveSeq + reader.n) % SeqSpace \in Nat
      BY <1>0, <2>1, ModNat
    <2>3. conn' \in ConnType
      BY <1>0, <1>8, <2>2 DEF ReaderLocks, ConnType
    <2> QED BY <1>0, <1>8, <2>3 DEF ReaderLocks, RunTypeOK
  <1>9. CASE ReaderMakesFin
    <2>1. conn.receiveSeq \in Nat
      BY DEF TypeOK, RunTypeOK, ConnType
    <2>2. (conn.receiveSeq + 1) % SeqSpace \in Nat
      BY <1>0, <2>1, ModNat
    <2> QED BY <1>0, <1>9, <2>2 DEF ReaderMakesFin, RunTypeOK, ConnType
  <1>10. CASE AckerLocks
    BY <1>0, <1>10 DEF AckerLocks, RunTypeOK, ConnType
  <1>11. CASE PeerSyn \/ PeerSegment
    <2>1. ASSUME NEW x, SendItem(x)
          PROVE  UNCHANGED <<conn, run, socket>>
      BY <2>1 DEF SendItem
    <2>2. CASE PeerSyn
      BY <1>0, <2>1, <2>2, Zenon DEF PeerSyn, RunTypeOK
    <2>3. CASE PeerSegment
      BY <1>0, <2>1, <2>3, Zenon DEF PeerSegment, RunTypeOK
    <2> QED BY <1>11, <2>2, <2>3
  <1>12. CASE Cancel \/ WriterTakes \/ Write \/ WriterEnds \/ Read \/ ReaderQueues
                \/ ReaderQueuesFin \/ ReaderEnds
    BY <1>0, <1>12 DEF Cancel, WriterTakes, Write, WriterEnds, Read, ReaderQueues,
                       ReaderQueuesFin, ReaderEnds, RunTypeOK
  <1>13. CASE ReaderQueuesRst \/ ReaderCloses \/ Forward \/ ForwarderEnds \/ AckerAcks
    BY <1>0, <1>13 DEF ReaderQueuesRst, ReaderCloses, Forward, ForwarderEnds, AckerAcks,
                       RunTypeOK
  <1> QED BY <1>1, <1>2, <1>3, <1>4, <1>5, <1>6, <1>7, <1>8, <1>9, <1>10, <1>11, <1>12, <1>13
          DEF Next

LEMMA WriterTypeStep ==
    ASSUME TypeOK, Next
    PROVE  WriterTypeOK'
  <1>0. /\ writePayloads \in Seq(Seq(Nat)) /\ writesClosed \in BOOLEAN
        /\ writer \in WriterType /\ written \in Seq(Nat)
        /\ writer.left \in Seq(Nat)
    BY DEF TypeOK, WriterTypeOK, WriterType
  <1>1. CASE Dial
    BY <1>0, <1>1 DEF Dial, WriterTypeOK, WriterType
  <1>2. CASE PushPayload
    <2>1. Payload(run.item) \in Seq(Nat)
      BY PayloadType DEF TypeOK, RunTypeOK, RunType
    <2>2. writePayloads' \in Seq(Seq(Nat))
      BY <1>0, <1>2, <2>1, Added DEF PushPayload
    <2> QED BY <1>0, <1>2, <2>2 DEF PushPayload, WriterTypeOK
  <1>3. CASE CloseWrites
    BY <1>0, <1>3 DEF CloseWrites, WriterTypeOK
  <1>4. CASE WriterTakes
    <2>1. Head(writePayloads) \in Seq(Nat) /\ writePayloads' \in Seq(Seq(Nat))
      BY <1>0, <1>4, Taken DEF WriterTakes
    <2> QED BY <1>0, <1>4, <2>1 DEF WriterTakes, WriterTypeOK, WriterType
  <1>5. CASE Write
    <2>1. PICK n \in 1 .. Len(writer.left) :
             /\ written' = written \o SubSeq(writer.left, 1, n)
             /\ writer' = IF n = Len(writer.left) THEN [pc |-> "take", left |-> <<>>]
                          ELSE [writer EXCEPT !.left =
                                   SubSeq(writer.left, n + 1, Len(writer.left))]
      BY <1>5 DEF Write
    <2>2. /\ SubSeq(writer.left, 1, n) \in Seq(Nat)
          /\ SubSeq(writer.left, n + 1, Len(writer.left)) \in Seq(Nat)
      BY <1>0
    <2>3. written' \in Seq(Nat)
      BY <1>0, <2>1, <2>2
    <2>4. writer' \in WriterType
      <3>1. CASE n = Len(writer.left)
        BY <2>1, <3>1 DEF WriterType
      <3>2. CASE n # Len(writer.left)
        <4>1. PICK s \in Seq(Nat) : s = SubSeq(writer.left, n + 1, Len(writer.left))
          BY <2>2
        <4>2. writer' = [writer EXCEPT !.left = s]
          BY <2>1, <3>2, <4>1
        <4> QED BY <1>0, <4>2 DEF WriterType
      <3> QED BY <3>1, <3>2
    <2> QED BY <1>0, <1>5, <2>3, <2>4 DEF Write, WriterTypeOK
  <1>6. CASE WriterEnds
    BY <1>0, <1>6 DEF WriterEnds, WriterTypeOK, WriterType
  <1>7. CASE PeerSyn \/ PeerSegment
    <2>1. ASSUME NEW x, SendItem(x)
          PROVE  UNCHANGED writerVars
      BY <2>1 DEF SendItem
    <2>2. UNCHANGED writerVars
      <3>1. CASE PeerSyn
        BY <2>1, <3>1, Zenon DEF PeerSyn
      <3>2. CASE PeerSegment
        BY <2>1, <3>2, Zenon DEF PeerSegment
      <3> QED BY <1>7, <3>1, <3>2
    <2> QED BY <1>0, <2>2 DEF writerVars, WriterTypeOK
  <1>8. CASE Cancel \/ TakeSyn \/ RunStops \/ RunIdles \/ TakeItem \/ TakeFin \/ AdvanceSendSeq
               \/ Broadcast \/ CloseSocket \/ RunEnds
    BY <1>0, <1>8 DEF Cancel, TakeSyn, RunStops, RunIdles, TakeItem, TakeFin, AdvanceSendSeq,
                      Broadcast, CloseSocket, RunEnds, writerVars, WriterTypeOK
  <1>9. CASE Read \/ ReaderLocks \/ ReaderQueues \/ ReaderMakesFin \/ ReaderQueuesFin
               \/ ReaderEnds \/ ReaderQueuesRst \/ ReaderCloses
    BY <1>0, <1>9 DEF Read, ReaderLocks, ReaderQueues, ReaderMakesFin, ReaderQueuesFin,
                      ReaderEnds, ReaderQueuesRst, ReaderCloses, writerVars, WriterTypeOK
  <1>10. CASE Forward \/ ForwarderEnds \/ AckerLocks \/ AckerAcks
    BY <1>0, <1>10 DEF Forward, ForwarderEnds, AckerLocks, AckerAcks, writerVars, WriterTypeOK
  <1> QED BY <1>1, <1>2, <1>3, <1>4, <1>5, <1>6, <1>7, <1>8, <1>9, <1>10 DEF Next

-----------------------------------------------------------------------------
(* Packets.                                                                *)

LEMMA Products ==
    ASSUME NEW a \in Nat, NEW b \in Nat, NEW c \in Nat, a <= b
    PROVE  a * c \in Nat /\ a * c <= b * c /\ (a + 1) * c = a * c + c
  OBVIOUS

\* The number k of packets of size m that n bytes take.
LEMMA PacketCount ==
    ASSUME NEW m \in Nat \ {0}, NEW n \in Nat \ {0}, NEW k, k = (n + m - 1) \div m
    PROVE  k \in Nat \ {0} /\ n <= k * m /\ (k - 1) * m < n
  <1>1. n + m - 1 \in Nat
    OBVIOUS
  <1>2. k \in Nat /\ m * k <= n + m - 1 /\ n + m - 1 < m * (k + 1)
    BY <1>1
  <1>3. m * k = k * m /\ m * (k + 1) = k * m + m /\ (k - 1) * m = k * m - m
    BY ONLY <1>2, m \in Nat, k \in Nat
  <1>4. k * m \in Nat
    BY ONLY <1>2, m \in Nat, k \in Nat
  <1>5. k # 0
    BY <1>2, <1>3, <1>4
  <1> QED BY ONLY <1>2, <1>3, <1>4, <1>5, m \in Nat \ {0}, n \in Nat \ {0}

\* The position and the length of packet j of n bytes from position made.
LEMMA PacketPlaces ==
    ASSUME NEW m \in Nat \ {0}, NEW n \in Nat \ {0}, NEW k \in Nat \ {0},
           n <= k * m, (k - 1) * m < n, NEW j \in 1 .. k
    PROVE  /\ (j - 1) * m \in Nat /\ (j - 1) * m < n
           /\ j < k => Min({m, n - (j - 1) * m}) = m /\ j * m = (j - 1) * m + m
           /\ j = k => Min({m, n - (j - 1) * m}) = n - (j - 1) * m
           /\ Min({m, n - (j - 1) * m}) \in Nat
  <1>1. j - 1 \in Nat /\ k - 1 \in Nat /\ j - 1 <= k - 1
    OBVIOUS
  <1>2. PICK x : x = (j - 1) * m
    OBVIOUS
  <1>3. x \in Nat /\ x <= (k - 1) * m
    BY <1>1, <1>2, Products
  <1>4. x < n
    BY <1>1, <1>3, Products
  <1>5. Min({m, n - x}) = IF m <= n - x THEN m ELSE n - x
    BY <1>3, <1>4, OfTwo
  <1>6. j * m = x + m
    BY <1>1, <1>2
  <1>7. ASSUME j < k PROVE m <= n - x
    <2>1. j * m <= (k - 1) * m
      BY <1>7, <1>1, Products
    <2> QED BY <1>1, <1>3, <1>6, <2>1, Products
  <1>8. ASSUME j = k PROVE n - x <= m
    BY <1>3, <1>6, <1>8
  <1> QED BY <1>2, <1>3, <1>4, <1>5, <1>6, <1>7, <1>8

\* DataPackets has the bytes from position made on, without a gap.
LEMMA DataPacketsSpan ==
    ASSUME scenario \in Scenarios, made \in Nat, NEW n \in Nat \ {0},
           conn.receiveSeq = NumberOf(made), made + n < SeqSpace
    PROVE  /\ DataPackets(n) \in Seq(Packets) /\ DataPackets(n) # <<>>
           /\ Spans(DataPackets(n), made, made + n)
  <1> DEFINE m == PacketSize
             ps == DataPackets(n)
  <1>0. m \in Nat \ {0} /\ SeqSpace \in Nat
    BY Bounds
  <1> HIDE DEF m
  <1>1. PICK k : k = (n + m - 1) \div m
    OBVIOUS
  <1>2. k \in Nat \ {0} /\ n <= k * m /\ (k - 1) * m < n
    BY ONLY <1>0, <1>1, PacketCount, n \in Nat \ {0}
  <1>3. \A j \in 1 .. k :
           /\ (j - 1) * m \in Nat /\ (j - 1) * m < n
           /\ j < k => Min({m, n - (j - 1) * m}) = m /\ j * m = (j - 1) * m + m
           /\ j = k => Min({m, n - (j - 1) * m}) = n - (j - 1) * m
           /\ Min({m, n - (j - 1) * m}) \in Nat
    BY ONLY <1>0, <1>2, PacketPlaces, n \in Nat \ {0}
  <1>4. ps = [j \in 1 .. k |-> Packet("data", (conn.receiveSeq + (j - 1) * m) % SeqSpace,
                                     Min({m, n - (j - 1) * m}))]
    BY <1>1 DEF DataPackets, m
  <1>5. \A j \in 1 .. k : (conn.receiveSeq + (j - 1) * m) % SeqSpace
                             = NumberOf(made + (j - 1) * m)
    <2>1. TAKE j \in 1 .. k
    <2>2. PICK x \in Nat : x = (j - 1) * m /\ x < n
      BY <1>3
    <2>3. (NumberOf(made) + x) % SeqSpace = NumberOf(made + x)
      BY <1>0, <2>2, NumberNext
    <2> QED BY <2>2, <2>3
  <1>6. \A j \in 1 .. k : /\ ps[j].seq = NumberOf(made + (j - 1) * m)
                          /\ ps[j].len = Min({m, n - (j - 1) * m})
                          /\ ps[j] \in Packets
    <2>1. TAKE j \in 1 .. k
    <2>2. ps[j] = [kind |-> "data", seq |-> (conn.receiveSeq + (j - 1) * m) % SeqSpace,
                   len |-> Min({m, n - (j - 1) * m})]
      BY <1>4 DEF Packet
    <2>3. NumberOf(made + (j - 1) * m) \in Nat
      <3>1. PICK x \in Nat : x = (j - 1) * m /\ x < n
        BY <1>3
      <3>2. NumberOf(made + x) \in Nat
        BY ModNat
      <3> QED BY <3>1, <3>2
    <2> HIDE DEF ps
    <2> QED BY <1>3, <1>5, <2>2, <2>3 DEF Packets
  <1>7. DOMAIN ps = 1 .. k
    BY <1>4
  <1> HIDE DEF ps
  <1>8. ps \in Seq(Packets) /\ Len(ps) = k /\ ps # <<>>
    <2>1. ps \in [1 .. k -> Packets]
      BY <1>4, <1>6, <1>7
    <2> QED BY <1>2, <2>1
  <1>9. Spans(ps, made, made + n)
    <2> DEFINE f == [j \in 1 .. k + 1 |-> IF j = k + 1 THEN made + n ELSE made + (j - 1) * m]
    <2>1. f \in [1 .. k + 1 -> 0 .. made + n]
      <3>1. ASSUME NEW j \in 1 .. k + 1
            PROVE  f[j] \in 0 .. made + n
        <4>1. CASE j = k + 1
          BY <4>1
        <4>2. CASE j # k + 1
          <5>1. j \in 1 .. k
            BY <1>2, <4>2
          <5>2. PICK x \in Nat : x = (j - 1) * m /\ x < n
            BY <1>3, <5>1
          <5>3. f[j] = made + x
            BY <4>2, <5>2
          <5> QED BY <5>2, <5>3
        <4> QED BY <4>1, <4>2
      <3> QED BY <3>1
    <2>2. f[1] = made
      <3>1. (1 - 1) * m = 0
        BY <1>0
      <3> QED BY <1>2, <3>1
    <2>3. f[k + 1] = made + n
      BY <1>2
    <2>4. \A j \in 1 .. k : ps[j].seq = NumberOf(f[j]) /\ f[j + 1] = f[j] + ps[j].len
      <3>1. TAKE j \in 1 .. k
      <3>2. PICK x \in Nat : x = (j - 1) * m /\ x < n
        BY <1>3
      <3>3. f[j] = made + x
        BY <1>2, <3>2
      <3>4. ps[j].seq = NumberOf(f[j])
        <4>1. ps[j].seq = NumberOf(made + (j - 1) * m)
          BY <1>6
        <4>2. ps[j].seq = NumberOf(made + x)
          BY <3>2, <4>1
        <4> HIDE DEF f
        <4> QED BY <3>3, <4>2
      <3>5. CASE j = k
        <4>1. ps[j].len = n - x
          BY <1>3, <1>6, <3>2, <3>5
        <4> QED BY <1>2, <2>3, <3>3, <3>4, <3>5, <4>1
      <3>6. CASE j < k
        <4>1. ps[j].len = m
          BY <1>3, <1>6, <3>6
        <4>2. f[j + 1] = made + j * m
          BY <1>2, <3>6
        <4>3. j * m = x + m
          BY <1>3, <3>2, <3>6
        <4> QED BY <1>0, <3>3, <3>4, <4>1, <4>2, <4>3
      <3> QED BY <1>2, <3>5, <3>6
    <2> HIDE DEF f
    <2> QED BY <1>7, <1>8, <2>1, <2>2, <2>3, <2>4 DEF Spans
  <1> QED BY <1>8, <1>9 DEF ps

LEMMA ReadTypeStep ==
    ASSUME TypeOK, MadeInv, Next
    PROVE  ReadType'
  <1>0. /\ scenario \in Scenarios /\ remoteLeft \in Nat /\ readPackets \in Seq(Packets)
        /\ readsClosed \in BOOLEAN
        /\ reader \in ReaderType /\ forwarder \in {"none", "open", "done"}
        /\ acker \in {"none", "lock", "wait", "ack", "done"}
        /\ made \in Nat /\ offer \in [last : Nat, ever : Nat] /\ gap \in BOOLEAN
        /\ reader.n \in Nat /\ reader.packets \in Seq(Packets) /\ offer.ever \in Nat
        /\ conn.receiveSeq \in Nat
    BY DEF TypeOK, PeerType, ReadType, ReaderType, RunTypeOK, ConnType
  <1>a. WakeReader \in ReaderType /\ WakeAcker \in {"none", "lock", "wait", "ack", "done"}
    BY <1>0 DEF WakeReader, WakeAcker, ReaderType
  <1>1. CASE TakeSyn \/ TakeItem
    <2> DEFINE item == Head(sendItems)
    <2>1. item \in Segments
      BY <1>1, Taken DEF TakeSyn, TakeItem, TypeOK, PeerType
    <2>2. item.window \in Nat /\ item.ack \in Nat /\ item.ack + item.window \in Nat
      BY <2>1 DEF Segments
    <2>3. Max({offer.ever, item.ack + item.window}) \in Nat
      BY <1>0, <2>2, OfTwo
    <2> HIDE DEF item
    <2>4. offer' \in [last : Nat, ever : Nat] /\ made' \in Nat
      BY <1>0, <1>1, <2>2, <2>3 DEF TakeSyn, TakeItem, item
    <2>5. reader' \in ReaderType
      BY <1>0, <1>1, <1>a DEF TakeSyn, TakeItem, readerVars
    <2> QED BY <1>0, <1>1, <2>4, <2>5 DEF TakeSyn, TakeItem, readerVars, forwardVars, ReadType
  <1>2. CASE Dial
    BY <1>0, <1>2 DEF Dial, seenVars, ReadType, ReaderType
  <1>3. CASE TakeFin \/ AdvanceSendSeq \/ Broadcast
    BY <1>0, <1>3, <1>a DEF TakeFin, AdvanceSendSeq, Broadcast, readerVars, forwardVars, seenVars,
                             ReadType
  <1>4. CASE Read
    <2>1. /\ remoteLeft' \in Nat /\ reader' \in ReaderType
      <3>1. ASSUME NEW n \in 1 .. Min({MaxRead, remoteLeft})
            PROVE  n \in Nat /\ remoteLeft - n \in Nat
        <4>1. Min({MaxRead, remoteLeft}) \in Nat /\ Min({MaxRead, remoteLeft}) <= remoteLeft
          <5>1. MaxRead \in Nat
            BY <1>0, Bounds
          <5>2. remoteLeft \in Nat
            BY <1>0
          <5>3. Min({MaxRead, remoteLeft})
                   = IF MaxRead <= remoteLeft THEN MaxRead ELSE remoteLeft
            BY ONLY <5>1, <5>2, OfTwo
          <5> QED BY <5>1, <5>2, <5>3
        <4> QED BY <1>0, <4>1
      <3>2. CASE \E n \in 1 .. Min({MaxRead, remoteLeft}) :
                    /\ reader' = [reader EXCEPT !.pc = "lock", !.n = n]
                    /\ remoteLeft' = remoteLeft - n
        <4>1. PICK n \in 1 .. Min({MaxRead, remoteLeft}) :
                    /\ reader' = [reader EXCEPT !.pc = "lock", !.n = n]
                    /\ remoteLeft' = remoteLeft - n
          BY <3>2
        <4>2. n \in Nat /\ remoteLeft - n \in Nat
          BY <3>1
        <4> QED BY ONLY <1>0, <4>1, <4>2 DEF ReaderType
      <3>3. CASE /\ reader' = [reader EXCEPT !.pc = "eof"] \/ reader' = [reader EXCEPT !.pc = "end"]
                 /\ UNCHANGED remoteLeft
        BY <1>0, <3>3 DEF ReaderType
      <3> QED BY <1>4, <3>2, <3>3, Zenon DEF Read
    <2> QED BY <1>0, <1>4, <2>1 DEF Read, forwardVars, seenVars, ReadType
  <1>5. CASE ReaderLocks
    <2>1. reader' \in ReaderType
      <3>1. CASE ctxDone
        <4>1. reader' = [reader EXCEPT !.pc = "end", !.n = 0]
          BY <1>5, <3>1 DEF ReaderLocks
        <4> QED BY <1>0, <4>1 DEF ReaderType
      <3>3. CASE ~ctxDone /\ WindowFull(reader.n)
        <4>1. reader' = [reader EXCEPT !.pc = "wait"]
          BY <1>5, <3>3 DEF ReaderLocks
        <4> QED BY <1>0, <4>1 DEF ReaderType
      <3>2. CASE ~ctxDone /\ ~WindowFull(reader.n)
        <4>1. DataPackets(reader.n) \in Seq(Packets)
          <5>1. reader.pc = "lock"
            BY <1>5 DEF ReaderLocks
          <5>2. /\ made > 0 /\ conn.receiveSeq = NumberOf(made) /\ reader.n > 0
                /\ made + reader.n + remoteLeft = scenario.remoteBytes + 1
            BY <1>0, <5>1 DEF MadeInv
          <5>3. made + reader.n < SeqSpace
            <6>1. /\ SeqSpace \in Nat /\ scenario.remoteBytes \in Nat
                  /\ scenario.remoteBytes + 2 < SeqSpace
              BY <1>0, Bounds
            <6> QED BY <1>0, <5>2, <6>1
          <5> QED BY <1>0, <5>2, <5>3, DataPacketsSpan
        <4>2. PICK s \in Seq(Packets) : s = DataPackets(reader.n)
          BY <4>1
        <4>3. reader' = [reader EXCEPT !.pc = "queue", !.n = 0, !.packets = s]
          BY <1>5, <3>2, <4>2 DEF ReaderLocks
        <4> QED BY ONLY <1>0, <4>3 DEF ReaderType
      <3> QED BY <3>1, <3>2, <3>3
    <2>2. made' \in Nat
      BY <1>0, <1>5 DEF ReaderLocks
    <2> QED BY <1>0, <1>5, <2>1, <2>2 DEF ReaderLocks, forwardVars, ReadType
  <1>6. CASE ReaderQueues
    <2>1. reader.packets # <<>>
      BY <1>6 DEF ReaderQueues, MadeInv
    <2>2. PICK s \in Seq(Packets) : s = Tail(reader.packets) /\ Head(reader.packets) \in Packets
      BY <1>0, <2>1, Taken
    <2>3. reader' = [reader EXCEPT !.packets = s,
                                   !.pc = IF Len(reader.packets) = 1 THEN "read" ELSE "queue"]
      BY <1>6, <2>2 DEF ReaderQueues
    <2>4. reader' \in ReaderType
      BY ONLY <1>0, <2>3, s \in Seq(Packets) DEF ReaderType
    <2>5. readPackets' \in Seq(Packets)
      BY <1>0, <1>6, <2>2, Added DEF ReaderQueues
    <2> QED BY <1>0, <1>6, <2>4, <2>5 DEF ReaderQueues, seenVars, ReadType
  <1>7. CASE ReaderMakesFin
    <2>1. <<Packet("fin", conn.receiveSeq, 1)>> \in Seq(Packets)
      BY <1>0 DEF Packet, Packets
    <2>2. PICK s \in Seq(Packets) : s = <<Packet("fin", conn.receiveSeq, 1)>>
      BY <2>1
    <2>3. reader' = [reader EXCEPT !.pc = "fin", !.packets = s]
      BY <1>7, <2>2 DEF ReaderMakesFin
    <2>4. reader' \in ReaderType
      BY ONLY <1>0, <2>3, s \in Seq(Packets) DEF ReaderType
    <2> QED BY <1>0, <1>7, <2>4 DEF ReaderMakesFin, forwardVars, ReadType
  <1>8. CASE ReaderQueuesFin
    <2>1. /\ \/ reader' = [reader EXCEPT !.pc = "end", !.packets = <<>>, !.fin = TRUE]
             \/ reader' = [reader EXCEPT !.pc = "end", !.packets = <<>>]
          /\ readPackets' = readPackets \o reader.packets \/ readPackets' = readPackets
      BY <1>8 DEF ReaderQueuesFin
    <2>2. reader' \in ReaderType
      <3>0. <<>> \in Seq(Packets)
        OBVIOUS
      <3>1. PICK s \in Seq(Packets) : s = <<>>
        BY <3>0, Zenon
      <3>2. \/ reader' = [reader EXCEPT !.pc = "end", !.packets = s, !.fin = TRUE]
            \/ reader' = [reader EXCEPT !.pc = "end", !.packets = s]
        BY <2>1, <3>1
      <3> QED BY ONLY <1>0, <3>2, s \in Seq(Packets) DEF ReaderType
    <2>3. readPackets' \in Seq(Packets)
      <3>1. PICK s \in Seq(Packets) : s = reader.packets
        BY <1>0
      <3>2. readPackets \o s \in Seq(Packets)
        BY <1>0
      <3> QED BY <1>0, <2>1, <3>1, <3>2
    <2> QED BY <1>0, <1>8, <2>2, <2>3 DEF ReaderQueuesFin, seenVars, ReadType
  <1>9. CASE ReaderQueuesRst
    <2>1. Packet("rst", conn.receiveSeq, 0) \in Packets
      BY <1>0 DEF Packet, Packets
    <2>2. readPackets' \in Seq(Packets)
      BY <1>0, <1>9, <2>1, Added DEF ReaderQueuesRst
    <2> QED BY <1>0, <1>9, <2>2 DEF ReaderQueuesRst, seenVars, ReadType, ReaderType
  <1>10. CASE ReaderEnds \/ ReaderCloses
    BY <1>0, <1>10 DEF ReaderEnds, ReaderCloses, forwardVars, seenVars, ReadType, ReaderType
  <1>11. CASE Forward
    <2>1. readPackets' \in Seq(Packets)
      BY <1>0, <1>11, Taken DEF Forward
    <2> QED BY <1>0, <1>11, <2>1 DEF Forward, readerVars, ReadType
  <1>12. CASE ForwarderEnds \/ AckerLocks \/ AckerAcks
    BY <1>0, <1>12 DEF ForwarderEnds, AckerLocks, AckerAcks, readerVars, forwardVars, seenVars,
                       ReadType
  <1>13. CASE PeerSyn \/ PeerSegment
    <2>1. ASSUME NEW x, SendItem(x)
          PROVE  UNCHANGED <<readerVars, forwardVars, acker, seenVars>>
      BY <2>1 DEF SendItem
    <2>2. UNCHANGED <<readerVars, forwardVars, acker, seenVars>>
      <3>1. CASE PeerSyn
        BY <2>1, <3>1, Zenon DEF PeerSyn
      <3>2. CASE PeerSegment
        BY <2>1, <3>2, Zenon DEF PeerSegment
      <3> QED BY <1>13, <3>1, <3>2
    <2> QED BY <1>0, <2>2 DEF readerVars, forwardVars, seenVars, ReadType
  <1>14. CASE Cancel \/ RunStops \/ RunIdles \/ PushPayload \/ CloseWrites \/ CloseSocket
                \/ RunEnds \/ WriterTakes \/ Write \/ WriterEnds
    BY <1>0, <1>14 DEF Cancel, RunStops, RunIdles, PushPayload, CloseWrites, CloseSocket,
                       RunEnds, WriterTakes, Write, WriterEnds, readerVars, forwardVars, seenVars,
                       ReadType
  <1> QED BY <1>1, <1>2, <1>3, <1>4, <1>5, <1>6, <1>7, <1>8, <1>9, <1>10, <1>11, <1>12, <1>13,
             <1>14 DEF Next

LEMMA TypeStep ==
    ASSUME IInv, Next
    PROVE  TypeOK'
  BY PeerTypeStep, RunTypeStep, WriterTypeStep, ReadTypeStep DEF IInv, TypeOK

\* The types of the fields.
LEMMA Fields ==
    ASSUME TypeOK
    PROVE  /\ scenario \in Scenarios
           /\ peer.next \in Nat /\ peer.got \in Nat
           /\ run.item \in Segments /\ run.item.len \in Nat /\ run.item.from \in Nat
           /\ conn.sendSeq \in Nat /\ conn.receiveSeq \in Nat /\ conn.receiveSeqAck \in Nat
           /\ conn.receiveWindowSize \in Nat /\ conn.ackedSendSeq \in Nat
           /\ writer.left \in Seq(Nat) /\ written \in Seq(Nat)
           /\ remoteLeft \in Nat /\ reader.n \in Nat /\ reader.packets \in Seq(Packets)
           /\ made \in Nat /\ offer.last \in Nat /\ offer.ever \in Nat
    BY DEF TypeOK, PeerType, RunTypeOK, WriterTypeOK, ReadType, ConnType, RunType, ReaderType,
           WriterType, Segments

-----------------------------------------------------------------------------
(* The segments of the peer.                                               *)

\* What a step of the peer does.
LEMMA PeerSends ==
    ASSUME TypeOK, PeerSyn \/ PeerSegment
    PROVE  /\ \E x \in Segments :
                 /\ sendItems' = Append(sendItems, x)
                 /\ x.ack = peer.got
                 /\ x.from <= peer.next \/ x.from = 0
                 /\ x.len > 0 => x.from + x.len <= scenario.peerBytes + 1
                 /\ x.fin => x.from + x.len = scenario.peerBytes + 1
                 /\ peer' = [peer EXCEPT !.next =
                               Max({peer.next, x.from + x.len
                                               + (IF x.syn \/ x.fin THEN 1 ELSE 0)})]
                 /\ x.syn => x.from = 0 /\ x.len = 0
           /\ ~ctxDone
           /\ UNCHANGED <<scenario, ctxDone, idleClosed, conn, run, socket>>
           /\ UNCHANGED <<writePayloads, writesClosed, writer, written>>
           /\ UNCHANGED <<remoteLeft, reader, readPackets, readsClosed, forwarder>>
           /\ UNCHANGED <<acker, made, offer, gap>>
  <1> DEFINE Sends(x) ==
          /\ x.ack = peer.got
          /\ x.from <= peer.next \/ x.from = 0
          /\ x.len > 0 => x.from + x.len <= scenario.peerBytes + 1
          /\ x.fin => x.from + x.len = scenario.peerBytes + 1
          /\ x.syn => x.from = 0 /\ x.len = 0
  <1>1. PICK x \in Segments : SendItem(x) /\ Sends(x)
    <2>1. CASE PeerSyn
      <3>1. PICK syn \in BOOLEAN, w \in scenario.windows :
               SendItem([NoSegment EXCEPT !.syn = syn, !.window = w])
        BY <2>1 DEF PeerSyn
      <3>2. PICK x : x = [NoSegment EXCEPT !.syn = syn, !.window = w]
        OBVIOUS
      <3>3. x \in Segments
        BY <3>2, Bounds DEF NoSegment, Segments, TypeOK, PeerType
      <3>4. peer.got = 0
        BY <2>1 DEF PeerSyn
      <3>5. Sends(x)
        BY <3>2, <3>4 DEF NoSegment
      <3>6. SendItem(x)
        BY <3>1, <3>2, Zenon
      <3> HIDE DEF Sends
      <3> QED BY <3>3, <3>5, <3>6, Zenon
    <2>2. CASE PeerSegment
      <3>1. PICK from \in 1 .. peer.next, len \in 0 .. MaxRead, fin \in BOOLEAN,
                 w \in scenario.windows :
               /\ len > 0 => from + len <= scenario.peerBytes + 1
               /\ fin => from + len = scenario.peerBytes + 1
               /\ SendItem([syn |-> FALSE, from |-> from, len |-> len, fin |-> fin,
                            ack |-> peer.got, window |-> w])
        BY <2>2 DEF PeerSegment
      <3>2. PICK x : x = [syn |-> FALSE, from |-> from, len |-> len, fin |-> fin,
                          ack |-> peer.got, window |-> w]
        OBVIOUS
      <3>3. x \in Segments
        BY <3>2, Bounds DEF Segments, TypeOK, PeerType
      <3>4. peer.next \in Nat
        BY Fields
      <3>5. Sends(x)
        BY <3>1, <3>2, <3>4
      <3>6. SendItem(x)
        BY <3>1, <3>2, Zenon
      <3> HIDE DEF Sends
      <3> QED BY <3>3, <3>5, <3>6, Zenon
    <2> QED BY <2>1, <2>2
  <1>2. /\ sendItems' = Append(sendItems, x)
        /\ peer' = [peer EXCEPT !.next =
                      Max({peer.next, x.from + x.len
                                      + (IF x.syn \/ x.fin THEN 1 ELSE 0)})]
    BY <1>1 DEF SendItem
  <1>3. /\ ~ctxDone
        /\ UNCHANGED <<scenario, ctxDone, idleClosed, conn, run, socket>>
        /\ UNCHANGED <<writePayloads, writesClosed, writer, written>>
        /\ UNCHANGED <<remoteLeft, reader, readPackets, readsClosed, forwarder>>
        /\ UNCHANGED <<acker, made, offer, gap>>
    BY <1>1 DEF SendItem, writerVars, readerVars, forwardVars, seenVars
  <1> QED BY <1>1, <1>2, <1>3, Zenon

LEMMA SegmentStep ==
    ASSUME IInv, Next
    PROVE  SegmentInv'
  <1>0. TypeOK /\ SegmentInv /\ scenario' = scenario /\ scenario.peerBytes \in Nat
    BY SameScenario, Fields, Bounds DEF IInv
  <1>a. sendItems \in Seq(Segments) /\ peer.next \in Nat
    BY <1>0, Fields DEF TypeOK, PeerType
  <1>1. CASE PeerSyn \/ PeerSegment
    <2>1. PICK x \in Segments :
             /\ sendItems' = Append(sendItems, x)
             /\ x.from <= peer.next \/ x.from = 0
             /\ x.len > 0 => x.from + x.len <= scenario.peerBytes + 1
             /\ x.fin => x.from + x.len = scenario.peerBytes + 1
             /\ peer' = [peer EXCEPT !.next =
                           Max({peer.next, x.from + x.len
                                           + (IF x.syn \/ x.fin THEN 1 ELSE 0)})]
             /\ x.syn => x.from = 0 /\ x.len = 0
      BY <1>0, <1>1, PeerSends
    <2>2. x.from \in Nat /\ x.len \in Nat
      BY DEF Segments
    <2>3. PICK z : z = x.from + x.len + (IF x.syn \/ x.fin THEN 1 ELSE 0)
      OBVIOUS
    <2>4. z \in Nat /\ z <= scenario.peerBytes + 2
      <3>0. x.from + x.len <= scenario.peerBytes + 2
        BY <1>0, <1>a, <2>1, <2>2 DEF SegmentInv
      <3>1. CASE x.syn
        <4>1. z = 1
          BY <2>1, <2>2, <2>3, <3>1
        <4> QED BY <1>0, <4>1
      <3>2. CASE ~x.syn /\ x.fin
        <4>1. z = x.from + x.len + 1
          BY <2>3, <3>2
        <4> QED BY <1>0, <2>1, <2>2, <3>2, <4>1
      <3>3. CASE ~x.syn /\ ~x.fin
        <4>1. z = x.from + x.len
          BY <2>2, <2>3, <3>3
        <4> QED BY <2>2, <3>0, <4>1
      <3> QED BY <3>1, <3>2, <3>3
    <2>5. Max({peer.next, z}) <= scenario.peerBytes + 2
      <3>1. Max({peer.next, z}) = IF peer.next >= z THEN peer.next ELSE z
        BY ONLY <1>a, <2>4, OfTwo
      <3> QED BY <1>0, <1>a, <2>4, <3>1 DEF SegmentInv
    <2>6. peer'.next <= scenario.peerBytes + 2
      BY <1>0, <2>1, <2>3, <2>5 DEF TypeOK, PeerType
    <2>7. SegmentOK(x)
      BY <1>0, <1>a, <2>1, <2>2 DEF SegmentInv, SegmentOK
    <2>8. \A i \in DOMAIN sendItems' : SegmentOK(sendItems'[i])
      BY <1>0, <1>a, <2>1, <2>7, Added DEF SegmentInv
    <2> QED BY <1>0, <2>6, <2>8 DEF SegmentInv, SegmentOK
  <1>2. CASE TakeSyn \/ TakeItem
    <2>1. sendItems # <<>> /\ sendItems' = Tail(sendItems) /\ peer' = peer
      BY <1>2 DEF TakeSyn, TakeItem
    <2>2. \A i \in DOMAIN sendItems' : SegmentOK(sendItems'[i])
      BY <1>0, <1>a, <2>1, Taken DEF SegmentInv
    <2> QED BY <1>0, <2>1, <2>2 DEF SegmentInv, SegmentOK
  <1>3. CASE RunEnds
    BY <1>0, <1>3 DEF RunEnds, SegmentInv
  <1>4. CASE Dial \/ Forward
    <2>1. sendItems' = sendItems /\ peer'.next = peer.next
      BY <1>0, <1>4 DEF Dial, Forward, TypeOK, PeerType
    <2> QED BY <1>0, <2>1 DEF SegmentInv, SegmentOK
  <1>5. CASE Cancel \/ RunStops \/ RunIdles \/ TakeFin \/ PushPayload \/ AdvanceSendSeq
               \/ CloseWrites \/ Broadcast \/ CloseSocket \/ WriterTakes \/ Write \/ WriterEnds
    <2>1. sendItems' = sendItems /\ peer' = peer
      BY <1>5 DEF Cancel, RunStops, RunIdles, TakeFin, PushPayload, AdvanceSendSeq, CloseWrites,
                  Broadcast, CloseSocket, WriterTakes, Write, WriterEnds, peerVars
    <2> QED BY <1>0, <2>1 DEF SegmentInv, SegmentOK
  <1>6. CASE Read \/ ReaderLocks \/ ReaderQueues \/ ReaderMakesFin \/ ReaderQueuesFin
               \/ ReaderEnds \/ ReaderQueuesRst \/ ReaderCloses \/ ForwarderEnds \/ AckerLocks
               \/ AckerAcks
    <2>1. sendItems' = sendItems /\ peer' = peer
      BY <1>6 DEF Read, ReaderLocks, ReaderQueues, ReaderMakesFin, ReaderQueuesFin, ReaderEnds,
                  ReaderQueuesRst, ReaderCloses, ForwarderEnds, AckerLocks, AckerAcks, peerVars
    <2> QED BY <1>0, <2>1 DEF SegmentInv, SegmentOK
  <1> QED BY <1>1, <1>2, <1>3, <1>4, <1>5, <1>6 DEF Next

-----------------------------------------------------------------------------
(* Before the socket is connected.                                         *)

LEMMA StartStep ==
    ASSUME IInv, Next
    PROVE  StartInv'
  <1>0. TypeOK /\ StartInv /\ MadeInv
    BY DEF IInv
  <1>a. /\ run \in RunType /\ writer \in WriterType /\ reader \in ReaderType
        /\ peer \in [next : Nat, got : Nat]
    BY <1>0 DEF TypeOK, PeerType, RunTypeOK, WriterTypeOK, ReadType
  <1>1. CASE PeerSyn \/ PeerSegment
    <2>1. /\ UNCHANGED <<run, writer, reader, acker, forwarder, made, writePayloads, written,
                         readPackets>>
          /\ peer'.got = peer.got
      BY <1>0, <1>1, <1>a, PeerSends
    <2> QED BY <1>0, <2>1 DEF StartInv
  <1>2. CASE TakeSyn
    BY <1>0, <1>2, <1>a DEF TakeSyn, writerVars, readerVars, forwardVars, StartInv, RunType
  <1>3. CASE Dial
    BY <1>0, <1>3, <1>a DEF Dial, seenVars, StartInv, RunType, WriterType, ReaderType
  <1>4. CASE RunStops \/ RunIdles
    BY <1>0, <1>4, <1>a DEF RunStops, RunIdles, peerVars, writerVars, readerVars, forwardVars,
                            seenVars, StartInv, RunType
  <1>5. CASE TakeItem
    <2>1. /\ UNCHANGED <<peer, writer, acker, forwarder, made, writePayloads, written,
                         readPackets>>
          /\ reader' = WakeReader \/ reader' = reader
          /\ run.pc = "open"
          /\ run' = run \/ run'.pc \in {"fin", "push", "close", "open"}
      BY <1>5, <1>a DEF TakeItem, writerVars, forwardVars, RunType, AfterAck, AfterFin
    <2> QED BY <1>0, <1>a, <2>1 DEF StartInv, WakeReader, ReaderType
  <1>6. CASE TakeFin \/ AdvanceSendSeq
    <2>1. /\ UNCHANGED <<peer, writer, reader, forwarder, made, writePayloads, written,
                         readPackets>>
          /\ run.pc \in {"fin", "seq"} /\ run'.pc \in {"push", "close", "open"}
      BY <1>6, <1>a DEF TakeFin, AdvanceSendSeq, peerVars, writerVars, readerVars, forwardVars,
                        seenVars, RunType, AfterAck, AfterFin
    <2> QED BY <1>0, <2>1 DEF StartInv
  <1>7. CASE PushPayload \/ CloseWrites \/ CloseSocket \/ RunEnds
    BY <1>0, <1>7, <1>a DEF PushPayload, CloseWrites, CloseSocket, RunEnds, peerVars, writerVars,
                            readerVars, forwardVars, seenVars, StartInv, RunType
  <1>8. CASE Broadcast
    <2>1. /\ UNCHANGED <<peer, writer, forwarder, made, writePayloads, written, readPackets>>
          /\ reader' = WakeReader /\ run'.pc = "socket"
      BY <1>8, <1>a DEF Broadcast, peerVars, writerVars, forwardVars, seenVars, RunType
    <2> QED BY <1>0, <1>a, <2>1 DEF StartInv, WakeReader, ReaderType
  <1>9. CASE WriterTakes \/ Write \/ WriterEnds
    <2>1. /\ UNCHANGED <<peer, run, reader, acker, forwarder, made, readPackets>>
          /\ writer.pc # "none" /\ writer'.pc # "none"
          /\ writer'.pc # "write" => writer'.left = <<>>
      <3>1. CASE WriterTakes
        BY <3>1 DEF WriterTakes, peerVars, readerVars, forwardVars, seenVars
      <3>2. CASE Write
        <4>1. writer.pc = "write" /\ UNCHANGED <<peer, run, reader, acker, forwarder, made, readPackets>>
          BY <3>2 DEF Write, peerVars, readerVars, forwardVars, seenVars
        <4>2. writer' = [pc |-> "take", left |-> <<>>] \/ writer'.pc = writer.pc
          BY <1>a, <3>2 DEF Write, WriterType
        <4> QED BY <4>1, <4>2
      <3>3. CASE WriterEnds
        BY <3>3 DEF WriterEnds, peerVars, readerVars, forwardVars, seenVars
      <3> QED BY <1>9, <3>1, <3>2, <3>3
    <2> QED BY <1>0, <2>1 DEF StartInv
  <1>10. CASE Read \/ ReaderLocks \/ ReaderQueues \/ ReaderMakesFin
    <2>1. /\ UNCHANGED <<peer, run, writer, acker, forwarder, writePayloads, written>>
          /\ reader.pc # "none"
      BY <1>10 DEF Read, ReaderLocks, ReaderQueues, ReaderMakesFin, peerVars, writerVars,
                   forwardVars, seenVars
    <2> QED BY <1>0, <2>1 DEF StartInv
  <1>11. CASE ReaderQueuesFin \/ ReaderEnds \/ ReaderQueuesRst \/ ReaderCloses
    <2>1. /\ UNCHANGED <<peer, run, writer, acker, forwarder, writePayloads, written>>
          /\ reader.pc # "none"
      BY <1>11 DEF ReaderQueuesFin, ReaderEnds, ReaderQueuesRst, ReaderCloses, peerVars,
                   writerVars, forwardVars, seenVars
    <2> QED BY <1>0, <2>1 DEF StartInv
  <1>12. CASE Forward \/ ForwarderEnds
    <2>1. /\ UNCHANGED <<run, writer, acker, reader, made, writePayloads, written>>
          /\ forwarder = "open" /\ forwarder' # "none"
      BY <1>12 DEF Forward, ForwarderEnds, peerVars, writerVars, readerVars, seenVars
    <2> QED BY <1>0, <2>1 DEF StartInv
  <1>13. CASE AckerLocks \/ AckerAcks
    <2>1. /\ UNCHANGED <<peer, run, writer, reader, forwarder, made, writePayloads, written,
                         readPackets>>
          /\ acker # "none"
      BY <1>13 DEF AckerLocks, AckerAcks, peerVars, writerVars, readerVars, forwardVars, seenVars
    <2> QED BY <1>0, <2>1 DEF StartInv
  <1>14. CASE Cancel
    BY <1>0, <1>14 DEF Cancel, peerVars, writerVars, readerVars, forwardVars, seenVars, StartInv
  <1> QED BY <1>1, <1>2, <1>3, <1>4, <1>5, <1>6, <1>7, <1>8, <1>9, <1>10, <1>11, <1>12, <1>13,
             <1>14 DEF Next

-----------------------------------------------------------------------------
(* From the peer to the remote.                                            *)

\* Where the payloads of the writer end.
LEMMA Ends ==
    ASSUME TypeOK, Continues
    PROVE  /\ \A k \in 0 .. Len(writePayloads) : EndOf(k) \in Nat
           /\ \A k \in DOMAIN writePayloads :
                 /\ writePayloads[k] \in Seq(Nat) /\ Len(writePayloads[k]) \in Nat \ {0}
                 /\ k - 1 \in 0 .. Len(writePayloads)
                 /\ EndOf(k) = EndOf(k - 1) + Len(writePayloads[k])
           /\ Len(writePayloads) \in Nat /\ DOMAIN writePayloads = 1 .. Len(writePayloads)
           /\ Len(written) \in Nat /\ Len(writer.left) \in Nat
  <1>0. /\ writePayloads \in Seq(Seq(Nat)) /\ writer.left \in Seq(Nat) /\ written \in Seq(Nat)
    BY Fields DEF TypeOK, WriterTypeOK
  <1>1. /\ Len(writePayloads) \in Nat /\ DOMAIN writePayloads = 1 .. Len(writePayloads)
        /\ Len(written) \in Nat /\ Len(writer.left) \in Nat
    BY <1>0
  <1>2. \A k \in DOMAIN writePayloads :
           /\ writePayloads[k] \in Seq(Nat) /\ Len(writePayloads[k]) \in Nat \ {0}
           /\ k - 1 \in 0 .. Len(writePayloads)
    BY <1>0, <1>1 DEF Continues
  <1>3. \A k \in 0 .. Len(writePayloads) : EndOf(k) \in Nat
    <2>1. TAKE k \in 0 .. Len(writePayloads)
    <2>2. CASE k = 0
      BY <1>1, <2>2 DEF EndOf
    <2>3. CASE k # 0
      <3>1. k \in DOMAIN writePayloads
        BY <1>1, <2>3
      <3>2. writePayloads[k][Len(writePayloads[k])] \in Nat
        BY <1>2, <3>1
      <3> QED BY <2>3, <3>2 DEF EndOf
    <2> QED BY <2>2, <2>3
  <1>4. \A k \in DOMAIN writePayloads : EndOf(k) = EndOf(k - 1) + Len(writePayloads[k])
    <2>1. TAKE k \in DOMAIN writePayloads
    <2>2. Len(writePayloads[k]) \in DOMAIN writePayloads[k]
      BY <1>2
    <2>3. writePayloads[k][Len(writePayloads[k])] = EndOf(k - 1) + Len(writePayloads[k])
      BY <2>2 DEF Continues, IsFrom
    <2>4. k # 0
      BY <1>1
    <2> QED BY <2>3, <2>4 DEF EndOf
  <1> QED BY <1>1, <1>2, <1>3, <1>4

LEMMA SameChain ==
    ASSUME UNCHANGED <<written, writePayloads>>, writer'.left = writer.left
    PROVE  /\ Continues' <=> Continues
           /\ EndOf(Len(writePayloads))' = EndOf(Len(writePayloads))
           /\ IsStream(written)' <=> IsStream(written)
  <1>1. \A k : EndOf(k)' = EndOf(k)
    BY DEF EndOf
  <1>2. /\ written' = written /\ writePayloads' = writePayloads
    OBVIOUS
  <1> QED BY <1>1, <1>2 DEF Continues, IsFrom, IsStream, EndOf

\* Steps that leave Run, what it has for the writer, and sendSeq alone.
LEMMA CarryKept ==
    ASSUME CarryInv, scenario' = scenario, UNCHANGED <<written, writePayloads, writer>>,
           run'.pc = run.pc, run'.item = run.item, conn'.sendSeq = conn.sendSeq
    PROVE  CarryInv'
  <1>1. /\ Continues' <=> Continues
        /\ EndOf(Len(writePayloads))' = EndOf(Len(writePayloads))
        /\ IsStream(written)' <=> IsStream(written)
    BY SameChain
  <1>2. ASSUME NEW e, RunAt(e)
        PROVE  RunAt(e)'
    BY <1>2, SameNumbers DEF RunAt
  <1>3. PICK e : e = EndOf(Len(writePayloads))
    OBVIOUS
  <1>4. RunAt(EndOf(Len(writePayloads)))' <=> RunAt(e)'
    BY <1>1, <1>3 DEF RunAt
  <1> QED BY <1>1, <1>2, <1>3, <1>4 DEF CarryInv

\* Steps of Run, with e where the payloads end.
LEMMA CarryRun ==
    ASSUME CarryInv, UNCHANGED <<written, writePayloads>>,
           writer'.left = writer.left, writer'.pc # "end" => writer.pc # "end",
           NEW e, e = EndOf(Len(writePayloads)),
           writer.pc # "end" => RunAt(e)'
    PROVE  CarryInv'
  <1>1. /\ Continues' <=> Continues
        /\ EndOf(Len(writePayloads))' = EndOf(Len(writePayloads))
        /\ IsStream(written)' <=> IsStream(written)
    BY SameChain
  <1>2. RunAt(EndOf(Len(writePayloads)))' <=> RunAt(e)'
    BY <1>1 DEF RunAt
  <1> QED BY <1>1, <1>2 DEF CarryInv

\* A new payload, the byte after the others first.
LEMMA CarryPush ==
    ASSUME TypeOK, Continues, NEW s \in Seq(Nat), s # <<>>,
           IsFrom(s, EndOf(Len(writePayloads))),
           writePayloads' = Append(writePayloads, s), UNCHANGED <<written, writer>>
    PROVE  /\ Continues'
           /\ EndOf(Len(writePayloads))' = EndOf(Len(writePayloads)) + Len(s)
  <1> DEFINE w == writePayloads
             n == Len(writePayloads)
  <1>0. w \in Seq(Seq(Nat))
    BY DEF TypeOK, WriterTypeOK
  <1>1. /\ w' = Append(w, s) /\ Len(w') = n + 1 /\ n \in Nat
        /\ DOMAIN w = 1 .. n /\ DOMAIN w' = 1 .. n + 1
        /\ \A k \in 1 .. n : w'[k] = w[k]
        /\ w'[n + 1] = s
    BY <1>0
  <1>2. \A k \in 0 .. n : EndOf(k)' = EndOf(k)
    BY <1>1 DEF EndOf
  <1>3. EndOf(n) \in Nat /\ Len(s) \in Nat \ {0}
    BY <1>1, Ends
  <1>4. s[Len(s)] = EndOf(n) + Len(s)
    BY <1>3 DEF IsFrom
  <1>5. EndOf(Len(w))' = EndOf(n) + Len(s)
    <2>1. EndOf(Len(w))' = w'[n + 1][Len(w'[n + 1])]
      BY <1>1 DEF EndOf
    <2> QED BY <1>1, <1>4, <2>1
  <1>6. \A k \in DOMAIN w' : w'[k] # <<>> /\ IsFrom(w'[k], EndOf(k - 1)')
    <2>1. TAKE k \in DOMAIN w'
    <2>2. k - 1 \in 0 .. n
      BY <1>1
    <2>3. EndOf(k - 1)' = EndOf(k - 1)
      BY <1>2, <2>2
    <2>4. CASE k = n + 1
      <3>1. k - 1 = n
        BY <1>1, <2>4
      <3>2. IsFrom(s, EndOf(k - 1))
        BY <3>1
      <3> QED BY <1>1, <2>3, <2>4, <3>2
    <2>5. CASE k # n + 1
      <3>1. k \in DOMAIN w /\ w'[k] = w[k]
        BY <1>1, <2>5
      <3>2. w[k] # <<>> /\ IsFrom(w[k], EndOf(k - 1))
        BY <3>1 DEF Continues
      <3> QED BY <2>3, <3>1, <3>2
    <2> QED BY <2>4, <2>5
  <1>7. Continues'
    BY <1>6 DEF Continues, IsFrom
  <1> QED BY <1>5, <1>7

\* The writer takes the first payload.
LEMMA CarryTake ==
    ASSUME TypeOK, Continues, writer.left = <<>>, writePayloads # <<>>,
           writer'.left = Head(writePayloads), writePayloads' = Tail(writePayloads),
           written' = written
    PROVE  /\ Continues'
           /\ EndOf(Len(writePayloads))' = EndOf(Len(writePayloads))
  <1> DEFINE w == writePayloads
             n == Len(writePayloads)
  <1>0. w \in Seq(Seq(Nat))
    BY DEF TypeOK, WriterTypeOK
  <1>1. /\ n \in Nat \ {0} /\ Len(w') = n - 1
        /\ DOMAIN w = 1 .. n /\ DOMAIN w' = 1 .. n - 1
        /\ \A k \in 1 .. n - 1 : w'[k] = w[k + 1]
        /\ writer'.left = w[1]
    BY <1>0
  <1>2. EndOf(0) = Len(written) /\ Len(written) \in Nat
    BY Ends DEF EndOf
  <1>3. \A k \in 0 .. n - 1 : EndOf(k)' = EndOf(k + 1)
    <2>1. TAKE k \in 0 .. n - 1
    <2>2. CASE k = 0
      <3>1. 1 \in DOMAIN w
        BY <1>1
      <3>2. EndOf(1) = EndOf(1 - 1) + Len(w[1])
        BY <3>1, Ends
      <3>3. EndOf(0)' = Len(written) + Len(w[1])
        BY <1>1 DEF EndOf
      <3> QED BY <1>2, <2>2, <3>2, <3>3
    <2>3. CASE k # 0
      <3>1. k \in 1 .. n - 1 /\ k + 1 # 0
        BY <1>1, <2>3
      <3>2. w'[k] = w[k + 1]
        BY <1>1, <3>1
      <3>3. EndOf(k)' = w'[k][Len(w'[k])]
        BY <2>3 DEF EndOf
      <3>4. EndOf(k + 1) = w[k + 1][Len(w[k + 1])]
        BY <3>1 DEF EndOf
      <3> QED BY <3>2, <3>3, <3>4
    <2> QED BY <2>2, <2>3
  <1>4. EndOf(Len(w))' = EndOf(n)
    <2>1. PICK k : k = n - 1
      OBVIOUS
    <2>2. k \in 0 .. n - 1 /\ k + 1 = n /\ Len(w') = k
      BY <1>1, <2>1
    <2>3. EndOf(k)' = EndOf(k + 1)
      BY <1>3, <2>2
    <2>4. EndOf(Len(w))' = EndOf(k)'
      BY <2>2 DEF EndOf
    <2> QED BY <2>2, <2>3, <2>4
  <1>5. IsFrom(writer'.left, Len(written'))
    <2>1. 1 \in DOMAIN w
      BY <1>1
    <2>2. IsFrom(w[1], EndOf(1 - 1))
      BY <2>1 DEF Continues
    <2> QED BY <1>1, <1>2, <2>2
  <1>6. \A k \in DOMAIN w' : w'[k] # <<>> /\ IsFrom(w'[k], EndOf(k - 1)')
    <2>1. TAKE k \in DOMAIN w'
    <2>2. k - 1 \in 0 .. n - 1 /\ k + 1 \in DOMAIN w /\ w'[k] = w[k + 1] /\ k - 1 + 1 = k
          /\ k + 1 - 1 = k
      BY <1>1
    <2>3. EndOf(k - 1)' = EndOf(k)
      BY <1>3, <2>2
    <2>4. w[k + 1] # <<>> /\ IsFrom(w[k + 1], EndOf(k + 1 - 1))
      BY <2>2 DEF Continues
    <2> QED BY <2>2, <2>3, <2>4
  <1>7. Continues'
    BY <1>5, <1>6 DEF Continues, IsFrom
  <1> QED BY <1>4, <1>7

\* The socket takes n bytes of the payload.
LEMMA CarryWrite ==
    ASSUME TypeOK, Continues, IsStream(written), NEW n \in 1 .. Len(writer.left),
           written' = written \o SubSeq(writer.left, 1, n),
           writer'.left = SubSeq(writer.left, n + 1, Len(writer.left)),
           writePayloads' = writePayloads
    PROVE  /\ Continues' /\ IsStream(written)'
           /\ EndOf(Len(writePayloads))' = EndOf(Len(writePayloads))
  <1> DEFINE l == writer.left
  <1>0. l \in Seq(Nat) /\ written \in Seq(Nat)
    BY Fields
  <1>1. Len(l) \in Nat /\ Len(written) \in Nat /\ DOMAIN l = 1 .. Len(l)
        /\ DOMAIN written = 1 .. Len(written)
    BY <1>0
  <1>2. /\ Len(SubSeq(l, 1, n)) = n /\ SubSeq(l, 1, n) \in Seq(Nat)
        /\ \A i \in 1 .. n : SubSeq(l, 1, n)[i] = l[i]
    BY <1>0, <1>1
  <1>3. /\ Len(written') = Len(written) + n /\ DOMAIN written' = 1 .. Len(written) + n
        /\ \A i \in 1 .. Len(written) : written'[i] = written[i]
        /\ \A i \in Len(written) + 1 .. Len(written) + n :
              written'[i] = l[i - Len(written)]
    <2>1. PICK s \in Seq(Nat) : s = SubSeq(l, 1, n)
      BY <1>2
    <2>2. /\ Len(s) = n /\ \A i \in 1 .. n : s[i] = l[i]
      BY <1>2, <2>1
    <2>3. written' = written \o s
      BY <2>1
    <2>4. /\ Len(written') = Len(written) + n /\ DOMAIN written' = 1 .. Len(written) + n
          /\ \A i \in 1 .. Len(written) : written'[i] = written[i]
          /\ \A i \in Len(written) + 1 .. Len(written) + n : written'[i] = s[i - Len(written)]
      BY <1>0, <1>1, <2>2, <2>3
    <2>5. ASSUME NEW i \in Len(written) + 1 .. Len(written) + n
          PROVE  written'[i] = l[i - Len(written)]
      <3>1. i - Len(written) \in 1 .. n
        BY <1>1
      <3> QED BY <2>2, <2>4, <3>1
    <2> QED BY <2>4, <2>5
  <1>4. /\ Len(writer'.left) = Len(l) - n /\ DOMAIN writer'.left = 1 .. Len(l) - n
        /\ \A i \in 1 .. Len(l) - n : writer'.left[i] = l[n + i]
    <2>1. PICK t \in Seq(Nat) : t = l
      BY <1>0
    <2>2. PICK m \in Nat : m = n + 1 /\ m >= 1 /\ m <= Len(t) + 1
      BY <1>1, <2>1
    <2>3. /\ Len(SubSeq(t, m, Len(t))) = Len(t) - m + 1
          /\ DOMAIN SubSeq(t, m, Len(t)) = 1 .. Len(t) - m + 1
          /\ \A i \in 1 .. Len(t) - m + 1 : SubSeq(t, m, Len(t))[i] = t[i + m - 1]
      BY <2>2
    <2>4. writer'.left = SubSeq(t, m, Len(t)) /\ Len(t) - m + 1 = Len(l) - n
      BY <1>1, <2>1, <2>2
    <2>5. \A i \in 1 .. Len(l) - n : i + m - 1 = n + i
      BY <2>2
    <2> QED BY <2>1, <2>3, <2>4, <2>5
  <1>5. \A i \in 1 .. Len(l) : l[i] = Len(written) + i
    BY <1>1 DEF Continues, IsFrom
  <1>6. IsStream(written)'
    <2>1. ASSUME NEW i \in DOMAIN written'
          PROVE  written'[i] = i
      <3>1. CASE i \in 1 .. Len(written)
        BY <1>1, <1>3, <3>1 DEF IsStream
      <3>2. CASE i \notin 1 .. Len(written)
        <4>1. i \in Len(written) + 1 .. Len(written) + n /\ i - Len(written) \in 1 .. Len(l)
          BY <1>1, <1>3, <3>2
        <4>2. l[i - Len(written)] = Len(written) + (i - Len(written))
          BY <1>5, <4>1
        <4> QED BY <1>1, <1>3, <4>1, <4>2
      <3> QED BY <3>1, <3>2
    <2> QED BY <2>1 DEF IsStream
  <1>7. IsFrom(writer'.left, Len(written'))
    <2>1. ASSUME NEW i \in DOMAIN writer'.left
          PROVE  writer'.left[i] = Len(written') + i
      <3>1. n + i \in 1 .. Len(l) /\ i \in 1 .. Len(l) - n
        BY <1>1, <1>4
      <3>2. l[n + i] = Len(written) + (n + i)
        BY <1>5, <3>1
      <3>3. writer'.left[i] = l[n + i]
        BY <1>4, <3>1
      <3>4. Len(written) + (n + i) = Len(written') + i
        BY <1>1, <1>3, <3>1
      <3> QED BY <3>2, <3>3, <3>4
    <2> QED BY <2>1 DEF IsFrom
  <1>8. \A k : EndOf(k)' = EndOf(k)
    <2>1. PICK a \in Nat, b \in Nat : a = Len(written) /\ b = Len(l)
      BY <1>1
    <2>2. Len(written') = a + n /\ Len(writer'.left) = b - n
      BY <1>3, <1>4, <2>1
    <2>3. (a + n) + (b - n) = a + b
      BY ONLY a \in Nat, b \in Nat, n \in 1 .. Len(writer.left)
    <2>4. Len(written') + Len(writer'.left) = Len(written) + Len(writer.left)
      BY <2>1, <2>2, <2>3
    <2> QED BY <2>4 DEF EndOf
  <1>9. Continues'
    BY <1>7, <1>8 DEF Continues, IsFrom
  <1>10. EndOf(Len(writePayloads))' = EndOf(Len(writePayloads))
    <2>1. Len(writePayloads)' = Len(writePayloads)
      OBVIOUS
    <2> QED BY <1>8, <2>1 DEF EndOf
  <1> QED BY <1>6, <1>9, <1>10

\* Run has returned: it has no place in the stream any more.
LEMMA CarryReturned ==
    ASSUME CarryInv, UNCHANGED <<written, writePayloads, writer>>,
           run'.pc \in {"broadcast", "socket", "cancel", "done"}
    PROVE  CarryInv'
  <1>1. PICK e : e = EndOf(Len(writePayloads))
    OBVIOUS
  <1>2. RunAt(e)'
    BY DEF RunAt
  <1> QED BY <1>1, <1>2, CarryRun

\* TakeItem: what is not a retransmit is the next part of the stream.
LEMMA CarryItem ==
    ASSUME IInv, TakeItem
    PROVE  CarryInv'
  <1>0. TypeOK /\ CarryInv /\ StartInv /\ SegmentInv /\ scenario' = scenario
    BY SameScenario DEF IInv, Next
  <1>1. /\ UNCHANGED <<written, writePayloads, writer>> /\ conn'.sendSeq = conn.sendSeq
    BY <1>0 DEF TakeItem, writerVars, TypeOK, RunTypeOK, ConnType
  <1> DEFINE item == Head(sendItems)
  <1>2. CASE Retransmit(item)
    <2>1. run' = run
      BY <1>2 DEF TakeItem
    <2> QED BY <1>0, <1>1, <2>1, CarryKept
  <1>3. CASE ~Retransmit(item)
    <2>1. PICK e : e = EndOf(Len(writePayloads))
      OBVIOUS
    <2>2. SUFFICES ASSUME writer.pc # "end" PROVE RunAt(e)'
      BY <1>0, <1>1, <2>1, CarryRun
    <2>3. item \in Segments /\ item = sendItems[1] /\ 1 \in DOMAIN sendItems
      BY <1>0, Taken DEF TakeItem, TypeOK, PeerType
    <2>4. /\ item.from \in Nat /\ item.len \in Nat /\ item.fin \in BOOLEAN
          /\ SegmentOK(item)
      BY <1>0, <2>3 DEF Segments, SegmentInv
    <2>5. Continues /\ RunAt(e) /\ run.pc = "open"
      BY <1>0, <2>1, <2>2 DEF CarryInv, TakeItem
    <2>6. e \in Nat
      BY <1>0, <2>1, <2>5, Ends
    <2>7. e <= scenario.peerBytes /\ conn.sendSeq = NumberOf(e + 1)
      BY <2>5 DEF RunAt
    <2>8. conn.sendSeq = NumberOf(item.from)
      BY <1>3 DEF Retransmit
    <2>9. item.from = e + 1
      <3>1. /\ scenario \in Scenarios /\ SeqSpace \in Nat
            /\ scenario.peerBytes \in Nat /\ scenario.peerBytes + 2 < SeqSpace
        BY <1>0, Fields, Bounds
      <3>2. item.from < SeqSpace /\ e + 1 < SeqSpace /\ e + 1 \in Nat
        BY <2>4, <2>6, <2>7, <3>1 DEF SegmentOK
      <3>3. NumberOf(item.from) = NumberOf(e + 1)
        BY <2>7, <2>8
      <3> HIDE DEF item
      <3> QED BY ONLY <2>4, <3>1, <3>2, <3>3, NumberUnique
    <2>10. /\ e + item.len <= scenario.peerBytes
           /\ item.fin => e + item.len = scenario.peerBytes
      <3>1. scenario.peerBytes \in Nat
        BY <1>0, Fields, Bounds
      <3> QED BY <2>4, <2>6, <2>7, <2>9, <3>1 DEF SegmentOK
    <2>11. /\ run'.pc = IF item.fin THEN "fin" ELSE AfterAck(item)
           /\ run'.item = IF item.len > 0 THEN item ELSE AfterUse(item)
      BY <1>0, <1>3 DEF TakeItem, TypeOK, RunTypeOK, RunType
    <2>12. \A p : NumberOf(p)' = NumberOf(p)
      BY <1>0, SameNumbers
    <2> HIDE DEF item
    <2>13. AfterUse(item).fin = item.fin /\ AfterUse(item).len = 0
      BY DEF AfterUse, NoSegment
    <2>14. CASE item.fin
      <3>1. run'.pc = "fin" /\ run'.item.fin /\ run'.item.len = item.len
            /\ (item.len > 0 => run'.item.from = item.from)
        <4>1. CASE item.len > 0
          BY <2>11, <2>14, <4>1
        <4>2. CASE ~(item.len > 0)
          <5>1. item.len = 0
            BY <2>4, <4>2
          <5> QED BY <2>11, <2>13, <2>14, <4>2, <5>1
        <4> QED BY <4>1, <4>2
      <3> QED BY <1>0, <1>1, <2>6, <2>7, <2>9, <2>10, <2>12, <2>14, <3>1 DEF RunAt
    <2>15. CASE ~item.fin /\ item.len > 0
      <3>1. run'.pc = "push" /\ run'.item = item
        BY <2>11, <2>15 DEF AfterAck
      <3>2. e + 1 + One(item.fin) = e + 1
        BY <2>6, <2>15 DEF One
      <3> QED BY <1>0, <1>1, <2>6, <2>7, <2>9, <2>10, <2>12, <2>15, <3>1, <3>2 DEF RunAt
    <2>16. CASE ~item.fin /\ ~(item.len > 0)
      <3>1. run'.pc = "open" /\ ~run'.item.fin
        BY <2>11, <2>13, <2>16 DEF AfterAck, AfterFin
      <3> QED BY <1>0, <1>1, <2>7, <2>12, <3>1 DEF RunAt
    <2> QED BY <2>14, <2>15, <2>16
  <1> QED BY <1>2, <1>3

\* TakeFin and AdvanceSendSeq move sendSeq over the FIN, and over a payload that
\* the writer has.
LEMMA CarryAdvance ==
    ASSUME IInv, TakeFin \/ AdvanceSendSeq
    PROVE  CarryInv'
  <1>0. TypeOK /\ CarryInv /\ scenario' = scenario
    BY SameScenario DEF IInv, Next
  <1>1. UNCHANGED <<written, writePayloads, writer>>
    BY DEF TakeFin, AdvanceSendSeq, writerVars
  <1>2. PICK e : e = EndOf(Len(writePayloads))
    OBVIOUS
  <1>3. SUFFICES ASSUME writer.pc # "end" PROVE RunAt(e)'
    BY <1>0, <1>1, <1>2, CarryRun
  <1>4. Continues /\ RunAt(e)
    BY <1>0, <1>2, <1>3 DEF CarryInv
  <1>5. e \in Nat
    BY <1>0, <1>2, <1>4, Ends
  <1>6. /\ scenario \in Scenarios /\ SeqSpace \in Nat /\ run.item.len \in Nat
        /\ scenario.peerBytes \in Nat /\ scenario.peerBytes + 2 < SeqSpace
    BY <1>0, Fields, Bounds
  <1>7. \A p : NumberOf(p)' = NumberOf(p)
    BY <1>0, SameNumbers
  <1>8. CASE TakeFin
    <2>1. /\ conn'.sendSeq = (conn.sendSeq + 1) % SeqSpace
          /\ run'.pc = AfterAck(run.item) /\ run'.item = run.item
          /\ run.pc = "fin"
      BY <1>0, <1>8 DEF TakeFin, TypeOK, RunTypeOK, ConnType, RunType
    <2>2. /\ run.item.fin /\ conn.sendSeq = NumberOf(e + 1)
          /\ e + run.item.len = scenario.peerBytes
          /\ run.item.len > 0 => run.item.from = e + 1
      BY <1>4, <2>1 DEF RunAt
    <2>3. conn'.sendSeq = NumberOf(e + 2)
      <3>1. e + 1 \in Nat /\ e + 1 + 1 < SeqSpace /\ e + 1 + 1 = e + 2 /\ 1 \in Nat
        BY <1>5, <1>6, <2>2
      <3>2. (NumberOf(e + 1) + 1) % SeqSpace = NumberOf(e + 1 + 1)
        BY ONLY <1>6, <3>1, NumberNext
      <3> QED BY <2>1, <2>2, <3>1, <3>2
    <2>4. CASE run.item.len > 0
      <3>1. run'.pc = "push"
        BY <2>1, <2>4 DEF AfterAck
      <3>2. e + 1 + One(run.item.fin) = e + 2
        BY <1>5, <2>2 DEF One
      <3>3. /\ run'.item.len > 0 /\ run'.item.from = e + 1
            /\ e + run'.item.len <= scenario'.peerBytes
            /\ e + run'.item.len = scenario'.peerBytes
            /\ conn'.sendSeq = NumberOf(e + 1 + One(run.item.fin))'
        <4>1. e + run.item.len <= scenario.peerBytes
          BY ONLY <1>5, <1>6, <2>2
        <4>2. conn'.sendSeq = NumberOf(e + 1 + One(run.item.fin))
          BY <2>3, <3>2
        <4>3. NumberOf(e + 1 + One(run.item.fin))' = NumberOf(e + 1 + One(run.item.fin))
          BY <1>0, <2>1 DEF NumberOf, One
        <4> QED BY <1>0, <2>1, <2>2, <2>4, <4>1, <4>2, <4>3
      <3> QED BY <3>1, <3>3 DEF RunAt
    <2>5. CASE ~(run.item.len > 0)
      <3>1. run'.pc = "close" /\ e = scenario.peerBytes
        BY <1>5, <1>6, <2>1, <2>2, <2>5 DEF AfterAck, AfterFin
      <3> QED BY <1>0, <1>7, <2>1, <2>2, <2>3, <3>1 DEF RunAt
    <2> QED BY <2>4, <2>5
  <1>9. CASE AdvanceSendSeq
    <2>1. /\ conn'.sendSeq = (conn.sendSeq + run.item.len) % SeqSpace
          /\ run'.pc = AfterFin(run.item) /\ run'.item = AfterUse(run.item)
          /\ run.pc = "seq"
      BY <1>0, <1>9 DEF AdvanceSendSeq, TypeOK, RunTypeOK, ConnType, RunType
    <2>2. AfterUse(run.item).fin = run.item.fin
      BY DEF AfterUse, NoSegment
    <2>3. PICK p : p = e - run.item.len + 1 + One(run.item.fin)
      OBVIOUS
    <2>4. /\ run.item.len \in 1 .. e /\ e <= scenario.peerBytes
          /\ run.item.fin => e = scenario.peerBytes
          /\ conn.sendSeq = NumberOf(p)
      BY <1>4, <2>1, <2>3 DEF RunAt
    <2>5. p \in Nat /\ p + run.item.len = e + 1 + One(run.item.fin)
          /\ p + run.item.len < SeqSpace
      BY <1>5, <1>6, <2>3, <2>4 DEF One
    <2>6. conn'.sendSeq = NumberOf(e + 1 + One(run.item.fin))
      <3>1. (NumberOf(p) + run.item.len) % SeqSpace = NumberOf(p + run.item.len)
        BY ONLY <1>6, <2>5, NumberNext
      <3> QED BY <2>1, <2>4, <2>5, <3>1
    <2>7. CASE run.item.fin
      <3>1. run'.pc = "close" /\ e + 1 + One(run.item.fin) = e + 2
        BY <1>5, <2>1, <2>7 DEF AfterFin, One
      <3> QED BY <1>0, <1>7, <2>1, <2>2, <2>4, <2>6, <2>7, <3>1 DEF RunAt
    <2>8. CASE ~run.item.fin
      <3>1. run'.pc = "open" /\ e + 1 + One(run.item.fin) = e + 1
        BY <1>5, <2>1, <2>8 DEF AfterFin, One
      <3> QED BY <1>0, <1>7, <2>1, <2>2, <2>4, <2>6, <2>8, <3>1 DEF RunAt
    <2> QED BY <2>7, <2>8
  <1> QED BY <1>8, <1>9

LEMMA CarryStep ==
    ASSUME IInv, Next
    PROVE  CarryInv'
  <1>0. TypeOK /\ CarryInv /\ StartInv /\ scenario' = scenario
    BY SameScenario DEF IInv
  <1>a. /\ run \in RunType /\ conn \in ConnType /\ writer \in WriterType
    BY <1>0 DEF TypeOK, RunTypeOK, WriterTypeOK
  <1>b. PICK e : e = EndOf(Len(writePayloads))
    OBVIOUS
  <1>c. \A p : NumberOf(p)' = NumberOf(p)
    BY <1>0, SameNumbers
  <1>1. CASE TakeItem
    BY <1>1, CarryItem
  <1>2. CASE TakeFin \/ AdvanceSendSeq
    BY <1>2, CarryAdvance
  <1>3. CASE TakeSyn
    <2>1. UNCHANGED <<written, writePayloads, writer>> /\ run.pc = "syn"
      BY <1>3 DEF TakeSyn, writerVars
    <2>2. CASE Head(sendItems).syn
      <3>1. conn'.sendSeq = NumberOf(1) /\ run'.pc = "dial" /\ run'.item = run.item
        BY <1>3, <1>a, <2>2 DEF TakeSyn, ConnType, RunType
      <3>2. e = 0 /\ writer.pc = "none"
        BY <1>0, <1>b, <2>1 DEF StartInv, EndOf
      <3>3. ~run.item.fin
        BY <1>0, <2>1, <3>2 DEF CarryInv, RunAt
      <3>4. RunAt(e)'
        BY <1>c, <3>1, <3>2, <3>3 DEF RunAt
      <3> QED BY <1>0, <1>b, <2>1, <3>4, CarryRun
    <2>3. CASE ~Head(sendItems).syn
      <3>1. conn' = conn /\ run' = run
        BY <1>3, <2>3 DEF TakeSyn
      <3> QED BY <1>0, <2>1, <3>1, CarryKept
    <2> QED BY <2>2, <2>3
  <1>4. CASE Dial
    <2>1. /\ UNCHANGED <<written, writePayloads>> /\ writer'.left = writer.left
          /\ writer.pc = "none" /\ run.pc = "dial" /\ run'.pc = "open" /\ run'.item = run.item
          /\ conn'.sendSeq = conn.sendSeq
      BY <1>0, <1>4, <1>a DEF Dial, StartInv, ConnType, RunType, WriterType
    <2>2. conn.sendSeq = NumberOf(1) /\ e = 0 /\ ~run.item.fin
      BY <1>0, <1>b, <2>1 DEF CarryInv, RunAt
    <2>3. scenario.peerBytes \in Nat
      BY <1>0, Fields, Bounds
    <2>4. RunAt(e)'
      BY <1>0, <1>c, <2>1, <2>2, <2>3 DEF RunAt
    <2> QED BY <1>0, <1>b, <2>1, <2>4, CarryRun
  <1>5. CASE RunStops \/ RunIdles \/ Broadcast \/ CloseSocket \/ RunEnds
    <2>1. /\ UNCHANGED <<written, writePayloads, writer>>
          /\ run'.pc \in {"broadcast", "socket", "cancel", "done"}
      BY <1>5, <1>a DEF RunStops, RunIdles, Broadcast, CloseSocket, RunEnds, writerVars, RunType
    <2> QED BY <1>0, <2>1, CarryReturned
  <1>6. CASE PushPayload
    <2>1. /\ writePayloads' = Append(writePayloads, Payload(run.item))
          /\ UNCHANGED <<written, writer, conn>> /\ run.pc = "push" /\ run'.pc = "seq"
          /\ run'.item = run.item
      BY <1>6, <1>a DEF PushPayload, RunType
    <2>2. CASE writer.pc = "end"
      BY <1>0, <2>1, <2>2 DEF CarryInv, IsStream
    <2>3. CASE writer.pc # "end"
      <3>1. Continues /\ RunAt(e)
        BY <1>0, <1>b, <2>3 DEF CarryInv
      <3>a. e \in Nat
        BY <1>0, <1>b, <3>1, Ends
      <3>b. run.item.len \in Nat /\ run.item \in Segments /\ scenario.peerBytes \in Nat
        BY <1>0, Fields, Bounds
      <3>2. /\ e \in Nat /\ run.item.len \in Nat /\ run.item \in Segments
            /\ scenario.peerBytes \in Nat
        BY <3>a, <3>b
      <3>3. /\ run.item.len > 0 /\ run.item.from = e + 1
            /\ e + run.item.len <= scenario.peerBytes
            /\ run.item.fin => e + run.item.len = scenario.peerBytes
            /\ conn.sendSeq = NumberOf(e + 1 + One(run.item.fin))
        BY <2>1, <3>1 DEF RunAt
      <3>4. /\ Payload(run.item) \in Seq(Nat) /\ Len(Payload(run.item)) = run.item.len
            /\ IsFrom(Payload(run.item), e)
        <4>1. run.item.from > 0 /\ run.item.from - 1 = e
          BY <3>2, <3>3
        <4> QED BY <3>2, <4>1, PayloadType
      <3>5. Payload(run.item) # <<>>
        BY <3>3, <3>4
      <3>6. PICK s \in Seq(Nat) : s = Payload(run.item)
        BY <3>4
      <3>7. Continues' /\ EndOf(Len(writePayloads))' = e + run.item.len
        BY <1>0, <1>b, <2>1, <3>1, <3>4, <3>5, <3>6, CarryPush
      <3>8. PICK d : d = e + run.item.len
        OBVIOUS
      <3>9. RunAt(d)'
        <4>1. /\ run.item.len \in 1 .. d /\ d <= scenario.peerBytes
              /\ run.item.fin => d = scenario.peerBytes
              /\ d - run.item.len + 1 + One(run.item.fin) = e + 1 + One(run.item.fin)
          BY <3>2, <3>3, <3>8 DEF One
        <4> QED BY <1>0, <1>c, <2>1, <3>3, <4>1 DEF RunAt
      <3>10. RunAt(EndOf(Len(writePayloads)))'
        BY <3>7, <3>8, <3>9 DEF RunAt
      <3>11. IsStream(written)'
        BY <1>0, <2>1 DEF CarryInv, IsStream
      <3> QED BY <3>7, <3>10, <3>11 DEF CarryInv
    <2> QED BY <2>2, <2>3
  <1>7. CASE CloseWrites
    <2>1. /\ UNCHANGED <<written, writePayloads, writer, conn>>
          /\ run.pc = "close" /\ run'.pc = "flush" /\ run'.item = run.item
      BY <1>7, <1>a DEF CloseWrites, RunType
    <2>2. writer.pc # "end" => RunAt(e)'
      <3>1. SUFFICES ASSUME RunAt(e) PROVE RunAt(e)'
        BY <1>0, <1>b DEF CarryInv
      <3> QED BY <1>0, <1>c, <2>1, <3>1 DEF RunAt
    <2> QED BY <1>0, <1>b, <2>1, <2>2, CarryRun
  <1>8. CASE WriterTakes
    <2>1. /\ writer.pc = "take" /\ writer'.pc = "write" /\ writer'.left = Head(writePayloads)
          /\ writePayloads # <<>> /\ writePayloads' = Tail(writePayloads)
          /\ UNCHANGED <<written, conn, run>>
      BY <1>8 DEF WriterTakes
    <2>2. writer.left = <<>> /\ Continues /\ RunAt(e)
      BY <1>0, <1>b, <2>1 DEF StartInv, CarryInv
    <2>3. Continues' /\ EndOf(Len(writePayloads))' = e
      BY <1>0, <1>b, <2>1, <2>2, CarryTake
    <2>4. RunAt(e)'
      BY <1>0, <1>c, <2>1, <2>2 DEF RunAt
    <2>5. RunAt(EndOf(Len(writePayloads)))'
      BY <2>3, <2>4 DEF RunAt
    <2>6. IsStream(written)'
      BY <1>0, <2>1 DEF CarryInv, IsStream
    <2> QED BY <2>3, <2>5, <2>6 DEF CarryInv
  <1>9. CASE Write
    <2>1. PICK n \in 1 .. Len(writer.left) :
             /\ written' = written \o SubSeq(writer.left, 1, n)
             /\ writer' = IF n = Len(writer.left) THEN [pc |-> "take", left |-> <<>>]
                          ELSE [writer EXCEPT !.left =
                                   SubSeq(writer.left, n + 1, Len(writer.left))]
      BY <1>9 DEF Write
    <2>2. /\ writer.pc = "write" /\ UNCHANGED <<writePayloads, conn, run>>
      BY <1>9 DEF Write
    <2>3. writer'.left = SubSeq(writer.left, n + 1, Len(writer.left))
      <3>1. CASE n = Len(writer.left)
        <4>1. PICK t \in Seq(Nat) : t = writer.left
          BY <1>0, Fields
        <4>2. SubSeq(t, n + 1, n) = <<>>
          BY <4>1
        <4> QED BY <2>1, <3>1, <4>1, <4>2
      <3>2. CASE n # Len(writer.left)
        BY <1>a, <2>1, <3>2 DEF WriterType
      <3> QED BY <3>1, <3>2
    <2>4. Continues /\ RunAt(e) /\ IsStream(written)
      BY <1>0, <1>b, <2>2 DEF CarryInv
    <2>5. Continues' /\ IsStream(written)' /\ EndOf(Len(writePayloads))' = e
      BY <1>0, <1>b, <2>1, <2>2, <2>3, <2>4, CarryWrite
    <2>6. RunAt(e)'
      BY <1>0, <1>c, <2>2, <2>4 DEF RunAt
    <2>7. RunAt(EndOf(Len(writePayloads)))'
      BY <2>5, <2>6 DEF RunAt
    <2> QED BY <2>5, <2>7 DEF CarryInv
  <1>10. CASE WriterEnds
    BY <1>0, <1>10 DEF WriterEnds, CarryInv, IsStream
  <1>11. CASE PeerSyn \/ PeerSegment
    <2>1. UNCHANGED <<written, writePayloads, writer, run, conn>>
      BY <1>0, <1>11, PeerSends
    <2> QED BY <1>0, <2>1, CarryKept
  <1>12. CASE Cancel \/ Read \/ ReaderQueues \/ ReaderQueuesFin \/ ReaderEnds \/ ReaderQueuesRst
                \/ ReaderCloses \/ Forward \/ ForwarderEnds \/ AckerAcks
    <2>1. UNCHANGED <<written, writePayloads, writer, run, conn>>
      BY <1>12 DEF Cancel, Read, ReaderQueues, ReaderQueuesFin, ReaderEnds, ReaderQueuesRst,
                   ReaderCloses, Forward, ForwarderEnds, AckerAcks, writerVars
    <2> QED BY <1>0, <2>1, CarryKept
  <1>13. CASE ReaderLocks \/ ReaderMakesFin \/ AckerLocks
    <2>1. UNCHANGED <<written, writePayloads, writer, run>> /\ conn'.sendSeq = conn.sendSeq
      BY <1>13, <1>a DEF ReaderLocks, ReaderMakesFin, AckerLocks, writerVars, ConnType
    <2> QED BY <1>0, <2>1, CarryKept
  <1> QED BY <1>1, <1>2, <1>3, <1>4, <1>5, <1>6, <1>7, <1>8, <1>9, <1>10, <1>11, <1>12, <1>13
          DEF Next

-----------------------------------------------------------------------------
(* From the remote to the peer.                                            *)

LEMMA MadeKept ==
    ASSUME TypeOK, MadeInv, scenario' = scenario, UNCHANGED <<made, remoteLeft>>,
           conn'.receiveSeq = conn.receiveSeq, reader' = reader \/ reader' = WakeReader,
           made = 0 => run'.pc \in {"syn", "broadcast", "socket", "cancel", "done"}
    PROVE  MadeInv'
  <1>1. reader \in ReaderType
    BY DEF TypeOK, ReadType
  <1>2. \/ reader' = reader
        \/ reader.pc = "wait" /\ reader' = [reader EXCEPT !.pc = "lock"]
    BY DEF WakeReader
  <1>3. /\ reader'.n = reader.n /\ reader'.packets = reader.packets
        /\ reader'.pc = reader.pc \/ (reader.pc = "wait" /\ reader'.pc = "lock")
    BY <1>1, <1>2 DEF ReaderType
  <1>4. NumberOf(made)' = NumberOf(made)
    BY DEF NumberOf
  <1> QED BY <1>3, <1>4 DEF MadeInv

\* Steps of the reader while made is positive, that leave made alone.
LEMMA MadeRead ==
    ASSUME TypeOK, MadeInv, StartInv, Next,
           Read \/ ReaderQueues \/ ReaderQueuesFin \/ ReaderEnds \/ ReaderQueuesRst
             \/ ReaderCloses
    PROVE  MadeInv'
  <1>0. /\ scenario' = scenario /\ reader \in ReaderType /\ remoteLeft \in Nat /\ made \in Nat
        /\ reader.n \in Nat /\ MaxRead \in Nat
    BY SameScenario, Fields, Bounds DEF TypeOK, ReadType
  <1>1. UNCHANGED <<made, conn, run>>
    BY DEF Read, ReaderQueues, ReaderQueuesFin, ReaderEnds, ReaderQueuesRst, ReaderCloses, seenVars
  <1>2. NumberOf(made)' = NumberOf(made)
    BY <1>0, <1>1 DEF NumberOf
  <1>a. reader.pc # "none"
    BY DEF Read, ReaderQueues, ReaderQueuesFin, ReaderEnds, ReaderQueuesRst, ReaderCloses
  <1>3. made > 0
    BY <1>0, <1>a DEF MadeInv
  <1>4. CASE Read
    <2>a. reader.pc = "read"
      BY <1>4 DEF Read
    <2>b. /\ reader.packets = <<>> /\ reader.n = 0
          /\ made + reader.n + remoteLeft = scenario.remoteBytes + 1
      BY <1>3, <2>a DEF MadeInv
    <2>0. reader.pc = "read" /\ reader.packets = <<>> /\ reader.n = 0
          /\ made + remoteLeft = scenario.remoteBytes + 1
      BY ONLY <1>0, <2>a, <2>b
    <2>1. CASE \E n \in 1 .. Min({MaxRead, remoteLeft}) :
                    /\ reader' = [reader EXCEPT !.pc = "lock", !.n = n]
                    /\ remoteLeft' = remoteLeft - n
      <3>1. PICK n \in 1 .. Min({MaxRead, remoteLeft}) :
                    /\ reader' = [reader EXCEPT !.pc = "lock", !.n = n]
                    /\ remoteLeft' = remoteLeft - n
        BY <2>1
      <3>2. Min({MaxRead, remoteLeft}) = IF MaxRead <= remoteLeft THEN MaxRead ELSE remoteLeft
        BY ONLY <1>0, OfTwo
      <3>3. n \in Nat \ {0} /\ n <= remoteLeft
        BY <1>0, <3>2
      <3>4. reader'.pc = "lock" /\ reader'.n = n /\ reader'.packets = <<>>
        BY <1>0, <2>0, <3>1 DEF ReaderType
      <3>5. made + n + (remoteLeft - n) = scenario.remoteBytes + 1
        BY <1>0, <2>0, <3>3
      <3> QED BY <1>0, <1>1, <1>2, <1>3, <3>1, <3>3, <3>4, <3>5 DEF MadeInv
    <2>2. CASE remoteLeft = 0 /\ reader' = [reader EXCEPT !.pc = "eof"] /\ UNCHANGED remoteLeft
      <3>1. reader'.pc = "eof" /\ reader'.n = 0 /\ reader'.packets = <<>>
        BY <1>0, <2>0, <2>2 DEF ReaderType
      <3> QED BY <1>0, <1>1, <1>2, <1>3, <2>0, <2>2, <3>1 DEF MadeInv
    <2>3. CASE reader' = [reader EXCEPT !.pc = "end"] /\ UNCHANGED remoteLeft
      <3>1. reader'.pc = "end" /\ reader'.n = 0 /\ reader'.packets = <<>>
        BY <1>0, <2>0, <2>3 DEF ReaderType
      <3> QED BY <1>0, <1>1, <1>2, <1>3, <2>0, <2>3, <3>1 DEF MadeInv
    <2> QED BY <1>4, <2>1, <2>2, <2>3, Zenon DEF Read
  <1>5. CASE ReaderQueues
    <2>0. reader.pc = "queue" /\ reader.packets # <<>> /\ UNCHANGED remoteLeft /\ reader.n = 0
      BY <1>5 DEF ReaderQueues, MadeInv
    <2>1. PICK s \in Seq(Packets) : s = reader.packets
      BY Fields
    <2>a. /\ Tail(s) \in Seq(Packets) /\ Len(s) \in Nat \ {0} /\ Len(Tail(s)) = Len(s) - 1
      BY ONLY <2>0, <2>1, Taken
    <2>b. PICK t \in Seq(Packets) : t = Tail(s)
      BY <2>a
    <2>c. t = <<>> <=> Len(t) = 0
      OBVIOUS
    <2>2. t = Tail(s) /\ (Len(s) = 1 <=> t = <<>>)
      BY <2>a, <2>b, <2>c
    <2>3. reader' = [reader EXCEPT !.packets = t, !.pc = IF Len(s) = 1 THEN "read" ELSE "queue"]
      BY <1>5, <2>1, <2>2 DEF ReaderQueues
    <2>4. /\ reader'.n = 0 /\ reader'.packets = t
          /\ reader'.pc = IF Len(s) = 1 THEN "read" ELSE "queue"
      BY ONLY <1>0, <2>0, <2>3 DEF ReaderType
    <2>5. CASE t = <<>>
      BY <1>0, <1>1, <1>2, <1>3, <2>0, <2>2, <2>4, <2>5 DEF MadeInv
    <2>6. CASE t # <<>>
      BY <1>0, <1>1, <1>2, <1>3, <2>0, <2>2, <2>4, <2>6 DEF MadeInv
    <2> QED BY <2>5, <2>6
  <1>6. CASE ReaderQueuesFin
    <2>1. /\ reader'.pc = "end" /\ reader'.n = reader.n /\ reader'.packets = <<>>
          /\ reader.pc = "fin" /\ UNCHANGED remoteLeft
      BY <1>0, <1>6 DEF ReaderQueuesFin, ReaderType
    <2> QED BY <1>0, <1>1, <1>2, <1>3, <2>1 DEF MadeInv
  <1>7. CASE ReaderEnds \/ ReaderQueuesRst \/ ReaderCloses
    <2>1. /\ reader'.pc \in {"close", "rst", "done"} /\ reader'.n = reader.n
          /\ reader'.packets = reader.packets
          /\ reader.pc \in {"end", "rst", "close"} /\ UNCHANGED remoteLeft
      BY <1>0, <1>7 DEF ReaderEnds, ReaderQueuesRst, ReaderCloses, ReaderType
    <2> QED BY <1>0, <1>1, <1>2, <1>3, <2>1 DEF MadeInv
  <1> QED BY <1>4, <1>5, <1>6, <1>7

LEMMA MadeStep ==
    ASSUME IInv, Next
    PROVE  MadeInv'
  <1>0. /\ TypeOK /\ MadeInv /\ StartInv /\ scenario' = scenario
        /\ run \in RunType /\ conn \in ConnType /\ reader \in ReaderType
    BY SameScenario DEF IInv, TypeOK, RunTypeOK, ReadType
  <1>a. /\ scenario \in Scenarios /\ made \in Nat /\ remoteLeft \in Nat /\ reader.n \in Nat
        /\ scenario.remoteBytes \in Nat /\ SeqSpace \in Nat
        /\ scenario.remoteBytes + 2 < SeqSpace
    BY <1>0, Fields, Bounds
  <1>b. \A p : NumberOf(p)' = NumberOf(p)
    BY <1>0, SameNumbers
  <1>1. CASE TakeSyn
    <2>1. /\ run.pc = "syn" /\ UNCHANGED <<remoteLeft, reader>>
      BY <1>1 DEF TakeSyn, readerVars
    <2>2. /\ made = 0 /\ reader.pc = "none" /\ remoteLeft = scenario.remoteBytes
      BY <1>0, <2>1 DEF StartInv, MadeInv
    <2>3. CASE Head(sendItems).syn
      <3>1. conn'.receiveSeq = NumberOf(1) /\ made' = 1
        BY <1>0, <1>1, <2>3 DEF TakeSyn, ConnType
      <3>2. conn'.receiveSeq = NumberOf(made)'
        BY <1>0, <3>1 DEF NumberOf
      <3>3. reader.n = 0 /\ reader.packets = <<>>
        BY <1>0, <2>2 DEF MadeInv
      <3> QED BY <1>0, <1>a, <2>1, <2>2, <3>1, <3>2, <3>3 DEF MadeInv
    <2>4. CASE ~Head(sendItems).syn
      <3>1. UNCHANGED <<conn, made, run>>
        BY <1>1, <2>4 DEF TakeSyn
      <3> QED BY <1>0, <2>1, <3>1, MadeKept
    <2> QED BY <2>3, <2>4
  <1>2. CASE Dial
    <2>1. /\ reader'.pc = "read" /\ reader'.n = reader.n /\ reader'.packets = reader.packets
          /\ UNCHANGED <<made, remoteLeft>> /\ conn'.receiveSeq = conn.receiveSeq
          /\ run.pc = "dial"
      BY <1>0, <1>2 DEF Dial, seenVars, ReaderType, ConnType
    <2>2. made = 1 /\ reader.pc = "none"
      BY <1>0, <2>1 DEF StartInv
    <2>3. NumberOf(made)' = NumberOf(made)
      BY <1>0, <2>1 DEF NumberOf
    <2> QED BY <1>0, <1>a, <2>1, <2>2, <2>3 DEF MadeInv
  <1>3. CASE TakeItem
    <2>1. /\ UNCHANGED <<made, remoteLeft>>
          /\ reader' = reader \/ reader' = WakeReader
          /\ conn'.receiveSeq = conn.receiveSeq /\ run.pc = "open"
      BY <1>0, <1>3 DEF TakeItem, ConnType
    <2>2. made # 0
      BY <1>0, <2>1 DEF MadeInv
    <2> QED BY <1>0, <2>1, <2>2, MadeKept
  <1>4. CASE TakeFin \/ PushPayload \/ AdvanceSendSeq \/ CloseWrites
    <2>1. /\ UNCHANGED <<made, remoteLeft, reader>>
          /\ conn'.receiveSeq = conn.receiveSeq
      BY <1>0, <1>4 DEF TakeFin, PushPayload, AdvanceSendSeq, CloseWrites, readerVars, seenVars,
                        ConnType
    <2>2. run.pc \in {"fin", "push", "seq", "close"}
      BY <1>4 DEF TakeFin, PushPayload, AdvanceSendSeq, CloseWrites
    <2>3. made # 0
      BY <1>0, <2>2 DEF MadeInv
    <2> QED BY <1>0, <2>1, <2>3, MadeKept
  <1>5. CASE RunStops \/ RunIdles \/ Broadcast \/ CloseSocket \/ RunEnds
    <2>1. /\ UNCHANGED <<made, remoteLeft, conn>>
          /\ reader' = reader \/ reader' = WakeReader
          /\ run'.pc \in {"broadcast", "socket", "cancel", "done"}
      BY <1>0, <1>5 DEF RunStops, RunIdles, Broadcast, CloseSocket, RunEnds, readerVars, seenVars,
                        RunType
    <2> QED BY <1>0, <2>1, MadeKept
  <1>6. CASE Read \/ ReaderQueues \/ ReaderQueuesFin \/ ReaderEnds \/ ReaderQueuesRst
               \/ ReaderCloses
    BY <1>0, <1>6, MadeRead
  <1>7. CASE ReaderLocks
    <2>0. /\ reader.pc = "lock" /\ UNCHANGED <<remoteLeft, run>>
      BY <1>7 DEF ReaderLocks
    <2>1. /\ made > 0 /\ reader.n > 0 /\ reader.packets = <<>>
          /\ conn.receiveSeq = NumberOf(made)
          /\ made + reader.n + remoteLeft = scenario.remoteBytes + 1
      BY <1>0, <1>a, <2>0 DEF MadeInv
    <2>2. CASE ctxDone
      <3>1. /\ reader'.pc = "end" /\ reader'.n = 0 /\ reader'.packets = <<>>
            /\ UNCHANGED <<conn, made>>
        BY <1>0, <1>7, <2>1, <2>2 DEF ReaderLocks, ReaderType
      <3>2. NumberOf(made)' = NumberOf(made)
        BY <1>0, <3>1 DEF NumberOf
      <3> QED BY <1>0, <1>a, <2>0, <2>1, <3>1, <3>2 DEF MadeInv
    <2>3. CASE ~ctxDone /\ WindowFull(reader.n)
      <3>1. /\ reader'.pc = "wait" /\ reader'.n = reader.n /\ reader'.packets = <<>>
            /\ UNCHANGED <<conn, made>>
        BY <1>0, <1>7, <2>1, <2>3 DEF ReaderLocks, ReaderType
      <3>2. NumberOf(made)' = NumberOf(made)
        BY <1>0, <3>1 DEF NumberOf
      <3> QED BY <1>0, <1>a, <2>0, <2>1, <3>1, <3>2 DEF MadeInv
    <2>4. CASE ~ctxDone /\ ~WindowFull(reader.n)
      <3>0. made + reader.n < SeqSpace
        BY <1>a, <2>1
      <3>1. /\ DataPackets(reader.n) \in Seq(Packets) /\ DataPackets(reader.n) # <<>>
        BY <1>a, <2>1, <3>0, DataPacketsSpan
      <3>2. PICK s \in Seq(Packets) : s = DataPackets(reader.n)
        BY <3>1
      <3>3. reader' = [reader EXCEPT !.pc = "queue", !.n = 0, !.packets = s]
        BY <1>7, <2>4, <3>2 DEF ReaderLocks
      <3>4. /\ reader'.pc = "queue" /\ reader'.n = 0 /\ reader'.packets = s /\ s # <<>>
        BY <1>0, <3>1, <3>2, <3>3 DEF ReaderType
      <3>5. /\ conn'.receiveSeq = (conn.receiveSeq + reader.n) % SeqSpace
            /\ made' = made + reader.n
        BY <1>0, <1>7, <2>4 DEF ReaderLocks, ConnType
      <3>6. (NumberOf(made) + reader.n) % SeqSpace = NumberOf(made + reader.n)
        BY <1>a, <3>0, NumberNext
      <3>7. conn'.receiveSeq = NumberOf(made)'
        BY <1>0, <2>1, <3>5, <3>6 DEF NumberOf
      <3>8. made' \in Nat /\ made' > 0 /\ made' + 0 + remoteLeft' = scenario.remoteBytes + 1
        BY <1>a, <2>0, <2>1, <3>5
      <3>9. made' <= scenario.remoteBytes + 2
        BY <1>a, <2>0, <3>8
      <3> QED BY <1>0, <3>4, <3>7, <3>8, <3>9 DEF MadeInv
    <2> QED BY <2>2, <2>3, <2>4
  <1>8. CASE ReaderMakesFin
    <2>0. /\ reader.pc = "eof" /\ UNCHANGED <<remoteLeft, run>> /\ made' = made + 1
          /\ conn'.receiveSeq = (conn.receiveSeq + 1) % SeqSpace
      BY <1>0, <1>8 DEF ReaderMakesFin, ConnType
    <2>1. /\ made > 0 /\ reader.n = 0 /\ remoteLeft = 0
          /\ conn.receiveSeq = NumberOf(made)
          /\ made + reader.n + remoteLeft = scenario.remoteBytes + 1
      BY <1>0, <1>a, <2>0 DEF MadeInv
    <2>2. PICK s \in Seq(Packets) : s = <<Packet("fin", conn.receiveSeq, 1)>>
      <3>1. conn.receiveSeq \in Nat
        BY <1>0, Fields
      <3>2. Packet("fin", conn.receiveSeq, 1) \in Packets
        BY <3>1 DEF Packet, Packets
      <3>3. PICK y \in Packets : y = Packet("fin", conn.receiveSeq, 1)
        BY <3>2
      <3>4. <<y>> \in Seq(Packets)
        OBVIOUS
      <3> QED BY <3>3, <3>4
    <2>3. reader' = [reader EXCEPT !.pc = "fin", !.packets = s]
      BY <1>8, <2>2 DEF ReaderMakesFin
    <2>4. reader'.pc = "fin" /\ reader'.n = 0 /\ reader'.packets = s /\ Len(s) = 1
      BY <1>0, <2>1, <2>2, <2>3 DEF ReaderType
    <2>5. made + 1 < SeqSpace
      BY <1>a, <2>1
    <2>6. (NumberOf(made) + 1) % SeqSpace = NumberOf(made + 1)
      BY <1>a, <2>5, NumberNext
    <2>7. conn'.receiveSeq = NumberOf(made)'
      BY <1>0, <2>0, <2>1, <2>6 DEF NumberOf
    <2>8. made' \in Nat /\ made' > 0 /\ made' <= scenario.remoteBytes + 2
      BY <1>a, <2>0, <2>1
    <2> QED BY <1>0, <2>0, <2>4, <2>7, <2>8 DEF MadeInv
  <1>9. CASE PeerSyn \/ PeerSegment
    <2>1. UNCHANGED <<made, remoteLeft, conn, reader, run>>
      BY <1>0, <1>9, PeerSends
    <2>2. made = 0 => run'.pc \in {"syn", "broadcast", "socket", "cancel", "done"}
      BY <1>0, <2>1 DEF MadeInv
    <2> QED BY <1>0, <2>1, <2>2, MadeKept
  <1>10. CASE Cancel \/ WriterTakes \/ Write \/ WriterEnds \/ Forward \/ ForwarderEnds
                \/ AckerLocks \/ AckerAcks
    <2>1. /\ UNCHANGED <<made, remoteLeft, reader, run>> /\ conn'.receiveSeq = conn.receiveSeq
      BY <1>0, <1>10 DEF Cancel, WriterTakes, Write, WriterEnds, Forward, ForwarderEnds,
                         AckerLocks, AckerAcks, readerVars, seenVars, ConnType
    <2>2. made = 0 => run'.pc \in {"syn", "broadcast", "socket", "cancel", "done"}
      BY <1>0, <2>1 DEF MadeInv
    <2> QED BY <1>0, <2>1, <2>2, MadeKept
  <1> QED BY <1>1, <1>2, <1>3, <1>4, <1>5, <1>6, <1>7, <1>8, <1>9, <1>10 DEF Next

-----------------------------------------------------------------------------
(* The acks of the peer.                                                   *)

LEMMA SpansOrdered ==
    ASSUME NEW q \in Seq(Packets), NEW a, NEW b \in Nat, Spans(q, a, b)
    PROVE  a \in Nat /\ a <= b
  <1>1. PICK f \in [1 .. Len(q) + 1 -> 0 .. b] : f[1] = a
    BY DEF Spans
  <1>2. 1 \in 1 .. Len(q) + 1
    OBVIOUS
  <1> QED BY <1>1, <1>2

\* The peer has got nothing that was not made.
LEMMA GotMade ==
    ASSUME TypeOK, PacketInv, ~ctxDone
    PROVE  peer.got <= made
  <1>0. /\ peer.got \in Nat /\ made \in Nat /\ reader.packets \in Seq(Packets)
        /\ readPackets \in Seq(Packets)
    BY Fields DEF TypeOK, ReadType
  <1>1. CASE forwarder = "none"
    BY <1>0, <1>1 DEF PacketInv
  <1>2. CASE forwarder # "none"
    <2>1. PICK m \in Nat : Spans(readPackets, peer.got, m) /\ Spans(reader.packets, m, made)
      BY <1>2 DEF PacketInv
    <2>2. peer.got <= m /\ m <= made
      BY <1>0, <2>1, SpansOrdered
    <2> QED BY <1>0, <2>2
  <1> QED BY <1>1, <1>2

LEMMA AckKept ==
    ASSUME TypeOK, AckInv, sendItems' = sendItems, made' \in Nat, made <= made',
           peer'.got \in Nat, peer.got <= peer'.got
    PROVE  AckInv'
  <1>1. ASSUME NEW i \in DOMAIN sendItems
        PROVE  sendItems[i].ack <= peer'.got /\ sendItems[i].ack <= made'
    <2>a. sendItems[i] \in Segments
      BY DEF TypeOK, PeerType
    <2>1. sendItems[i].ack \in Nat
      BY <2>a DEF Segments
    <2>2. sendItems[i].ack <= peer.got /\ sendItems[i].ack <= made
      BY DEF AckInv
    <2>3. peer.got \in Nat /\ made \in Nat
      BY Fields
    <2> QED BY <2>1, <2>2, <2>3
  <1> QED BY <1>1 DEF AckInv

LEMMA AckTaken ==
    ASSUME TypeOK, AckInv, sendItems # <<>>, sendItems' = Tail(sendItems), made' \in Nat,
           made <= made', peer' = peer
    PROVE  AckInv'
  <1>0. sendItems \in Seq(Segments) /\ made \in Nat /\ peer.got \in Nat
    BY Fields DEF TypeOK, PeerType
  <1>1. /\ Len(sendItems) \in Nat \ {0} /\ DOMAIN sendItems = 1 .. Len(sendItems)
        /\ DOMAIN sendItems' = 1 .. Len(sendItems) - 1
        /\ \A k \in DOMAIN sendItems' : sendItems'[k] = sendItems[k + 1] /\ k + 1 \in DOMAIN sendItems
    BY ONLY <1>0, sendItems # <<>>, sendItems' = Tail(sendItems), Taken
  <1>2. ASSUME NEW k \in DOMAIN sendItems'
        PROVE  sendItems'[k].ack <= peer'.got /\ sendItems'[k].ack <= made'
    <2>1. sendItems[k + 1] \in Segments
      BY <1>0, <1>1
    <2>2. sendItems[k + 1].ack \in Nat
      BY <2>1 DEF Segments
    <2>3. sendItems[k + 1].ack <= peer.got /\ sendItems[k + 1].ack <= made
      BY <1>1 DEF AckInv
    <2> QED BY <1>0, <1>1, <2>2, <2>3
  <1>3. ASSUME NEW i \in DOMAIN sendItems', NEW j \in DOMAIN sendItems', i < j
        PROVE  sendItems'[i].ack <= sendItems'[j].ack
    <2>1. i + 1 < j + 1
      BY <1>1, <1>3
    <2>2. sendItems[i + 1].ack <= sendItems[j + 1].ack
      BY <1>1, <2>1 DEF AckInv
    <2> QED BY <1>1, <2>2
  <1> QED BY <1>2, <1>3 DEF AckInv

LEMMA AckStep ==
    ASSUME IInv, Next
    PROVE  AckInv'
  <1>0. /\ TypeOK /\ AckInv /\ StartInv /\ PacketInv /\ TypeOK'
    BY TypeStep DEF IInv
  <1>a. /\ made \in Nat /\ peer.got \in Nat /\ made' \in Nat /\ peer'.got \in Nat
        /\ peer \in [next : Nat, got : Nat] /\ reader.n \in Nat
    BY <1>0, Fields DEF TypeOK, PeerType, ReadType
  <1>1. CASE PeerSyn \/ PeerSegment
    <2>1. PICK x \in Segments :
             /\ sendItems' = Append(sendItems, x) /\ x.ack = peer.got
             /\ peer' = [peer EXCEPT !.next =
                           Max({peer.next, x.from + x.len
                                           + (IF x.syn \/ x.fin THEN 1 ELSE 0)})]
      BY <1>0, <1>1, PeerSends
    <2>2. made' = made /\ ~ctxDone /\ peer'.got = peer.got
      BY <1>0, <1>1, <1>a, <2>1, PeerSends
    <2>3. peer.got <= made
      BY <1>0, <2>2, GotMade
    <2>4. sendItems \in Seq(Segments)
      BY <1>0 DEF TypeOK, PeerType
    <2>5. /\ Len(sendItems) \in Nat /\ DOMAIN sendItems = 1 .. Len(sendItems)
          /\ DOMAIN sendItems' = 1 .. Len(sendItems) + 1
          /\ \A k \in DOMAIN sendItems : sendItems'[k] = sendItems[k]
          /\ sendItems'[Len(sendItems) + 1] = x
      BY ONLY <2>1, <2>4, Added
    <2>6. \A k \in DOMAIN sendItems' : sendItems'[k].ack <= peer.got
      BY <1>0, <1>a, <2>1, <2>5 DEF AckInv
    <2>7. \A k \in DOMAIN sendItems' : sendItems'[k].ack <= made
      BY <1>0, <1>a, <2>1, <2>3, <2>5 DEF AckInv
    <2>8. ASSUME NEW i \in DOMAIN sendItems', NEW j \in DOMAIN sendItems', i < j
          PROVE  sendItems'[i].ack <= sendItems'[j].ack
      <3>1. CASE j = Len(sendItems) + 1
        BY <2>1, <2>5, <2>6, <3>1
      <3>2. CASE j # Len(sendItems) + 1
        <4>1. i \in DOMAIN sendItems /\ j \in DOMAIN sendItems
          BY <2>5, <2>8, <3>2
        <4> QED BY <1>0, <2>5, <2>8, <4>1 DEF AckInv
      <3> QED BY <3>1, <3>2
    <2> QED BY <2>2, <2>6, <2>7, <2>8 DEF AckInv
  <1>2. CASE TakeSyn \/ TakeItem
    <2>1. sendItems # <<>> /\ sendItems' = Tail(sendItems) /\ peer' = peer
      BY <1>2 DEF TakeSyn, TakeItem
    <2>2. made <= made'
      BY <1>0, <1>2, <1>a DEF TakeSyn, TakeItem, StartInv
    <2> QED BY <1>0, <1>a, <2>1, <2>2, AckTaken
  <1>3. CASE RunEnds
    BY <1>3 DEF RunEnds, AckInv
  <1>4. CASE Dial
    <2>1. /\ sendItems' = sendItems /\ made' = made /\ peer.got <= peer'.got
      BY <1>0, <1>4, <1>a DEF Dial, seenVars, StartInv
    <2> QED BY <1>0, <1>a, <2>1, AckKept
  <1>5. CASE Forward
    <2>1. /\ sendItems' = sendItems /\ made' = made
      BY <1>5 DEF Forward
    <2>2. Head(readPackets).len \in Nat
      BY <1>0, <1>5, Taken DEF Forward, TypeOK, ReadType, Packets
    <2>3. peer.got <= peer'.got
      BY <1>5, <1>a, <2>2 DEF Forward
    <2> QED BY <1>0, <1>a, <2>1, <2>3, AckKept
  <1>6. CASE ReaderLocks \/ ReaderMakesFin
    <2>1. /\ sendItems' = sendItems /\ peer' = peer /\ made <= made'
      BY <1>6, <1>a DEF ReaderLocks, ReaderMakesFin, peerVars
    <2> QED BY <1>0, <1>a, <2>1, AckKept
  <1>7. CASE Cancel \/ RunStops \/ RunIdles \/ TakeFin \/ PushPayload \/ AdvanceSendSeq
               \/ CloseWrites \/ Broadcast \/ CloseSocket \/ WriterTakes \/ Write \/ WriterEnds
    <2>1. sendItems' = sendItems /\ peer' = peer /\ made' = made
      BY <1>7 DEF Cancel, RunStops, RunIdles, TakeFin, PushPayload, AdvanceSendSeq, CloseWrites,
                  Broadcast, CloseSocket, WriterTakes, Write, WriterEnds, peerVars, seenVars
    <2> QED BY <1>0, <1>a, <2>1, AckKept
  <1>8. CASE Read \/ ReaderQueues \/ ReaderQueuesFin \/ ReaderEnds \/ ReaderQueuesRst
               \/ ReaderCloses \/ ForwarderEnds \/ AckerLocks \/ AckerAcks
    <2>1. sendItems' = sendItems /\ peer' = peer /\ made' = made
      BY <1>8 DEF Read, ReaderQueues, ReaderQueuesFin, ReaderEnds, ReaderQueuesRst, ReaderCloses,
                  ForwarderEnds, AckerLocks, AckerAcks, peerVars, seenVars
    <2> QED BY <1>0, <1>a, <2>1, AckKept
  <1> QED BY <1>1, <1>2, <1>3, <1>4, <1>5, <1>6, <1>7, <1>8 DEF Next

-----------------------------------------------------------------------------
(* The window.                                                             *)

\* Steps that leave the window alone.
LEMMA WindowKept ==
    ASSUME TypeOK, TypeOK', WindowInv, scenario' = scenario, made' = made,
           peer.got <= peer'.got, conn'.receiveSeqAck = conn.receiveSeqAck,
           conn'.receiveWindowSize = conn.receiveWindowSize, offer' = offer,
           \A i \in DOMAIN sendItems' :
              \/ sendItems'[i].ack = peer.got
              \/ \E j \in DOMAIN sendItems : sendItems'[i] = sendItems[j],
           reader'.pc = "wait" => reader.pc = "wait" /\ reader'.n = reader.n
    PROVE  WindowInv'
  <1>1. ASSUME NEW a \in Nat, WindowAt(a)
        PROVE  WindowAt(a)'
    <2>1. a <= peer'.got
      <3>1. peer.got \in Nat /\ peer'.got \in Nat /\ a <= peer.got
        BY <1>1, Fields DEF WindowAt, TypeOK, PeerType
      <3> QED BY <3>1
    <2>2. \A i \in DOMAIN sendItems' : a <= sendItems'[i].ack
      BY <1>1 DEF WindowAt
    <2>3. NumberOf(a)' = NumberOf(a) /\ Wraps' = Wraps
      BY DEF NumberOf, Wraps
    <2> QED BY <1>1, <2>1, <2>2, <2>3 DEF WindowAt
  <1>2. made' > 0 => \E a \in Nat : WindowAt(a)'
    BY <1>1 DEF WindowInv
  <1>3. Wraps' = Wraps
    BY DEF Wraps
  <1> QED BY <1>2, <1>3 DEF WindowInv

\* The window when a segment is taken.
LEMMA WindowTaken ==
    ASSUME IInv, TakeItem, ~Retransmit(Head(sendItems))
    PROVE  WindowInv'
  <1>0. /\ TypeOK /\ TypeOK' /\ MadeInv /\ AckInv /\ WindowInv /\ scenario' = scenario
    BY TypeStep, SameScenario DEF IInv, Next
  <1> DEFINE item == Head(sendItems)
  <1>a. sendItems # <<>> /\ sendItems' = Tail(sendItems) /\ sendItems \in Seq(Segments)
    BY <1>0 DEF TakeItem, TypeOK, PeerType
  <1>b. /\ item \in Segments /\ item = sendItems[1] /\ 1 \in DOMAIN sendItems
        /\ DOMAIN sendItems = 1 .. Len(sendItems)
        /\ \A k \in DOMAIN sendItems' : /\ sendItems'[k] = sendItems[k + 1]
                                        /\ k + 1 \in DOMAIN sendItems
        /\ DOMAIN sendItems' = 1 .. Len(sendItems) - 1 /\ Len(sendItems) \in Nat \ {0}
    BY ONLY <1>a, Taken
  <1>c. item.ack \in Nat /\ item.window \in Nat /\ item.ack <= made /\ item.ack <= peer.got
    BY <1>0, <1>b DEF Segments, AckInv
  <1>d. \A i \in DOMAIN sendItems' : item.ack <= sendItems'[i].ack
    <2>1. TAKE i \in DOMAIN sendItems'
    <2>2. 1 < i + 1
      BY <1>b
    <2>3. sendItems[1].ack <= sendItems[i + 1].ack
      BY <1>0, <1>b, <2>2 DEF AckInv
    <2> QED BY <1>b, <2>3
  <1> HIDE DEF item
  <1>1. /\ made' = made /\ peer' = peer
        /\ offer' = [last |-> item.ack + item.window,
                     ever |-> Max({offer.ever, item.ack + item.window})]
    BY DEF TakeItem, item
  <1>2. /\ made \in Nat /\ offer.ever \in Nat /\ peer.got \in Nat /\ scenario.remoteBytes \in Nat
        /\ scenario \in Scenarios /\ SeqSpace \in Nat /\ scenario.remoteBytes + 2 < SeqSpace
        /\ scenario.isn \in Nat
    BY <1>0, Fields, Bounds
  <1>3. PICK w \in Nat : w = item.ack + item.window
    BY <1>c
  <1>4. Max({offer.ever, w}) = IF offer.ever >= w THEN offer.ever ELSE w
    BY ONLY <1>2, <1>3, OfTwo
  <1>5. /\ offer'.last = w /\ offer'.ever \in Nat /\ offer.ever <= offer'.ever
        /\ w <= offer'.ever
    <2>1. offer'.last = w /\ offer'.ever = Max({offer.ever, w})
      BY <1>1, <1>3
    <2> QED BY <1>2, <1>3, <1>4, <2>1
  <1>6. \A p \in 2 .. scenario'.remoteBytes + 1 : p <= made' => p <= offer'.ever
    <2>1. \A p \in 2 .. scenario.remoteBytes + 1 : p <= made => p <= offer.ever
      BY <1>0 DEF WindowInv
    <2> QED BY <1>0, <1>1, <1>2, <1>5, <2>1
  <1>7. Wraps' = Wraps /\ (\A p : NumberOf(p)' = NumberOf(p))
    BY <1>0 DEF Wraps, NumberOf
  <1>8. CASE AcksFurther(item)
    <2>1. /\ conn'.receiveSeqAck = NumberOf(item.ack)
          /\ conn'.receiveWindowSize = item.window
          /\ reader' = WakeReader
      BY <1>0, <1>8 DEF TakeItem, item, TypeOK, RunTypeOK, ConnType
    <2>a. PICK a \in Nat : a = item.ack
      BY <1>c
    <2>2. WindowAt(a)'
      BY <1>1, <1>3, <1>5, <1>7, <1>c, <1>d, <2>1, <2>a DEF WindowAt
    <2>3. reader'.pc # "wait"
      BY <1>0, <2>1 DEF WakeReader, TypeOK, ReadType, ReaderType
    <2> QED BY <1>6, <2>2, <2>3 DEF WindowInv
  <1>9. CASE ~AcksFurther(item)
    <2>1. UNCHANGED <<conn, reader>>
      BY <1>9 DEF TakeItem, item
    <2>2. made > 0
      BY <1>0, <1>2 DEF TakeItem, MadeInv
    <2>3. PICK a \in Nat : WindowAt(a)
      BY <1>0, <2>2 DEF WindowInv
    <2>4. a <= item.ack
      BY <1>b, <2>3 DEF WindowAt
    <2>5. Wraps
      <3>1. SUFFICES ASSUME ~Wraps PROVE FALSE
        OBVIOUS
      <3>2. scenario.isn + scenario.remoteBytes + 2 < SeqSpace
        BY <1>2, <3>1 DEF Wraps
      <3>3. made <= scenario.remoteBytes + 2
        BY <1>0 DEF MadeInv
      <3>4. scenario.isn + item.ack < SeqSpace /\ scenario.isn + a < SeqSpace
        BY <1>2, <1>c, <2>4, <3>2, <3>3
      <3>5. item.ack < SeqSpace /\ a < SeqSpace
        BY <1>2, <1>c, <3>4
      <3>6. NumberOf(item.ack) = scenario.isn + item.ack /\ NumberOf(a) = scenario.isn + a
        BY <1>2, <1>c, <3>4, <3>5, NumberIs
      <3>7. conn.receiveSeqAck = NumberOf(a)
        BY <2>3 DEF WindowAt
      <3> QED BY <1>2, <1>9, <1>c, <2>4, <3>6, <3>7 DEF AcksFurther
    <2>6. WindowAt(a)'
      <3>1. /\ a <= made /\ a <= peer.got /\ conn.receiveSeqAck = NumberOf(a)
            /\ a + conn.receiveWindowSize <= offer.ever
        BY <2>3 DEF WindowAt
      <3>2. a + conn.receiveWindowSize <= offer'.ever
        <4>1. conn.receiveWindowSize \in Nat
          BY <1>0, Fields
        <4> QED BY <1>2, <1>5, <3>1, <4>1
      <3>3. \A i \in DOMAIN sendItems' : a <= sendItems'[i].ack
        BY <1>b, <2>3 DEF WindowAt
      <3> QED BY <1>1, <1>7, <2>1, <2>5, <3>1, <3>2, <3>3 DEF WindowAt
    <2> QED BY <1>6, <1>7, <2>5, <2>6 DEF WindowInv
  <1> QED BY <1>8, <1>9

LEMMA WindowStep ==
    ASSUME IInv, Next
    PROVE  WindowInv'
  <1>0. /\ TypeOK /\ TypeOK' /\ StartInv /\ MadeInv /\ AckInv /\ WindowInv
        /\ scenario' = scenario
    BY TypeStep, SameScenario DEF IInv
  <1>a. /\ made \in Nat /\ peer.got \in Nat /\ made' \in Nat /\ peer'.got \in Nat
        /\ peer \in [next : Nat, got : Nat] /\ reader.n \in Nat /\ offer.ever \in Nat
        /\ sendItems \in Seq(Segments) /\ conn \in ConnType /\ reader \in ReaderType
        /\ scenario \in Scenarios /\ conn.receiveWindowSize \in Nat
    BY <1>0, Fields DEF TypeOK, PeerType, RunTypeOK, ReadType
  <1>b. /\ scenario.remoteBytes \in Nat /\ SeqSpace \in Nat
        /\ scenario.remoteBytes + 2 < SeqSpace
    BY <1>a, Bounds
  <1>c. Wraps' = Wraps /\ (\A p : NumberOf(p)' = NumberOf(p))
    BY <1>0 DEF Wraps, NumberOf
  <1>1. CASE PeerSyn \/ PeerSegment
    <2>1. PICK x \in Segments :
             /\ sendItems' = Append(sendItems, x) /\ x.ack = peer.got
             /\ peer' = [peer EXCEPT !.next =
                           Max({peer.next, x.from + x.len
                                           + (IF x.syn \/ x.fin THEN 1 ELSE 0)})]
      BY <1>0, <1>1, PeerSends
    <2>2. UNCHANGED <<made, offer, conn, reader>> /\ peer'.got = peer.got
      BY <1>0, <1>1, <1>a, <2>1, PeerSends
    <2>3. /\ Len(sendItems) \in Nat /\ DOMAIN sendItems = 1 .. Len(sendItems)
          /\ DOMAIN sendItems' = 1 .. Len(sendItems) + 1
          /\ \A k \in DOMAIN sendItems : sendItems'[k] = sendItems[k]
          /\ sendItems'[Len(sendItems) + 1] = x
      BY ONLY <1>a, <2>1, Added
    <2>4. \A i \in DOMAIN sendItems' :
              \/ sendItems'[i].ack = peer.got
              \/ \E j \in DOMAIN sendItems : sendItems'[i] = sendItems[j]
      BY <2>1, <2>3
    <2> QED BY <1>0, <1>a, <2>2, <2>4, WindowKept
  <1>2. CASE TakeSyn /\ Head(sendItems).syn
    <2> DEFINE item == Head(sendItems)
    <2>1. item \in Segments /\ sendItems' \in Seq(Segments)
      BY <1>2, <1>a, Taken DEF TakeSyn
    <2>2. item.window \in Nat
      BY <2>1 DEF Segments
    <2>3. \A i \in DOMAIN sendItems' : 0 <= sendItems'[i].ack
      <3>1. TAKE i \in DOMAIN sendItems'
      <3>2. sendItems'[i] \in Segments
        BY <2>1
      <3> QED BY <3>2 DEF Segments
    <2> HIDE DEF item
    <2>4. /\ made' = 1 /\ peer' = peer /\ reader' = reader /\ run.pc = "syn"
          /\ conn'.receiveSeqAck = NumberOf(0) /\ conn'.receiveWindowSize = item.window
          /\ offer' = [last |-> item.window, ever |-> item.window]
      BY <1>2, <1>a DEF TakeSyn, item, readerVars, ConnType
    <2>5. reader'.pc = "none"
      BY <1>0, <2>4 DEF StartInv
    <2>6. WindowAt(0)'
      <3>1. offer'.last = item.window /\ offer'.ever = item.window
        BY <2>4
      <3>2. conn'.receiveSeqAck = NumberOf(0)'
        BY <1>c, <2>4
      <3> QED BY <1>a, <2>2, <2>3, <2>4, <3>1, <3>2 DEF WindowAt
    <2>7. \A p \in 2 .. scenario'.remoteBytes + 1 : ~(p <= made')
      BY <1>0, <1>b, <2>4
    <2> QED BY <2>5, <2>6, <2>7 DEF WindowInv
  <1>3. CASE (TakeSyn /\ ~Head(sendItems).syn) \/ (TakeItem /\ Retransmit(Head(sendItems)))
    <2>1. /\ UNCHANGED <<made, offer, conn, reader, peer>>
          /\ sendItems # <<>> /\ sendItems' = Tail(sendItems)
      BY <1>3 DEF TakeSyn, TakeItem, readerVars
    <2>2. \A i \in DOMAIN sendItems' :
              \E j \in DOMAIN sendItems : sendItems'[i] = sendItems[j]
      BY <1>a, <2>1, Taken
    <2> QED BY <1>0, <1>a, <2>1, <2>2, WindowKept
  <1>4. CASE TakeItem /\ ~Retransmit(Head(sendItems))
    BY <1>4, WindowTaken
  <1>5. CASE Dial
    <2>1. /\ UNCHANGED <<sendItems, made, offer>> /\ reader'.pc = "read" /\ peer'.got = 1
          /\ conn'.receiveSeqAck = conn.receiveSeqAck
          /\ conn'.receiveWindowSize = conn.receiveWindowSize /\ peer.got = 0
      BY <1>0, <1>5, <1>a DEF Dial, seenVars, StartInv, ReaderType, ConnType
    <2> QED BY <1>0, <2>1, WindowKept
  <1>6. CASE Forward
    <2>1. UNCHANGED <<sendItems, made, offer, conn, reader>>
      BY <1>6 DEF Forward, readerVars
    <2>2. Head(readPackets).len \in Nat
      BY <1>0, <1>6, Taken DEF Forward, TypeOK, ReadType, Packets
    <2>3. peer.got <= peer'.got
      BY <1>6, <1>a, <2>2 DEF Forward
    <2> QED BY <1>0, <2>1, <2>3, WindowKept
  <1>7. CASE RunEnds
    <2>1. UNCHANGED <<peer, made, offer, conn, reader>> /\ DOMAIN sendItems' = {}
      BY <1>7 DEF RunEnds, seenVars, readerVars
    <2> QED BY <1>0, <1>a, <2>1, WindowKept
  <1>8. CASE Broadcast
    <2>1. UNCHANGED <<peer, sendItems, made, offer, conn>> /\ reader' = WakeReader
      BY <1>8 DEF Broadcast, seenVars, peerVars
    <2>2. reader'.pc # "wait"
      BY <1>a, <2>1 DEF WakeReader, ReaderType
    <2> QED BY <1>0, <1>a, <2>1, <2>2, WindowKept
  <1>9. CASE ReaderLocks
    <2>0. /\ reader.pc = "lock" /\ UNCHANGED <<peer, sendItems, offer>>
      BY <1>9 DEF ReaderLocks, peerVars
    <2>1. /\ made > 0 /\ reader.n > 0
          /\ conn.receiveSeq = NumberOf(made)
          /\ made + reader.n + remoteLeft = scenario.remoteBytes + 1
      BY <1>0, <1>a, <2>0 DEF MadeInv
    <2>2. made + reader.n < SeqSpace
      <3>1. remoteLeft \in Nat
        BY <1>0, Fields
      <3> QED BY ONLY <1>a, <1>b, <2>1, <3>1
    <2>3. PICK a \in Nat : WindowAt(a)
      BY <1>0, <2>1 DEF WindowInv
    <2>4. /\ a <= made /\ a <= peer.got /\ conn.receiveSeqAck = NumberOf(a)
          /\ a + conn.receiveWindowSize <= offer.ever
          /\ ~Wraps => offer.last = a + conn.receiveWindowSize
          /\ \A i \in DOMAIN sendItems : a <= sendItems[i].ack
      BY <2>3 DEF WindowAt
    <2>5. WindowFull(reader.n) <=> a + conn.receiveWindowSize < made + reader.n
      BY ONLY <1>a, <2>1, <2>2, <2>4, a \in Nat, WindowFullIs
    <2>6. CASE ctxDone
      <3>1. UNCHANGED <<conn, made>> /\ reader'.pc = "end"
        BY <1>9, <1>a, <2>6 DEF ReaderLocks, ReaderType
      <3> QED BY <1>0, <1>a, <2>0, <3>1, WindowKept
    <2>7. CASE ~ctxDone /\ WindowFull(reader.n)
      <3>1. UNCHANGED <<conn, made>> /\ reader'.pc = "wait" /\ reader'.n = reader.n
        BY <1>9, <1>a, <2>7 DEF ReaderLocks, ReaderType
      <3>2. WindowAt(a)'
        BY <1>c, <2>0, <2>4, <3>1 DEF WindowAt
      <3>3. ~Wraps => made + reader.n > offer.last
        BY <1>a, <2>4, <2>5, <2>7
      <3>4. \A p \in 2 .. scenario'.remoteBytes + 1 : p <= made' => p <= offer'.ever
        BY <1>0, <2>0, <3>1 DEF WindowInv
      <3> QED BY <1>c, <2>0, <3>1, <3>2, <3>3, <3>4 DEF WindowInv
    <2>8. CASE ~ctxDone /\ ~WindowFull(reader.n)
      <3>1. /\ made' = made + reader.n /\ conn'.receiveSeqAck = conn.receiveSeqAck
            /\ conn'.receiveWindowSize = conn.receiveWindowSize
            /\ reader' = [reader EXCEPT !.pc = "queue", !.n = 0,
                                        !.packets = DataPackets(reader.n)]
        BY <1>9, <1>a, <2>8 DEF ReaderLocks, ConnType
      <3>2. reader'.pc = "queue"
        <4>1. PICK ps : ps = DataPackets(reader.n)
          OBVIOUS
        <4>2. reader' = [reader EXCEPT !.pc = "queue", !.n = 0, !.packets = ps]
          BY <3>1, <4>1
        <4> QED BY ONLY <1>a, <4>2 DEF ReaderType
      <3>3. a <= made' /\ made' <= offer.ever
        BY <1>a, <2>4, <2>5, <2>8, <3>1
      <3>4. WindowAt(a)'
        BY <1>c, <2>0, <2>4, <3>1, <3>3 DEF WindowAt
      <3>5. \A p \in 2 .. scenario'.remoteBytes + 1 : p <= made' => p <= offer'.ever
        BY <1>0, <1>a, <1>b, <2>0, <3>3
      <3> QED BY <3>2, <3>4, <3>5 DEF WindowInv
    <2> QED BY <2>6, <2>7, <2>8
  <1>10. CASE ReaderMakesFin
    <2>0. /\ reader.pc = "eof" /\ UNCHANGED <<peer, sendItems, offer>> /\ made' = made + 1
          /\ conn'.receiveSeqAck = conn.receiveSeqAck
          /\ conn'.receiveWindowSize = conn.receiveWindowSize
      BY <1>10, <1>a DEF ReaderMakesFin, peerVars, ConnType
    <2>1. /\ made > 0 /\ reader.n = 0 /\ remoteLeft = 0
          /\ made + reader.n + remoteLeft = scenario.remoteBytes + 1
      BY <1>0, <1>a, <2>0 DEF MadeInv
    <2>2. PICK a \in Nat : WindowAt(a)
      BY <1>0, <2>1 DEF WindowInv
    <2>3. reader'.pc = "fin"
      <3>1. PICK ps : ps = <<Packet("fin", conn.receiveSeq, 1)>>
        OBVIOUS
      <3>2. reader' = [reader EXCEPT !.pc = "fin", !.packets = ps]
        BY <1>10, <3>1 DEF ReaderMakesFin
      <3> QED BY ONLY <1>a, <3>2 DEF ReaderType
    <2>4. WindowAt(a)'
      <3>1. a <= made'
        BY <1>a, <2>0, <2>2 DEF WindowAt
      <3> QED BY <1>c, <2>0, <2>2, <3>1 DEF WindowAt
    <2>5. \A p \in 2 .. scenario'.remoteBytes + 1 : p <= made' => p <= offer'.ever
      <3>1. TAKE p \in 2 .. scenario'.remoteBytes + 1
      <3>2. p <= made /\ p \in 2 .. scenario.remoteBytes + 1
        BY <1>0, <1>a, <1>b, <2>1
      <3>3. p <= offer.ever
        BY <1>0, <3>2 DEF WindowInv
      <3> QED BY <2>0, <3>3
    <2> QED BY <2>3, <2>4, <2>5 DEF WindowInv
  <1>11. CASE Cancel \/ RunStops \/ RunIdles \/ TakeFin \/ PushPayload \/ AdvanceSendSeq
                \/ CloseWrites \/ CloseSocket \/ WriterTakes \/ Write \/ WriterEnds
    <2>1. /\ UNCHANGED <<peer, sendItems, made, offer, reader>>
          /\ conn'.receiveSeqAck = conn.receiveSeqAck
          /\ conn'.receiveWindowSize = conn.receiveWindowSize
      BY <1>11, <1>a DEF Cancel, RunStops, RunIdles, TakeFin, PushPayload, AdvanceSendSeq,
                  CloseWrites, CloseSocket, WriterTakes, Write, WriterEnds, peerVars, readerVars,
                  seenVars, ConnType
    <2> QED BY <1>0, <1>a, <2>1, WindowKept
  <1>12. CASE Read \/ ReaderQueues \/ ReaderQueuesFin \/ ReaderEnds \/ ReaderQueuesRst
               \/ ReaderCloses
    <2>1. UNCHANGED <<peer, sendItems, made, offer, conn>>
      BY <1>12 DEF Read, ReaderQueues, ReaderQueuesFin, ReaderEnds, ReaderQueuesRst,
                   ReaderCloses, peerVars, seenVars
    <2>2. reader'.pc # "wait"
      <3>1. CASE Read
        BY <1>a, <3>1 DEF Read, ReaderType
      <3>2. CASE ReaderQueues
        <4>1. PICK ps : ps = Tail(reader.packets)
          OBVIOUS
        <4>2. reader' = [reader EXCEPT !.packets = ps,
                                       !.pc = IF Len(reader.packets) = 1 THEN "read" ELSE "queue"]
          BY <3>2, <4>1 DEF ReaderQueues
        <4> QED BY ONLY <1>a, <4>2 DEF ReaderType
      <3>3. CASE ReaderQueuesFin
        BY <1>a, <3>3 DEF ReaderQueuesFin, ReaderType
      <3>4. CASE ReaderEnds \/ ReaderQueuesRst \/ ReaderCloses
        BY <1>a, <3>4 DEF ReaderEnds, ReaderQueuesRst, ReaderCloses, ReaderType
      <3> QED BY <1>12, <3>1, <3>2, <3>3, <3>4
    <2> QED BY <1>0, <1>a, <2>1, <2>2, WindowKept
  <1>13. CASE ForwarderEnds \/ AckerLocks \/ AckerAcks
    <2>1. /\ UNCHANGED <<peer, sendItems, made, offer, reader>>
          /\ conn'.receiveSeqAck = conn.receiveSeqAck
          /\ conn'.receiveWindowSize = conn.receiveWindowSize
      BY <1>13, <1>a DEF ForwarderEnds, AckerLocks, AckerAcks, peerVars, readerVars, seenVars,
                         ConnType
    <2> QED BY <1>0, <1>a, <2>1, WindowKept
  <1> QED BY <1>1, <1>2, <1>3, <1>4, <1>5, <1>6, <1>7, <1>8, <1>9, <1>10, <1>11, <1>12, <1>13
          DEF Next

-----------------------------------------------------------------------------
(* The packets for the peer.                                               *)

LEMMA SpansNothing ==
    ASSUME NEW a \in Nat
    PROVE  /\ Spans(<<>>, a, a)
           /\ \A b : Spans(<<>>, a, b) => a = b
  <1>0. PICK q : q = <<>> /\ Len(q) = 0 /\ DOMAIN q = {}
    OBVIOUS
  <1>1. Spans(q, a, a)
    <2>a. a \in 0 .. a
      OBVIOUS
    <2>b. [i \in 1 .. Len(q) + 1 |-> a] \in [1 .. Len(q) + 1 -> 0 .. a]
      BY <2>a
    <2>1. PICK f \in [1 .. Len(q) + 1 -> 0 .. a] : f = [i \in 1 .. Len(q) + 1 |-> a]
      BY <2>b
    <2>2. f[1] = a /\ f[Len(q) + 1] = a
      BY <1>0, <2>1
    <2> QED BY <1>0, <2>2 DEF Spans
  <1>2. ASSUME NEW b, Spans(q, a, b)
        PROVE  a = b
    BY <1>0, <1>2 DEF Spans
  <1> QED BY <1>0, <1>1, <1>2

LEMMA SpansTail ==
    ASSUME NEW q \in Seq(Packets), q # <<>>, NEW a \in Nat, NEW b \in Nat, Spans(q, a, b)
    PROVE  /\ q[1].seq = NumberOf(a) /\ a + q[1].len \in Nat
           /\ Spans(Tail(q), a + q[1].len, b)
  <1>1. PICK f \in [1 .. Len(q) + 1 -> 0 .. b] :
           /\ f[1] = a /\ f[Len(q) + 1] = b
           /\ \A k \in DOMAIN q : q[k].seq = NumberOf(f[k]) /\ f[k + 1] = f[k] + q[k].len
    BY DEF Spans
  <1>2. PICK t : t = Tail(q)
    OBVIOUS
  <1>3. PICK n \in Nat \ {0} : n = Len(q)
    OBVIOUS
  <1>4. /\ t \in Seq(Packets) /\ Len(t) = n - 1 /\ DOMAIN t = 1 .. n - 1 /\ DOMAIN q = 1 .. n
        /\ \A k \in DOMAIN t : t[k] = q[k + 1] /\ k + 1 \in DOMAIN q
        /\ 1 \in DOMAIN q
    BY <1>2, <1>3, Taken
  <1>5. PICK g : g = [i \in 1 .. n |-> f[i + 1]]
    OBVIOUS
  <1>6. \A i \in 1 .. n : i + 1 \in 1 .. n + 1 /\ g[i] = f[i + 1] /\ g[i] \in 0 .. b
    BY <1>1, <1>3, <1>5
  <1>7. /\ DOMAIN g = 1 .. n /\ 1 \in 1 .. n /\ n \in 1 .. n
    BY <1>5
  <1>8. g \in [1 .. n -> 0 .. b]
    BY <1>5, <1>6
  <1>9. /\ q[1].seq = NumberOf(a) /\ g[1] = a + q[1].len /\ g[n] = b
    <2>1. q[1].seq = NumberOf(f[1]) /\ f[1 + 1] = f[1] + q[1].len
      BY <1>1, <1>4
    <2> QED BY <1>1, <1>3, <1>6, <1>7, <2>1
  <1>10. \A k \in DOMAIN t : t[k].seq = NumberOf(g[k]) /\ g[k + 1] = g[k] + t[k].len
    <2>1. TAKE k \in DOMAIN t
    <2>2. k \in 1 .. n /\ k + 1 \in 1 .. n
      BY <1>4
    <2>3. g[k] = f[k + 1] /\ g[k + 1] = f[k + 1 + 1]
      BY <1>6, <2>2
    <2>4. q[k + 1].seq = NumberOf(f[k + 1]) /\ f[k + 1 + 1] = f[k + 1] + q[k + 1].len
      BY <1>1, <1>4
    <2> QED BY <1>4, <2>3, <2>4
  <1>11. Len(t) + 1 = n
    BY <1>4
  <1>12. Spans(t, a + q[1].len, b)
    BY <1>8, <1>9, <1>10, <1>11 DEF Spans
  <1>13. a + q[1].len \in Nat
    BY <1>6, <1>7, <1>9
  <1> QED BY <1>2, <1>9, <1>12, <1>13

LEMMA SpansAppend ==
    ASSUME NEW q \in Seq(Packets), NEW x \in Packets, NEW a \in Nat, NEW b \in Nat,
           Spans(q, a, b), x.seq = NumberOf(b)
    PROVE  Spans(Append(q, x), a, b + x.len)
  <1>1. PICK f \in [1 .. Len(q) + 1 -> 0 .. b] :
           /\ f[1] = a /\ f[Len(q) + 1] = b
           /\ \A k \in DOMAIN q : q[k].seq = NumberOf(f[k]) /\ f[k + 1] = f[k] + q[k].len
    BY DEF Spans
  <1>2. PICK t : t = Append(q, x)
    OBVIOUS
  <1>3. PICK n \in Nat : n = Len(q)
    OBVIOUS
  <1>4. /\ Len(t) = n + 1 /\ DOMAIN t = 1 .. n + 1 /\ DOMAIN q = 1 .. n
        /\ \A k \in DOMAIN q : t[k] = q[k]
        /\ t[n + 1] = x
    BY <1>2, <1>3, Added
  <1>a. x.len \in Nat
    BY DEF Packets
  <1>5. PICK g : g = [i \in 1 .. n + 2 |-> IF i = n + 2 THEN b + x.len ELSE f[i]]
    OBVIOUS
  <1>6. \A i \in 1 .. n + 1 : g[i] = f[i] /\ f[i] \in 0 .. b /\ i # n + 2
    BY <1>1, <1>3, <1>5
  <1>7. g[n + 2] = b + x.len /\ DOMAIN g = 1 .. n + 2
    BY <1>5
  <1>8. g \in [1 .. n + 2 -> 0 .. b + x.len]
    <2>1. ASSUME NEW i \in 1 .. n + 2 PROVE g[i] \in 0 .. b + x.len
      <3>1. CASE i = n + 2
        BY <1>7, <1>a, <3>1
      <3>2. CASE i # n + 2
        <4>1. i \in 1 .. n + 1
          BY <3>2
        <4> QED BY <1>6, <1>a, <4>1
      <3> QED BY <3>1, <3>2
    <2> QED BY <1>5, <2>1
  <1>9. \A k \in DOMAIN t : t[k].seq = NumberOf(g[k]) /\ g[k + 1] = g[k] + t[k].len
    <2>1. TAKE k \in DOMAIN t
    <2>2. CASE k = n + 1
      <3>1. g[k] = b /\ g[k + 1] = b + x.len
        BY <1>1, <1>3, <1>6, <1>7, <2>2
      <3> QED BY <1>4, <2>2, <3>1
    <2>3. CASE k # n + 1
      <3>1. k \in DOMAIN q /\ k \in 1 .. n + 1 /\ k + 1 \in 1 .. n + 1
        BY <1>4, <2>3
      <3> QED BY <1>1, <1>4, <1>6, <3>1
    <2> QED BY <2>2, <2>3
  <1>10. g[1] = a /\ Len(t) + 1 = n + 2
    BY <1>1, <1>4, <1>6
  <1> QED BY <1>2, <1>7, <1>8, <1>9, <1>10 DEF Spans

\* PacketInv holds after a step.
LEMMA PacketsThen ==
    ASSUME scenario' = scenario, gap' => ctxDone', forwarder' = "none" => peer'.got = 0,
           NEW q, q = readPackets', NEW a, a = peer'.got, NEW m \in Nat,
           NEW r, r = reader'.packets, NEW b, b = made', Spans(q, a, m), Spans(r, m, b)
    PROVE  PacketInv'
  <1>1. \A p : NumberOf(p)' = NumberOf(p)
    BY SameNumbers
  <1>2. Spans(readPackets, peer.got, m)'
    BY <1>1 DEF Spans
  <1>3. Spans(reader.packets, m, made)'
    BY <1>1 DEF Spans
  <1> QED BY <1>2, <1>3 DEF PacketInv

\* Steps that move no packet.
LEMMA PacketKept ==
    ASSUME PacketInv, scenario' = scenario, UNCHANGED <<gap, forwarder, readPackets, made>>,
           ctxDone => ctxDone', peer'.got = peer.got, reader'.packets = reader.packets
    PROVE  PacketInv'
  <1>1. CASE ctxDone'
    BY <1>1 DEF PacketInv
  <1>2. CASE forwarder = "none" /\ ~ctxDone'
    BY <1>2 DEF PacketInv
  <1>3. CASE forwarder # "none" /\ ~ctxDone'
    <2>1. PICK m \in Nat : Spans(readPackets, peer.got, m) /\ Spans(reader.packets, m, made)
      BY <1>3 DEF PacketInv
    <2>2. gap' => ctxDone'
      BY DEF PacketInv
    <2> QED BY <1>3, <2>1, <2>2, PacketsThen
  <1> QED BY <1>1, <1>2, <1>3

\* The reader makes packets of what it read, and of the end of the stream.
LEMMA PacketsMade ==
    ASSUME IInv, ReaderLocks \/ ReaderMakesFin
    PROVE  PacketInv'
  <1>0. /\ TypeOK /\ MadeInv /\ PacketInv /\ StartInv /\ scenario' = scenario
        /\ reader \in ReaderType /\ conn \in ConnType
    BY SameScenario DEF IInv, Next, TypeOK, ReadType, RunTypeOK
  <1>a. /\ made \in Nat /\ remoteLeft \in Nat /\ reader.n \in Nat /\ peer.got \in Nat
        /\ scenario \in Scenarios /\ conn.receiveSeq \in Nat
    BY <1>0, Fields
  <1>b. /\ SeqSpace \in Nat /\ scenario.remoteBytes \in Nat
        /\ scenario.remoteBytes + 2 < SeqSpace
    BY <1>a, Bounds
  <1>c. /\ UNCHANGED <<gap, forwarder, readPackets, ctxDone, peer>>
        /\ reader.pc \in {"lock", "eof"}
    BY DEF ReaderLocks, ReaderMakesFin, forwardVars, peerVars
  <1>d. /\ reader.packets = <<>> /\ made > 0 /\ conn.receiveSeq = NumberOf(made)
        /\ made + reader.n + remoteLeft = scenario.remoteBytes + 1
        /\ forwarder # "none"
    BY <1>0, <1>a, <1>c DEF MadeInv, StartInv
  <1>e. gap' => ctxDone'
    BY <1>0, <1>c DEF PacketInv
  <1>1. CASE ctxDone
    BY <1>0, <1>1, <1>c, <1>d DEF PacketInv
  <1>2. CASE ~ctxDone
    <2>1. PICK m \in Nat : Spans(readPackets, peer.got, m) /\ Spans(reader.packets, m, made)
      BY <1>0, <1>2, <1>d DEF PacketInv
    <2>2. m = made
      BY <1>d, <2>1, SpansNothing
    <2>3. CASE ReaderLocks /\ WindowFull(reader.n)
      <3>1. made' = made /\ reader' = [reader EXCEPT !.pc = "wait"]
        BY <1>2, <2>3 DEF ReaderLocks
      <3>2. reader'.packets = reader.packets
        BY <1>0, <3>1 DEF ReaderType
      <3> QED BY <1>0, <1>c, <3>1, <3>2, PacketKept
    <2>4. CASE ReaderLocks /\ ~WindowFull(reader.n)
      <3>0. reader.n > 0
        BY <1>0, <2>4 DEF ReaderLocks, MadeInv
      <3>1. made + reader.n < SeqSpace
        BY ONLY <1>a, <1>b, <1>d
      <3>2. PICK s : s = DataPackets(reader.n)
        OBVIOUS
      <3>3. Spans(s, made, made + reader.n)
        BY <1>a, <1>d, <3>0, <3>1, <3>2, DataPacketsSpan
      <3>4. /\ made' = made + reader.n
            /\ reader' = [reader EXCEPT !.pc = "queue", !.n = 0, !.packets = s]
        BY <1>2, <2>4, <3>2 DEF ReaderLocks
      <3>5. reader'.packets = s
        BY ONLY <1>0, <3>4 DEF ReaderType
      <3>6. Spans(s, m, made')
        BY <2>2, <3>3, <3>4
      <3> QED BY <1>0, <1>c, <1>d, <1>e, <2>1, <3>5, <3>6, PacketsThen
    <2>5. CASE ReaderMakesFin
      <3>1. PICK x : x = Packet("fin", conn.receiveSeq, 1)
        OBVIOUS
      <3>2. x \in Packets /\ x.seq = NumberOf(made) /\ x.len = 1
        BY <1>a, <1>d, <3>1 DEF Packet, Packets
      <3>3. Spans(<<>>, made, made) /\ <<>> \in Seq(Packets)
        BY <1>a, SpansNothing
      <3>4. Spans(Append(<<>>, x), made, made + x.len)
        BY ONLY <1>a, <3>2, <3>3, SpansAppend
      <3>a. PICK q \in Seq(Packets) : q = <<>> /\ Len(q) = 0
        BY <3>3
      <3>b. PICK s : s = Append(q, x)
        OBVIOUS
      <3>c. s \in Seq(Packets) /\ Len(s) = 1 /\ s[1] = x
        BY <3>2, <3>a, <3>b, Added
      <3>d. s = <<s[1]>>
        BY <3>c
      <3>5. s = <<x>> /\ s = Append(<<>>, x)
        BY <3>a, <3>b, <3>c, <3>d
      <3>6. made' = made + 1 /\ reader' = [reader EXCEPT !.pc = "fin", !.packets = s]
        BY <2>5, <3>1, <3>5 DEF ReaderMakesFin
      <3>7. reader'.packets = s
        BY ONLY <1>0, <3>6 DEF ReaderType
      <3>8. Spans(s, m, made')
        BY <2>2, <3>2, <3>4, <3>5, <3>6
      <3> QED BY <1>0, <1>c, <1>d, <1>e, <2>1, <3>7, <3>8, PacketsThen
    <2> QED BY <2>3, <2>4, <2>5
  <1> QED BY <1>1, <1>2

\* The reader gives packets to the forwarder.
LEMMA PacketsQueued ==
    ASSUME IInv, ReaderQueues \/ ReaderQueuesFin \/ ReaderQueuesRst
    PROVE  PacketInv'
  <1>0. /\ TypeOK /\ MadeInv /\ PacketInv /\ StartInv /\ scenario' = scenario
        /\ reader \in ReaderType /\ readPackets \in Seq(Packets)
    BY SameScenario DEF IInv, Next, TypeOK, ReadType
  <1>a. /\ made \in Nat /\ peer.got \in Nat /\ conn.receiveSeq \in Nat
        /\ reader.packets \in Seq(Packets)
    BY <1>0, Fields
  <1>c. /\ UNCHANGED <<gap, forwarder, ctxDone, peer, made>>
        /\ reader.pc \in {"queue", "fin", "rst"}
    BY DEF ReaderQueues, ReaderQueuesFin, ReaderQueuesRst, peerVars, seenVars
  <1>d. made > 0 /\ forwarder # "none"
    BY <1>0, <1>a, <1>c DEF MadeInv, StartInv
  <1>e. gap' => ctxDone'
    BY <1>0, <1>c DEF PacketInv
  <1>1. CASE ctxDone
    BY <1>0, <1>1, <1>c, <1>d DEF PacketInv
  <1>2. CASE ~ctxDone
    <2>1. PICK m \in Nat : Spans(readPackets, peer.got, m) /\ Spans(reader.packets, m, made)
      BY <1>0, <1>2, <1>d DEF PacketInv
    <2>2. PICK s \in Seq(Packets) : s = reader.packets
      BY <1>a
    <2>3. CASE ReaderQueues \/ ReaderQueuesFin
      <3>1. s # <<>>
        <4>1. CASE ReaderQueues
          BY <1>0, <2>2, <4>1 DEF ReaderQueues, MadeInv
        <4>2. CASE ReaderQueuesFin
          <5>1. Len(s) = 1
            BY <1>0, <2>2, <4>2 DEF ReaderQueuesFin, MadeInv
          <5> QED BY <5>1
        <4> QED BY <2>3, <4>1, <4>2
      <3>2. /\ s[1].seq = NumberOf(m) /\ m + s[1].len \in Nat
            /\ Spans(Tail(s), m + s[1].len, made)
        BY ONLY <1>a, <2>1, <2>2, <3>1, m \in Nat, SpansTail
      <3>3. s[1] \in Packets /\ Head(s) = s[1]
        BY <3>1, Taken
      <3>4. PICK t : t = Tail(s)
        OBVIOUS
      <3>5. reader'.packets = t
        <4>1. CASE ReaderQueues
          <5>1. reader' = [reader EXCEPT !.packets = t,
                                  !.pc = IF Len(reader.packets) = 1 THEN "read" ELSE "queue"]
            BY <2>2, <3>4, <4>1 DEF ReaderQueues
          <5> QED BY ONLY <1>0, <5>1 DEF ReaderType
        <4>2. CASE ReaderQueuesFin
          <5>1. reader'.packets = <<>>
            BY <1>0, <4>2 DEF ReaderQueuesFin, ReaderType
          <5>2. Len(s) = 1
            BY <1>0, <2>2, <4>2 DEF ReaderQueuesFin, MadeInv
          <5>3. t \in Seq(Packets) /\ Len(t) = 0
            BY <3>1, <3>4, <5>2, Taken
          <5> QED BY <5>1, <5>3
        <4> QED BY <2>3, <4>1, <4>2
      <3>6. readPackets' = Append(readPackets, s[1])
        <4>1. CASE ReaderQueues
          BY <1>2, <2>2, <3>3, <4>1 DEF ReaderQueues
        <4>2. CASE ReaderQueuesFin
          <5>1. readPackets' = readPackets \o s
            BY <1>2, <2>2, <4>2 DEF ReaderQueuesFin
          <5>2. Len(s) = 1
            BY <1>0, <2>2, <4>2 DEF ReaderQueuesFin, MadeInv
          <5>3. s = <<s[1]>>
            BY <5>2
          <5>4. PICK x \in Packets : x = s[1]
            BY <3>3
          <5>5. readPackets \o <<x>> = Append(readPackets, x)
            BY <1>0
          <5> QED BY <5>1, <5>3, <5>4, <5>5
        <4> QED BY <2>3, <4>1, <4>2
      <3>7. Spans(Append(readPackets, s[1]), peer.got, m + s[1].len)
        BY ONLY <1>0, <1>a, <2>1, <3>2, <3>3, m \in Nat, SpansAppend
      <3>8. PICK d \in Nat : d = m + s[1].len
        BY <3>2
      <3>9. Spans(readPackets', peer.got, d) /\ Spans(t, d, made)
        BY <3>2, <3>4, <3>6, <3>7, <3>8
      <3> QED BY <1>0, <1>c, <1>d, <1>e, <3>5, <3>9, PacketsThen
    <2>4. CASE ReaderQueuesRst
      <3>1. /\ reader.packets = <<>> /\ conn.receiveSeq = NumberOf(made)
        BY <1>0, <1>a, <1>d, <2>4 DEF ReaderQueuesRst, MadeInv
      <3>2. m = made
        BY <2>1, <3>1, SpansNothing
      <3>3. PICK x : x = Packet("rst", conn.receiveSeq, 0)
        OBVIOUS
      <3>4. x \in Packets /\ x.seq = NumberOf(m) /\ x.len = 0
        BY <1>a, <3>1, <3>2, <3>3 DEF Packet, Packets
      <3>5. Spans(Append(readPackets, x), peer.got, m + x.len)
        BY ONLY <1>0, <1>a, <2>1, <3>4, m \in Nat, SpansAppend
      <3>6. readPackets' = Append(readPackets, x) /\ reader'.packets = reader.packets
        BY <1>0, <2>4, <3>3 DEF ReaderQueuesRst, ReaderType
      <3>7. m + x.len = m
        BY <3>4
      <3> QED BY <1>0, <1>c, <1>d, <1>e, <2>1, <3>5, <3>6, <3>7, PacketsThen
    <2> QED BY <2>3, <2>4
  <1> QED BY <1>1, <1>2

LEMMA PacketStep ==
    ASSUME IInv, Next
    PROVE  PacketInv'
  <1>0. /\ TypeOK /\ MadeInv /\ PacketInv /\ StartInv /\ scenario' = scenario
        /\ reader \in ReaderType /\ readPackets \in Seq(Packets)
        /\ peer \in [next : Nat, got : Nat]
    BY SameScenario DEF IInv, TypeOK, ReadType, PeerType
  <1>a. /\ made \in Nat /\ peer.got \in Nat
    BY <1>0, Fields
  <1>1. CASE ReaderLocks \/ ReaderMakesFin
    BY <1>1, PacketsMade
  <1>2. CASE ReaderQueues \/ ReaderQueuesFin \/ ReaderQueuesRst
    BY <1>2, PacketsQueued
  <1>3. CASE Forward
    <2>1. /\ forwarder = "open" /\ readPackets # <<>> /\ readPackets' = Tail(readPackets)
          /\ UNCHANGED <<ctxDone, forwarder, reader, made>>
      BY <1>3 DEF Forward, readerVars
    <2>2. CASE ctxDone
      BY <2>1, <2>2 DEF PacketInv
    <2>3. CASE ~ctxDone
      <3>1. PICK m \in Nat : Spans(readPackets, peer.got, m) /\ Spans(reader.packets, m, made)
        BY <1>0, <2>1, <2>3 DEF PacketInv
      <3>2. /\ readPackets[1].seq = NumberOf(peer.got)
            /\ peer.got + readPackets[1].len \in Nat
            /\ Spans(Tail(readPackets), peer.got + readPackets[1].len, m)
        BY ONLY <1>0, <1>a, <2>1, <3>1, m \in Nat, SpansTail
      <3>3. Head(readPackets) = readPackets[1]
        BY <1>0, <2>1, Taken
      <3>4. gap' = gap /\ peer'.got = peer.got + readPackets[1].len
        BY <1>0, <1>3, <3>2, <3>3 DEF Forward, TypeOK, ReadType
      <3>5. gap' => ctxDone'
        BY <1>0, <2>1, <3>4 DEF PacketInv
      <3> QED BY <1>0, <2>1, <3>1, <3>2, <3>4, <3>5, PacketsThen
    <2> QED BY <2>2, <2>3
  <1>4. CASE Dial
    <2>1. /\ UNCHANGED <<ctxDone, gap, made, readPackets>> /\ peer'.got = 1
          /\ reader'.packets = reader.packets /\ run.pc = "dial" /\ forwarder' = "open"
      BY <1>0, <1>4 DEF Dial, seenVars, ReaderType
    <2>2. made = 1 /\ forwarder = "none"
      BY <1>0, <2>1 DEF StartInv
    <2>3. readPackets = <<>> /\ reader.packets = <<>>
      BY <1>0, <2>2 DEF StartInv
    <2>4. Spans(<<>>, 1, 1)
      BY SpansNothing
    <2>5. gap' => ctxDone'
      BY <1>0, <2>1 DEF PacketInv
    <2> QED BY <1>0, <2>1, <2>2, <2>3, <2>4, <2>5, PacketsThen
  <1>5. CASE PeerSyn \/ PeerSegment
    <2>1. PICK x \in Segments :
             peer' = [peer EXCEPT !.next =
                           Max({peer.next, x.from + x.len
                                           + (IF x.syn \/ x.fin THEN 1 ELSE 0)})]
      BY <1>0, <1>5, PeerSends
    <2>2. /\ UNCHANGED <<gap, forwarder, readPackets, made, ctxDone, reader>>
          /\ peer'.got = peer.got
      BY <1>0, <1>5, <2>1, PeerSends
    <2> QED BY <1>0, <2>2, PacketKept
  <1>6. CASE TakeSyn
    <2>1. /\ UNCHANGED <<gap, forwarder, readPackets, ctxDone, reader, peer>> /\ run.pc = "syn"
      BY <1>6 DEF TakeSyn, readerVars, forwardVars
    <2>2. forwarder = "none"
      BY <1>0, <2>1 DEF StartInv
    <2> QED BY <1>0, <2>1, <2>2 DEF PacketInv
  <1>7. CASE TakeItem \/ Broadcast
    <2>1. /\ UNCHANGED <<gap, forwarder, readPackets, made, ctxDone, peer>>
          /\ reader' = reader \/ reader' = WakeReader
      BY <1>7 DEF TakeItem, Broadcast, forwardVars, seenVars, peerVars
    <2>2. reader'.packets = reader.packets
      BY <1>0, <2>1 DEF WakeReader, ReaderType
    <2> QED BY <1>0, <2>1, <2>2, PacketKept
  <1>8. CASE Read \/ ReaderEnds \/ ReaderCloses
    <2>1. /\ UNCHANGED <<gap, forwarder, readPackets, made, peer>>
          /\ ctxDone => ctxDone'
      <3>1. CASE Read \/ ReaderCloses
        <4>1. UNCHANGED <<gap, forwarder, readPackets, made, peer, ctxDone>>
          BY <3>1 DEF Read, ReaderCloses, forwardVars, seenVars, peerVars
        <4> QED BY <4>1
      <3>2. CASE ReaderEnds
        BY <3>2 DEF ReaderEnds, forwardVars, seenVars, peerVars
      <3> QED BY <1>8, <3>1, <3>2
    <2>2. reader'.packets = reader.packets
      <3>1. CASE Read
        <4>1. \/ \E n : reader' = [reader EXCEPT !.pc = "lock", !.n = n]
              \/ reader' = [reader EXCEPT !.pc = "eof"] \/ reader' = [reader EXCEPT !.pc = "end"]
          BY <3>1, Zenon DEF Read
        <4> QED BY ONLY <1>0, <4>1 DEF ReaderType
      <3>2. CASE ReaderEnds \/ ReaderCloses
        BY <1>0, <3>2 DEF ReaderEnds, ReaderCloses, ReaderType
      <3> QED BY <1>8, <3>1, <3>2
    <2> QED BY <1>0, <2>1, <2>2, PacketKept
  <1>9. CASE ForwarderEnds
    BY <1>0, <1>9 DEF ForwarderEnds, PacketInv, seenVars, peerVars
  <1>10. CASE Cancel \/ RunStops \/ RunIdles \/ TakeFin \/ PushPayload \/ AdvanceSendSeq
                \/ CloseWrites \/ CloseSocket \/ RunEnds
    <2>1. /\ UNCHANGED <<gap, forwarder, readPackets, made, peer, reader>>
          /\ ctxDone => ctxDone'
      BY <1>10 DEF Cancel, RunStops, RunIdles, TakeFin, PushPayload, AdvanceSendSeq, CloseWrites,
                   CloseSocket, RunEnds, forwardVars, seenVars, peerVars, readerVars
    <2> QED BY <1>0, <2>1, PacketKept
  <1>11. CASE WriterTakes \/ Write \/ WriterEnds \/ AckerLocks \/ AckerAcks
    <2>1. /\ UNCHANGED <<gap, forwarder, readPackets, made, peer, reader>>
          /\ ctxDone => ctxDone'
      BY <1>11 DEF WriterTakes, Write, WriterEnds, AckerLocks, AckerAcks, forwardVars, seenVars,
                   peerVars, readerVars
    <2> QED BY <1>0, <2>1, PacketKept
  <1> QED BY <1>1, <1>2, <1>3, <1>4, <1>5, <1>6, <1>7, <1>8, <1>9, <1>10, <1>11 DEF Next

-----------------------------------------------------------------------------
(* The wakeups.                                                            *)

LEMMA WakeStep ==
    ASSUME IInv, Next
    PROVE  WakeInv'
  <1>0. /\ TypeOK /\ WakeInv /\ StartInv /\ run \in RunType /\ conn \in ConnType
        /\ reader \in ReaderType /\ ctxDone \in BOOLEAN
    BY DEF IInv, TypeOK, PeerType, RunTypeOK, ReadType
  <1>1. CASE Broadcast
    <2>1. /\ reader' = WakeReader /\ acker' = WakeAcker /\ ctxDone' = ctxDone /\ conn' = conn
          /\ run'.early = ~ctxDone
      BY <1>0, <1>1 DEF Broadcast, RunType
    <2>2. reader'.pc # "wait" /\ acker' # "wait"
      BY <1>0, <2>1 DEF WakeReader, WakeAcker, ReaderType
    <2> QED BY <1>0, <2>1, <2>2 DEF WakeInv
  <1>2. CASE CloseSocket \/ RunEnds
    <2>1. /\ UNCHANGED <<reader, acker, conn>> /\ run'.early = run.early
          /\ run.pc \in {"socket", "cancel"}
          /\ ctxDone => ctxDone'
      BY <1>0, <1>2 DEF CloseSocket, RunEnds, RunType, readerVars
    <2> QED BY <1>0, <2>1 DEF WakeInv
  <1>3. CASE TakeSyn \/ Dial \/ TakeItem \/ TakeFin \/ AdvanceSendSeq
    <2>1. /\ run'.pc \notin {"socket", "cancel", "done"}
      BY <1>0, <1>3 DEF TakeSyn, Dial, TakeItem, TakeFin, AdvanceSendSeq, RunType, AfterAck,
                        AfterFin
    <2>2. CASE TakeSyn
      <3>1. acker' = "none"
        BY <1>0, <2>2 DEF TakeSyn, StartInv
      <3> QED BY <2>1, <3>1 DEF WakeInv
    <2>3. CASE Dial
      <3>1. acker' = "lock"
        BY <2>3 DEF Dial
      <3> QED BY <2>1, <3>1 DEF WakeInv
    <2>4. CASE TakeItem
      <3>1. acker' = acker /\ conn'.sendSeq = conn.sendSeq
            /\ conn'.ackedSendSeq = conn.ackedSendSeq
        BY <1>0, <2>4 DEF TakeItem, ConnType
      <3> QED BY <1>0, <2>1, <3>1 DEF WakeInv
    <2>5. CASE TakeFin \/ AdvanceSendSeq
      <3>1. acker' # "wait"
        BY <2>5 DEF TakeFin, AdvanceSendSeq, WakeAcker
      <3> QED BY <2>1, <3>1 DEF WakeInv
    <2> QED BY <1>3, <2>2, <2>3, <2>4, <2>5
  <1>4. CASE RunStops \/ RunIdles \/ PushPayload \/ CloseWrites
    <2>1. /\ UNCHANGED <<reader, acker, conn>>
          /\ run'.pc \notin {"socket", "cancel", "done"}
      BY <1>0, <1>4 DEF RunStops, RunIdles, PushPayload, CloseWrites, RunType, readerVars
    <2> QED BY <1>0, <2>1 DEF WakeInv
  <1>5. CASE ReaderLocks
    <2>1. /\ UNCHANGED <<run, ctxDone, acker>> /\ conn'.sendSeq = conn.sendSeq
          /\ conn'.ackedSendSeq = conn.ackedSendSeq \/ conn'.ackedSendSeq = conn.sendSeq
      BY <1>0, <1>5 DEF ReaderLocks, ConnType
    <2>2. ctxDone => reader'.pc # "wait"
      BY <1>0, <1>5 DEF ReaderLocks, ReaderType
    <2> QED BY <1>0, <2>1, <2>2 DEF WakeInv
  <1>6. CASE AckerLocks
    <2>1. /\ UNCHANGED <<run, ctxDone, reader>>
          /\ acker' = "wait" => ~ctxDone /\ conn.sendSeq = conn.ackedSendSeq /\ conn' = conn
      BY <1>6 DEF AckerLocks, readerVars
    <2> QED BY <1>0, <2>1 DEF WakeInv
  <1>7. CASE Read \/ ReaderQueues \/ ReaderMakesFin \/ ReaderQueuesFin
               \/ ReaderEnds \/ ReaderQueuesRst \/ ReaderCloses
    <2>1. /\ UNCHANGED <<run, acker>> /\ conn'.sendSeq = conn.sendSeq
          /\ conn'.ackedSendSeq = conn.ackedSendSeq
          /\ ctxDone => ctxDone'
      BY <1>0, <1>7 DEF Read, ReaderQueues, ReaderMakesFin, ReaderQueuesFin, ReaderEnds,
                        ReaderQueuesRst, ReaderCloses, ConnType
    <2>2. reader'.pc # "wait"
      <3>1. CASE Read
        BY <1>0, <3>1 DEF Read, ReaderType
      <3>2. CASE ReaderQueues
        <4>1. PICK ps : ps = Tail(reader.packets)
          OBVIOUS
        <4>2. reader' = [reader EXCEPT !.packets = ps,
                                       !.pc = IF Len(reader.packets) = 1 THEN "read" ELSE "queue"]
          BY <3>2, <4>1 DEF ReaderQueues
        <4> QED BY ONLY <1>0, <4>2 DEF ReaderType
      <3>3. CASE ReaderMakesFin
        <4>1. PICK ps : ps = <<Packet("fin", conn.receiveSeq, 1)>>
          OBVIOUS
        <4>2. reader' = [reader EXCEPT !.pc = "fin", !.packets = ps]
          BY <3>3, <4>1 DEF ReaderMakesFin
        <4> QED BY ONLY <1>0, <4>2 DEF ReaderType
      <3>4. CASE ReaderQueuesFin
        BY <1>0, <3>4 DEF ReaderQueuesFin, ReaderType
      <3>5. CASE ReaderEnds \/ ReaderQueuesRst \/ ReaderCloses
        BY <1>0, <3>5 DEF ReaderEnds, ReaderQueuesRst, ReaderCloses, ReaderType
      <3> QED BY <1>7, <3>1, <3>2, <3>3, <3>4, <3>5
    <2> QED BY <1>0, <2>1, <2>2 DEF WakeInv
  <1>8. CASE AckerAcks
    BY <1>0, <1>8 DEF AckerAcks, WakeInv, readerVars
  <1>9. CASE PeerSyn \/ PeerSegment
    <2>1. UNCHANGED <<run, ctxDone, conn, reader, acker>>
      BY <1>0, <1>9, PeerSends
    <2> QED BY <1>0, <2>1 DEF WakeInv
  <1>10. CASE Cancel \/ WriterTakes \/ Write \/ WriterEnds \/ Forward \/ ForwarderEnds
    <2>1. UNCHANGED <<run, conn, reader, acker>> /\ (ctxDone => ctxDone')
      BY <1>10 DEF Cancel, WriterTakes, Write, WriterEnds, Forward, ForwarderEnds, readerVars
    <2> QED BY <1>0, <2>1 DEF WakeInv
  <1> QED BY <1>1, <1>2, <1>3, <1>4, <1>5, <1>6, <1>7, <1>8, <1>9, <1>10 DEF Next

LEMMA EndStep ==
    ASSUME IInv, Next
    PROVE  EndInv'
  <1>0. TypeOK /\ EndInv /\ writer \in WriterType
    BY DEF IInv, TypeOK, WriterTypeOK
  <1>1. CASE PeerSyn \/ PeerSegment
    <2>1. UNCHANGED <<writer, ctxDone>>
      BY <1>0, <1>1, PeerSends
    <2> QED BY <1>0, <2>1 DEF EndInv
  <1>2. CASE Dial \/ WriterTakes
    <2>1. writer'.pc # "end"
      BY <1>0, <1>2 DEF Dial, WriterTakes, WriterType
    <2> QED BY <2>1 DEF EndInv
  <1>3. CASE Write
    <2>1. writer'.pc # "end"
      <3>1. writer.pc = "write"
        BY <1>3 DEF Write
      <3>2. writer'.pc = "take" \/ writer'.pc = writer.pc
        BY <1>0, <1>3 DEF Write, WriterType
      <3> QED BY <3>1, <3>2
    <2> QED BY <2>1 DEF EndInv
  <1>4. CASE Cancel \/ RunEnds \/ WriterEnds \/ ReaderEnds \/ ForwarderEnds
    <2>1. ctxDone'
      BY <1>4 DEF Cancel, RunEnds, WriterEnds, ReaderEnds, ForwarderEnds
    <2> QED BY <2>1 DEF EndInv
  <1>5. CASE TakeSyn \/ RunStops \/ RunIdles \/ TakeItem \/ TakeFin \/ PushPayload
               \/ AdvanceSendSeq \/ CloseWrites \/ Broadcast \/ CloseSocket
    <2>1. UNCHANGED <<writer, ctxDone>>
      BY <1>5 DEF TakeSyn, RunStops, RunIdles, TakeItem, TakeFin, PushPayload, AdvanceSendSeq,
                  CloseWrites, Broadcast, CloseSocket, writerVars
    <2> QED BY <1>0, <2>1 DEF EndInv
  <1>6. CASE Read \/ ReaderLocks \/ ReaderQueues \/ ReaderMakesFin \/ ReaderQueuesFin
               \/ ReaderQueuesRst \/ ReaderCloses \/ Forward \/ AckerLocks \/ AckerAcks
    <2>1. UNCHANGED <<writer, ctxDone>>
      BY <1>6 DEF Read, ReaderLocks, ReaderQueues, ReaderMakesFin, ReaderQueuesFin,
                  ReaderQueuesRst, ReaderCloses, Forward, AckerLocks, AckerAcks, writerVars
    <2> QED BY <1>0, <2>1 DEF EndInv
  <1> QED BY <1>1, <1>2, <1>3, <1>4, <1>5, <1>6 DEF Next

-----------------------------------------------------------------------------
(* The invariant.                                                          *)

LEMMA InitInv ==
    ASSUME Init
    PROVE  IInv
  <1>0. scenario \in Scenarios /\ NoSegment \in Segments
    BY SegmentTypes DEF Init
  <1>a. /\ <<>> \in Seq(Segments) /\ <<>> \in Seq(Packets)
        /\ <<>> \in Seq(Nat) /\ <<>> \in Seq(Seq(Nat))
    OBVIOUS
  <1>1. PeerType
    <2>1. sendItems \in Seq(Segments)
      BY <1>a, Zenon DEF Init
    <2> QED BY <1>0, <2>1 DEF Init, PeerType
  <1>2. RunTypeOK
    BY <1>0 DEF Init, RunTypeOK, ConnType, RunType
  <1>3. WriterTypeOK
    <2>1. /\ writePayloads \in Seq(Seq(Nat)) /\ written \in Seq(Nat)
      BY <1>a, Zenon DEF Init
    <2>2. PICK s \in Seq(Nat) : s = <<>>
      BY <1>a, Zenon
    <2>3. writer = [pc |-> "none", left |-> s]
      BY <2>2 DEF Init
    <2>4. writer \in WriterType
      BY ONLY <2>3, s \in Seq(Nat) DEF WriterType
    <2> QED BY <2>1, <2>4 DEF Init, WriterTypeOK
  <1>b. scenario.remoteBytes \in Nat /\ scenario.peerBytes \in Nat
    BY <1>0, Bounds
  <1>4. ReadType
    <2>1. readPackets \in Seq(Packets)
      BY <1>a, Zenon DEF Init
    <2>2. PICK s \in Seq(Packets) : s = <<>>
      BY <1>a, Zenon
    <2>3. reader = [pc |-> "none", n |-> 0, packets |-> s, fin |-> FALSE]
      BY <2>2 DEF Init
    <2>4. reader \in ReaderType
      BY ONLY <2>3, s \in Seq(Packets) DEF ReaderType
    <2> QED BY <1>b, <2>1, <2>4 DEF Init, ReadType
  <1>5. StartInv /\ SegmentInv
    BY <1>b DEF Init, StartInv, SegmentInv
  <1>6. CarryInv
    <2>1. writer.left = <<>> /\ writePayloads = <<>> /\ written = <<>> /\ run.pc = "syn"
          /\ run.item = NoSegment
      BY DEF Init
    <2>2. Continues /\ IsStream(written)
      BY <2>1 DEF Continues, IsFrom, IsStream
    <2>3. \A e : RunAt(e)
      BY <2>1 DEF RunAt, NoSegment
    <2> QED BY <2>2, <2>3 DEF CarryInv
  <1>7. MadeInv
    BY <1>b DEF Init, MadeInv
  <1>8. AckInv
    BY DEF Init, AckInv
  <1>9. WindowInv
    BY <1>b DEF Init, WindowInv
  <1>10. PacketInv /\ WakeInv /\ EndInv
    BY DEF Init, PacketInv, WakeInv, EndInv
  <1> QED BY <1>1, <1>2, <1>3, <1>4, <1>5, <1>6, <1>7, <1>8, <1>9, <1>10 DEF IInv, TypeOK

LEMMA StutterInv ==
    ASSUME IInv, UNCHANGED vars
    PROVE  IInv'
  <1>1. /\ UNCHANGED <<scenario, peer, sendItems, idleClosed, ctxDone, conn, run, socket>>
        /\ UNCHANGED <<writePayloads, writesClosed, writer, written, remoteLeft, reader>>
        /\ UNCHANGED <<readPackets, readsClosed, forwarder, acker, made, offer, gap>>
    BY DEF vars, peerVars, writerVars, readerVars, forwardVars, seenVars
  <1>2. TypeOK'
    BY <1>1 DEF IInv, TypeOK, PeerType, RunTypeOK, WriterTypeOK, ReadType
  <1>3. StartInv' /\ SegmentInv'
    BY <1>1 DEF IInv, StartInv, SegmentInv, SegmentOK
  <1>4. CarryInv'
    BY <1>1, CarryKept DEF IInv
  <1>5. MadeInv'
    <2>1. NumberOf(made)' = NumberOf(made)
      BY <1>1 DEF NumberOf
    <2> QED BY <1>1, <2>1 DEF IInv, MadeInv
  <1>6. AckInv'
    BY <1>1 DEF IInv, AckInv
  <1>7. WindowInv'
    <2>1. peer.got <= peer'.got
      BY <1>1, Fields DEF IInv
    <2>2. \A i \in DOMAIN sendItems' : \E j \in DOMAIN sendItems : sendItems'[i] = sendItems[j]
      BY <1>1
    <2> QED BY <1>1, <1>2, <2>1, <2>2, WindowKept DEF IInv
  <1>8. PacketInv'
    BY <1>1, PacketKept DEF IInv
  <1>9. WakeInv' /\ EndInv'
    BY <1>1 DEF IInv, WakeInv, EndInv
  <1> QED BY <1>2, <1>3, <1>4, <1>5, <1>6, <1>7, <1>8, <1>9 DEF IInv

\* The parts of IInv hold together in every reachable state.
THEOREM Invariance == Spec => []IInv
  <1>1. Init => IInv
    BY InitInv
  <1>2. IInv /\ [Next]_vars => IInv'
    <2> SUFFICES ASSUME IInv, [Next]_vars PROVE IInv'
      OBVIOUS
    <2>1. CASE Next
      BY <2>1, TypeStep, StartStep, SegmentStep, CarryStep, MadeStep, AckStep, WindowStep,
         PacketStep, WakeStep, EndStep DEF IInv
    <2>2. CASE UNCHANGED vars
      BY <2>2, StutterInv
    <2> QED BY <2>1, <2>2
  <1> QED BY <1>1, <1>2, PTL DEF Spec

\* Every variable keeps its type: the sequence numbers, the segments, the
\* payloads and the packets, whatever the peer sends and however the goroutines
\* interleave.
THEOREM TypeCorrect == Spec => []TypeOK
  <1>1. IInv => TypeOK
    BY DEF IInv
  <1> QED BY <1>1, Invariance, PTL

\* No byte that the reader makes a packet of lies beyond what the peer has ever
\* offered to receive to, with numbers that wrap (the receive window wait of the
\* reader in TcpSequence.Run).
THEOREM WindowKeptTo == Spec => []WithinWindow
  <1>1. ASSUME IInv PROVE WithinWindow
    <2>1. /\ scenario \in Scenarios /\ made \in Nat /\ offer.ever \in Nat
      BY <1>1, Fields DEF IInv
    <2>2. scenario.remoteBytes \in Nat
      BY <2>1, Bounds
    <2>3. \A p \in 2 .. scenario.remoteBytes + 1 : p <= made => p <= offer.ever
      BY <1>1 DEF IInv, WindowInv
    <2>4. PICK b \in Nat : b = scenario.remoteBytes + 1
      BY <2>2
    <2>5. Min({made, b}) = IF made <= b THEN made ELSE b
      BY ONLY <2>1, <2>4, OfTwo
    <2>6. 1 \in Nat
      OBVIOUS
    <2>7. Max({1, offer.ever}) = IF 1 >= offer.ever THEN 1 ELSE offer.ever
      BY ONLY <2>1, <2>6, OfTwo
    <2>8. PICK p \in Nat : p = Min({made, b}) /\ p <= made /\ p <= b
      BY <2>1, <2>4, <2>5
    <2>9. p <= Max({1, offer.ever})
      <3>1. CASE p < 2
        BY <2>1, <2>7, <3>1
      <3>2. CASE p >= 2
        <4>1. p \in 2 .. scenario.remoteBytes + 1
          BY <2>2, <2>4, <2>8, <3>2
        <4>2. p <= offer.ever
          BY <2>3, <2>8, <4>1
        <4> QED BY <2>1, <2>7, <4>2
      <3> QED BY <3>1, <3>2
    <2> QED BY <2>4, <2>8, <2>9 DEF WithinWindow
  <1> QED BY <1>1, Invariance, PTL

\* The forwarder gives the peer the bytes of the remote in order and without a
\* gap until the context is done, for any mtu and any size of the queues.
THEOREM NoGap == Spec => []NoGapToPeer
  <1>1. IInv => NoGapToPeer
    BY DEF IInv, PacketInv, NoGapToPeer
  <1> QED BY <1>1, Invariance, PTL

\* The reader does not sleep on its condition while there is room, nor the acker
\* while there is something to ack, nor anybody after Run has returned from a
\* context that was done.
THEOREM WakeupsKept == Spec => []NoLostWakeup
  <1>1. IInv => NoLostWakeup
    BY DEF IInv, WindowInv, WakeInv, NoLostWakeup
  <1> QED BY <1>1, Invariance, PTL

-----------------------------------------------------------------------------
(* The payloads together.                                                  *)

\* A set of numbers that is not empty has a least one.
LEMMA LeastExists ==
    ASSUME NEW T, T \subseteq Nat, T # {}
    PROVE  \E m \in T : \A y \in T : m <= y
  <1>1. PICK m \in T : \A y \in T : ~(<<y, m>> \in OpToRel(<, Nat))
    BY NatLessThanWellFounded, WFMin
  <1>2. \A y \in T : ~(y < m)
    BY <1>1 DEF OpToRel
  <1> QED BY <1>2

\* Numbers that do not fall from one to the next do not fall below the first.
LEMMA Rises ==
    ASSUME NEW n \in Nat, NEW e \in [0 .. n -> Nat], \A k \in 1 .. n : e[k - 1] <= e[k]
    PROVE  \A k \in 0 .. n : e[0] <= e[k]
  <1> DEFINE T == {k \in 0 .. n : ~(e[0] <= e[k])}
  <1>1. SUFFICES ASSUME T # {} PROVE FALSE
    OBVIOUS
  <1>2. T \subseteq Nat
    OBVIOUS
  <1>3. PICK m \in T : \A y \in T : m <= y
    <2> HIDE DEF T
    <2> QED BY <1>1, <1>2, LeastExists
  <1>4. m \in 0 .. n /\ ~(e[0] <= e[m])
    BY <1>3
  <1>5. m # 0
    BY <1>4
  <1>6. m - 1 \in 0 .. n /\ m \in 1 .. n /\ m - 1 < m
    BY <1>4, <1>5
  <1>7. m - 1 \notin T
    <2> HIDE DEF T
    <2> QED BY <1>3, <1>6
  <1>8. e[0] <= e[m - 1]
    BY <1>6, <1>7
  <1>9. e[m - 1] <= e[m] /\ e[m - 1] \in Nat /\ e[m] \in Nat /\ e[0] \in Nat
    BY <1>6
  <1> QED BY ONLY <1>4, <1>8, <1>9

\* The function in FlattenSeq, when g solves its equation and no other does.
LEMMA FlattenIs ==
    ASSUME NEW w, Len(w) \in Nat \ {0}, NEW g,
           g = [i \in 1 .. Len(w) |-> IF i = 1 THEN w[i] ELSE g[i - 1] \o w[i]],
           \A h : h = [i \in 1 .. Len(w) |-> IF i = 1 THEN w[i] ELSE h[i - 1] \o w[i]]
                    => h = g
    PROVE  FlattenSeq(w) = g[Len(w)]
  <1> DEFINE f == CHOOSE h : h = [i \in 1 .. Len(w) |-> IF i = 1 THEN w[i] ELSE h[i - 1] \o w[i]]
  <1>1. f = [i \in 1 .. Len(w) |-> IF i = 1 THEN w[i] ELSE f[i - 1] \o w[i]]
    BY Zenon
  <1>2. f = g
    BY <1>1, Zenon
  <1>3. FlattenSeq(w) = f[Len(w)]
    BY DEF FlattenSeq
  <1> QED BY <1>2, <1>3

LEMMA Joined ==
    ASSUME NEW s \in Seq(Nat), NEW t \in Seq(Nat), NEW v, v = s \o t
    PROVE  /\ v \in Seq(Nat) /\ Len(v) = Len(s) + Len(t)
           /\ Len(s) \in Nat /\ Len(t) \in Nat
           /\ DOMAIN s = 1 .. Len(s) /\ DOMAIN t = 1 .. Len(t) /\ DOMAIN v = 1 .. Len(v)
           /\ \A i \in 1 .. Len(s) : v[i] = s[i]
           /\ \A i \in 1 .. Len(t) : v[Len(s) + i] = t[i]
  <1>1. v \in Seq(Nat) /\ Len(v) = Len(s) + Len(t)
    OBVIOUS
  <1>2. /\ Len(s) \in Nat /\ Len(t) \in Nat
        /\ DOMAIN s = 1 .. Len(s) /\ DOMAIN t = 1 .. Len(t) /\ DOMAIN v = 1 .. Len(v)
    BY <1>1
  <1>3. \A i \in 1 .. Len(s) : v[i] = s[i]
    BY <1>2
  <1>4. ASSUME NEW i \in 1 .. Len(t) PROVE v[Len(s) + i] = t[i]
    <2>1. Len(s) + i \in 1 .. Len(s) + Len(t) /\ ~(Len(s) + i <= Len(s))
          /\ Len(s) + i - Len(s) = i
      BY <1>2
    <2> QED BY <2>1
  <1> QED BY <1>1, <1>2, <1>3, <1>4

LEMMA SameSeq ==
    ASSUME NEW v \in Seq(Nat), NEW u \in Seq(Nat), Len(v) = Len(u),
           \A i \in 1 .. Len(u) : v[i] = u[i]
    PROVE  v = u
  <1>1. /\ v \in [1 .. Len(v) -> Nat] /\ u \in [1 .. Len(u) -> Nat]
    OBVIOUS
  <1> QED BY <1>1

\* Payloads that follow each other, the k-th ending at e[k], are a part of the
\* stream together.
LEMMA Flattened ==
    ASSUME NEW w \in Seq(Seq(Nat)), NEW e \in [0 .. Len(w) -> Nat],
           \A k \in 1 .. Len(w) : IsFrom(w[k], e[k - 1]) /\ e[k] = e[k - 1] + Len(w[k])
    PROVE  /\ FlattenSeq(w) \in Seq(Nat)
           /\ Len(FlattenSeq(w)) = e[Len(w)] - e[0]
           /\ IsFrom(FlattenSeq(w), e[0])
           /\ e[0] <= e[Len(w)]
  <1>0. PICK n \in Nat : n = Len(w)
    OBVIOUS
  <1>b. DOMAIN w = 1 .. n /\ (\A k \in 0 .. n : e[k] \in Nat)
    BY <1>0
  <1>c. ASSUME NEW k \in 1 .. n
        PROVE  /\ w[k] \in Seq(Nat) /\ Len(w[k]) \in Nat
               /\ DOMAIN w[k] = 1 .. Len(w[k]) /\ k - 1 \in 0 .. n
    <2>1. w[k] \in Seq(Nat)
      BY <1>b
    <2>2. k - 1 \in 0 .. n
      OBVIOUS
    <2> QED BY ONLY <2>1, <2>2
  <1>a. /\ DOMAIN w = 1 .. n
        /\ \A k \in 1 .. n : /\ w[k] \in Seq(Nat) /\ Len(w[k]) \in Nat
                             /\ DOMAIN w[k] = 1 .. Len(w[k]) /\ k - 1 \in 0 .. n
        /\ \A k \in 0 .. n : e[k] \in Nat
    BY <1>b, <1>c
  <1>1. CASE n = 0
    <2>a. Len(w) = 0
      BY <1>0, <1>1
    <2>1. Len(w) = 0 /\ w = <<>>
      BY ONLY <2>a, w \in Seq(Seq(Nat))
    <2>2. FlattenSeq(w) = w
      BY <2>1 DEF FlattenSeq
    <2>3. e[0] \in Nat
      BY <1>a
    <2>4. DOMAIN w = {} /\ w \in Seq(Nat)
      BY ONLY <2>1
    <2>5. IsFrom(w, e[0])
      BY <2>4 DEF IsFrom
    <2>6. e[Len(w)] = e[0] /\ e[0] - e[0] = 0 /\ e[0] <= e[0]
      BY <2>1, <2>3
    <2> QED BY ONLY <2>1, <2>2, <2>4, <2>5, <2>6
  <1>2. CASE n # 0
    <2>1. \A k \in 0 .. n : e[0] <= e[k]
      <3>1. ASSUME NEW k \in 1 .. n PROVE e[k - 1] <= e[k]
        <4>1. k - 1 \in 0 .. n
          OBVIOUS
        <4>2. e[k] = e[k - 1] + Len(w[k]) /\ Len(w[k]) \in Nat /\ e[k - 1] \in Nat
          BY <1>0, <1>a, <4>1
        <4> QED BY <4>2
      <3> QED BY <1>0, <3>1, Rises
    <2> DEFINE part(k) == [i \in 1 .. e[k] - e[0] |-> e[0] + i]
    <2>2. \A k \in 0 .. n : /\ part(k) \in Seq(Nat) /\ Len(part(k)) = e[k] - e[0]
                            /\ DOMAIN part(k) = 1 .. e[k] - e[0]
                            /\ \A i \in 1 .. e[k] - e[0] : part(k)[i] = e[0] + i
                            /\ e[k] - e[0] \in Nat
      <3>1. TAKE k \in 0 .. n
      <3>2. PICK d \in Nat : d = e[k] - e[0]
        BY <1>a, <2>1
      <3>3. [i \in 1 .. d |-> e[0] + i] \in Seq(Nat) /\ Len([i \in 1 .. d |-> e[0] + i]) = d
        <4>1. [i \in 1 .. d |-> e[0] + i] \in [1 .. d -> Nat]
          BY <1>a
        <4> QED BY <4>1
      <3> QED BY <3>2, <3>3
    <2>3. w[1] = part(1)
      <3>1. 1 \in 1 .. n /\ 1 \in 0 .. n /\ 0 \in 0 .. n /\ 1 - 1 = 0
        BY <1>2
      <3>2. e[1] = e[0] + Len(w[1]) /\ IsFrom(w[1], e[0]) /\ e[0] \in Nat /\ w[1] \in Seq(Nat)
            /\ Len(w[1]) \in Nat /\ DOMAIN w[1] = 1 .. Len(w[1])
        BY <1>0, <1>a, <3>1
      <3>3. e[1] - e[0] = Len(w[1])
        BY <3>2
      <3>4. \A i \in 1 .. Len(w[1]) : w[1][i] = e[0] + i
        BY <3>2 DEF IsFrom
      <3>5. PICK s \in Seq(Nat) : s = w[1]
        BY <3>2
      <3>6. PICK t \in Seq(Nat) : t = part(1) /\ Len(t) = e[1] - e[0]
               /\ (\A i \in 1 .. e[1] - e[0] : t[i] = e[0] + i)
        BY <2>2, <3>1
      <3> HIDE DEF part
      <3>7. Len(s) = Len(t) /\ (\A i \in 1 .. Len(t) : s[i] = t[i])
        BY <3>3, <3>4, <3>5, <3>6
      <3>8. s = t
        BY ONLY <3>7, s \in Seq(Nat), t \in Seq(Nat), SameSeq
      <3> QED BY <3>5, <3>6, <3>8
    <2>4. \A k \in 2 .. n : part(k - 1) \o w[k] = part(k)
      <3>1. TAKE k \in 2 .. n
      <3>2. k \in 1 .. n /\ k \in 0 .. n /\ k - 1 \in 0 .. n
        BY <1>2
      <3>3. PICK s \in Seq(Nat) : s = part(k - 1)
        BY <2>2, <3>2
      <3>4. PICK t \in Seq(Nat) : t = w[k]
        BY <1>a, <3>2
      <3>5. PICK u \in Seq(Nat) : u = part(k)
        BY <2>2, <3>2
      <3> HIDE DEF part
      <3>6. /\ Len(s) = e[k - 1] - e[0] /\ Len(u) = e[k] - e[0]
            /\ \A i \in 1 .. Len(s) : s[i] = e[0] + i
            /\ \A i \in 1 .. Len(u) : u[i] = e[0] + i
        BY <2>2, <3>2, <3>3, <3>5
      <3>7. e[k] = e[k - 1] + Len(t) /\ (\A i \in 1 .. Len(t) : t[i] = e[k - 1] + i)
        <4>1. IsFrom(t, e[k - 1]) /\ e[k] = e[k - 1] + Len(t) /\ DOMAIN t = 1 .. Len(t)
          BY <1>0, <1>a, <3>2, <3>4
        <4> QED BY <4>1 DEF IsFrom
      <3>a. 0 \in 0 .. n
        OBVIOUS
      <3>b. Len(t) \in Nat /\ Len(s) \in Nat /\ Len(u) \in Nat
        BY ONLY s \in Seq(Nat), t \in Seq(Nat), u \in Seq(Nat)
      <3>8. e[k] \in Nat /\ e[k - 1] \in Nat /\ e[0] \in Nat /\ Len(t) \in Nat
            /\ Len(s) \in Nat /\ Len(u) \in Nat
        BY <1>a, <3>2, <3>a, <3>b
      <3>c. PICK v : v = s \o t
        OBVIOUS
      <3>9. /\ v = s \o t /\ v \in Seq(Nat) /\ Len(v) = Len(s) + Len(t)
            /\ \A i \in 1 .. Len(s) : v[i] = s[i]
            /\ \A i \in 1 .. Len(t) : v[Len(s) + i] = t[i]
        BY ONLY <3>c, s \in Seq(Nat), t \in Seq(Nat), Joined
      <3>10. Len(v) = Len(u)
        BY ONLY <3>6, <3>7, <3>8, <3>9
      <3>11. \A i \in 1 .. Len(u) : v[i] = u[i]
        <4>1. TAKE i \in 1 .. Len(u)
        <4>2. CASE i <= Len(s)
          <5>1. i \in 1 .. Len(s)
            BY <3>8, <4>2
          <5> QED BY <3>6, <3>9, <5>1
        <4>3. CASE ~(i <= Len(s))
          <5>1. PICK j \in 1 .. Len(t) : i = Len(s) + j
            <6>1. i - Len(s) \in 1 .. Len(t) /\ i = Len(s) + (i - Len(s))
              <7>1. PICK c \in Nat, d \in Nat, l \in Nat : c = Len(s) /\ d = Len(t) /\ l = Len(u)
                BY <3>8
              <7>2. l = c + d /\ i \in 1 .. l /\ ~(i <= c)
                BY <3>9, <3>10, <4>3, <7>1
              <7>3. i - c \in 1 .. d /\ i = c + (i - c)
                BY ONLY <7>2, c \in Nat, d \in Nat, l \in Nat
              <7> QED BY <7>1, <7>3
            <6> QED BY <6>1
          <5>2. v[i] = e[k - 1] + j
            BY <3>7, <3>9, <5>1
          <5>3. e[k - 1] + j = e[0] + i
            <6>1. Len(s) = e[k - 1] - e[0] /\ j \in Nat
              BY <3>6, <3>8
            <6>2. PICK a \in Nat, b \in Nat, c \in Nat :
                     a = e[k - 1] /\ b = e[0] /\ c = Len(s)
              BY <3>8
            <6>3. c = a - b /\ i = c + j
              BY <5>1, <6>1, <6>2
            <6>4. a + j = b + i
              BY ONLY <6>1, <6>3, a \in Nat, b \in Nat, c \in Nat
            <6> QED BY <6>2, <6>4
          <5> QED BY <3>6, <5>2, <5>3
        <4> QED BY <4>2, <4>3
      <3>12. v = u
        BY ONLY <3>9, <3>10, <3>11, u \in Seq(Nat), SameSeq
      <3> QED BY <3>3, <3>4, <3>5, <3>9, <3>12
    <2>5. PICK g : g = [k \in 1 .. n |-> part(k)]
      OBVIOUS
    <2> HIDE DEF part
    <2>6. g = [k \in 1 .. n |-> IF k = 1 THEN w[k] ELSE g[k - 1] \o w[k]]
      <3>1. ASSUME NEW k \in 1 .. n
            PROVE  g[k] = IF k = 1 THEN w[k] ELSE g[k - 1] \o w[k]
        <4>1. CASE k = 1
          BY <2>3, <2>5, <4>1
        <4>2. CASE k # 1
          <5>1. k \in 2 .. n /\ k - 1 \in 1 .. n
            BY <4>2
          <5>2. g[k] = part(k) /\ g[k - 1] = part(k - 1)
            BY <2>5, <5>1
          <5> QED BY <2>4, <4>2, <5>1, <5>2
        <4> QED BY <4>1, <4>2
      <3> QED BY <2>5, <3>1
    <2>7. ASSUME NEW h, h = [k \in 1 .. n |-> IF k = 1 THEN w[k] ELSE h[k - 1] \o w[k]]
          PROVE  h = g
      <3>0. /\ DOMAIN h = 1 .. n
            /\ \A k \in 1 .. n : h[k] = IF k = 1 THEN w[k] ELSE h[k - 1] \o w[k]
        BY <2>7
      <3>a. /\ DOMAIN g = 1 .. n
            /\ \A k \in 1 .. n : g[k] = IF k = 1 THEN w[k] ELSE g[k - 1] \o w[k]
        BY <2>6
      <3> DEFINE T == {k \in 1 .. n : h[k] # g[k]}
      <3>1. T = {}
        <4>1. SUFFICES ASSUME T # {} PROVE FALSE
          OBVIOUS
        <4>2. T \subseteq Nat
          OBVIOUS
        <4>3. PICK m \in T : \A y \in T : m <= y
          <5> HIDE DEF T
          <5> QED BY <4>1, <4>2, LeastExists
        <4>4. m \in 1 .. n /\ h[m] # g[m]
          BY <4>3
        <4>5. m # 1
          BY <3>0, <3>a, <4>4
        <4>6. m - 1 \in 1 .. n /\ ~(m <= m - 1)
          BY <4>4, <4>5
        <4>7. m - 1 \notin T
          <5> HIDE DEF T
          <5> QED BY <4>3, <4>6
        <4>8. h[m - 1] = g[m - 1]
          BY <4>6, <4>7
        <4>9. h[m] = h[m - 1] \o w[m] /\ g[m] = g[m - 1] \o w[m]
          BY <3>0, <3>a, <4>4, <4>5
        <4> QED BY <4>4, <4>8, <4>9
      <3>2. \A k \in 1 .. n : h[k] = g[k]
        BY <3>1
      <3>3. h = [k \in DOMAIN h |-> h[k]] /\ g = [k \in DOMAIN g |-> g[k]]
        BY <2>5, <2>7
      <3> QED BY <3>0, <3>2, <3>3, <3>a
    <2>8. FlattenSeq(w) = g[n]
      BY <1>0, <1>2, <2>6, <2>7, FlattenIs
    <2>9. n \in 1 .. n /\ n \in 0 .. n
      BY <1>2
    <2>10. FlattenSeq(w) = part(n)
      BY <2>5, <2>8, <2>9
    <2>11. /\ part(n) \in Seq(Nat) /\ Len(part(n)) = e[n] - e[0]
           /\ DOMAIN part(n) = 1 .. e[n] - e[0]
           /\ \A i \in 1 .. e[n] - e[0] : part(n)[i] = e[0] + i
           /\ e[0] <= e[n]
      BY <2>1, <2>2, <2>9
    <2>12. IsFrom(part(n), e[0])
      BY <2>11 DEF IsFrom
    <2> QED BY <1>0, <2>10, <2>11, <2>12
  <1> QED BY <1>1, <1>2

\* A part of the stream that continues it makes a longer one.
LEMMA StreamJoined ==
    ASSUME NEW s \in Seq(Nat), IsStream(s), NEW t \in Seq(Nat), IsFrom(t, Len(s)),
           NEW v, v = s \o t
    PROVE  v \in Seq(Nat) /\ IsStream(v) /\ Len(v) = Len(s) + Len(t)
  <1>1. /\ v \in Seq(Nat) /\ Len(v) = Len(s) + Len(t)
        /\ Len(s) \in Nat /\ Len(t) \in Nat
        /\ DOMAIN s = 1 .. Len(s) /\ DOMAIN t = 1 .. Len(t) /\ DOMAIN v = 1 .. Len(v)
        /\ \A i \in 1 .. Len(s) : v[i] = s[i]
        /\ \A i \in 1 .. Len(t) : v[Len(s) + i] = t[i]
    BY ONLY s \in Seq(Nat), t \in Seq(Nat), v = s \o t, Joined
  <1>2. PICK c \in Nat, d \in Nat : c = Len(s) /\ d = Len(t)
    BY <1>1
  <1>3. ASSUME NEW i \in 1 .. c + d PROVE v[i] = i
    <2>1. CASE i <= c
      <3>1. i \in 1 .. c
        BY <2>1
      <3> QED BY <1>1, <1>2, <3>1 DEF IsStream
    <2>2. CASE ~(i <= c)
      <3>1. PICK j \in 1 .. d : i = c + j
        <4>1. i - c \in 1 .. d /\ i = c + (i - c)
          BY <2>2
        <4> QED BY <4>1
      <3>2. v[c + j] = t[j] /\ t[j] = c + j
        BY <1>1, <1>2 DEF IsFrom
      <3> QED BY <3>1, <3>2
    <2> QED BY <2>1, <2>2
  <1> QED BY <1>1, <1>2, <1>3 DEF IsStream

\* What the writer has and has yet to take, up to position end.
LEMMA CarriedToWriter ==
    ASSUME TypeOK, IsStream(written), Continues
    PROVE  /\ written \o writer.left \o FlattenSeq(writePayloads) \in Seq(Nat)
           /\ IsStream(written \o writer.left \o FlattenSeq(writePayloads))
           /\ Len(written \o writer.left \o FlattenSeq(writePayloads))
                = EndOf(Len(writePayloads))
  <1>0. /\ writePayloads \in Seq(Seq(Nat)) /\ writer.left \in Seq(Nat) /\ written \in Seq(Nat)
    BY Fields DEF TypeOK, WriterTypeOK
  <1>1. PICK a : a = written \o writer.left
    OBVIOUS
  <1>2. a \in Seq(Nat) /\ IsStream(a) /\ Len(a) = Len(written) + Len(writer.left)
    BY <1>0, <1>1, StreamJoined DEF Continues
  <1>3. PICK n \in Nat : n = Len(writePayloads)
    BY <1>0
  <1>4. PICK e : e = [k \in 0 .. n |-> EndOf(k)]
    OBVIOUS
  <1>5. /\ \A k \in 0 .. n : EndOf(k) \in Nat
        /\ \A k \in 1 .. n : /\ EndOf(k) = EndOf(k - 1) + Len(writePayloads[k])
                             /\ k - 1 \in 0 .. n
    BY <1>3, Ends
  <1>6. e \in [0 .. n -> Nat] /\ (\A k \in 0 .. n : e[k] = EndOf(k))
    BY <1>4, <1>5
  <1>7. \A k \in 1 .. n : IsFrom(writePayloads[k], e[k - 1])
                          /\ e[k] = e[k - 1] + Len(writePayloads[k])
    <2>1. TAKE k \in 1 .. n
    <2>2. k \in DOMAIN writePayloads /\ k - 1 \in 0 .. n /\ k \in 0 .. n
      BY <1>0, <1>3
    <2>3. IsFrom(writePayloads[k], EndOf(k - 1))
      BY <2>2 DEF Continues
    <2> QED BY <1>5, <1>6, <2>2, <2>3
  <1>8. PICK f : f = FlattenSeq(writePayloads)
    OBVIOUS
  <1>9. f \in Seq(Nat) /\ Len(f) = e[n] - e[0] /\ IsFrom(f, e[0]) /\ e[0] <= e[n]
    BY <1>0, <1>3, <1>6, <1>7, <1>8, Flattened
  <1>10. e[0] = Len(a) /\ e[n] = EndOf(n) /\ e[0] \in Nat /\ e[n] \in Nat
    <2>1. 0 \in 0 .. n /\ n \in 0 .. n
      OBVIOUS
    <2>2. EndOf(0) = Len(written) + Len(writer.left)
      BY DEF EndOf
    <2> QED BY <1>2, <1>6, <2>1, <2>2
  <1>11. PICK v : v = a \o f
    OBVIOUS
  <1>12. v \in Seq(Nat) /\ IsStream(v) /\ Len(v) = Len(a) + Len(f)
    BY ONLY <1>2, <1>9, <1>10, <1>11, StreamJoined
  <1>13. Len(v) = EndOf(n)
    BY <1>9, <1>10, <1>12
  <1> QED BY <1>1, <1>3, <1>8, <1>11, <1>12, <1>13

\* The remote is given the bytes of the peer in order and once, whatever is sent
\* again, and what sendSeq acks is on its way (TcpSequence.Run and its writer):
\* also when the numbers wrap.
THEOREM BytesCarried == Spec => []AckedIsCarried
  <1>1. ASSUME IInv PROVE AckedIsCarried
    <2>0. TypeOK /\ CarryInv /\ EndInv /\ IsStream(written)
      BY <1>1 DEF IInv, CarryInv
    <2>1. SUFFICES ASSUME ~ctxDone
                   PROVE  /\ IsStream(Carried)
                          /\ run.pc \in {"open", "fin", "push", "seq", "close", "flush"}
                               => Minus(conn.sendSeq, NumberOf(1))
                                    <= Len(Carried) + (IF run.item.fin THEN 1 ELSE 0)
      BY <2>0 DEF AckedIsCarried
    <2>2. PICK e : e = EndOf(Len(writePayloads))
      OBVIOUS
    <2>3. Continues /\ RunAt(e)
      BY <2>0, <2>1, <2>2 DEF CarryInv, EndInv
    <2>4. PICK v : v = written \o writer.left \o FlattenSeq(writePayloads)
      OBVIOUS
    <2>5. v \in Seq(Nat) /\ IsStream(v) /\ Len(v) = e /\ e \in Nat
      <3>1. v \in Seq(Nat) /\ IsStream(v) /\ Len(v) = e
        BY <2>0, <2>2, <2>3, <2>4, CarriedToWriter
      <3> QED BY <3>1
    <2>6. /\ scenario \in Scenarios /\ run.item \in Segments /\ run.item.len \in Nat
          /\ run.item.from \in Nat
      BY <2>0, Fields
    <2>7. /\ SeqSpace \in Nat /\ scenario.peerBytes \in Nat
          /\ scenario.peerBytes + 2 < SeqSpace
      BY <2>6, Bounds
    <2>8. PICK p : p = IF run.pc \in {"fin", "push"} THEN Payload(run.item) ELSE <<>>
      OBVIOUS
    <2>9. /\ p \in Seq(Nat) /\ IsFrom(p, e)
          /\ Len(p) = IF run.pc \in {"fin", "push"} THEN run.item.len ELSE 0
      <3>1. CASE run.pc \in {"fin", "push"} /\ run.item.len > 0
        <4>1. run.item.from = e + 1
          BY <2>3, <3>1 DEF RunAt
        <4>2. run.item.from > 0 /\ run.item.from - 1 = e
          BY <2>5, <4>1
        <4>3. p \in Seq(Nat) /\ Len(p) = run.item.len /\ IsFrom(p, e)
          BY <2>6, <2>8, <3>1, <4>2, PayloadType
        <4> QED BY <3>1, <4>3
      <3>2. CASE run.pc \in {"fin", "push"} /\ ~(run.item.len > 0)
        <4>1. p \in Seq(Nat) /\ Len(p) = run.item.len
          BY <2>6, <2>8, <3>2, PayloadType
        <4>2. Len(p) = 0
          BY <2>6, <3>2, <4>1
        <4>3. DOMAIN p = {}
          BY <4>1, <4>2
        <4> QED BY <3>2, <4>1, <4>3 DEF IsFrom
      <3>3. CASE ~(run.pc \in {"fin", "push"})
        <4>1. p = <<>>
          BY <2>8, <3>3
        <4> QED BY <3>3, <4>1 DEF IsFrom
      <3> QED BY <3>1, <3>2, <3>3
    <2>10. PICK c : c = v \o p
      OBVIOUS
    <2>11. c \in Seq(Nat) /\ IsStream(c) /\ Len(c) = e + Len(p)
      <3>1. IsFrom(p, Len(v)) /\ p \in Seq(Nat)
        BY <2>5, <2>9
      <3>2. c \in Seq(Nat) /\ IsStream(c) /\ Len(c) = Len(v) + Len(p)
        BY ONLY <2>5, <2>10, <3>1, StreamJoined
      <3> QED BY <2>5, <3>2
    <2>12. Carried = c
      BY <2>4, <2>8, <2>10 DEF Carried
    <2>13. ASSUME run.pc \in {"open", "fin", "push", "seq", "close", "flush"}
           PROVE  Minus(conn.sendSeq, NumberOf(1)) <= e + Len(p) + One(run.item.fin)
      <3>0. ASSUME NEW q \in Nat, conn.sendSeq = NumberOf(q + 1), q <= scenario.peerBytes + 1
            PROVE  Minus(conn.sendSeq, NumberOf(1)) = q
        <4>1. 1 \in Nat /\ q + 1 \in Nat /\ 1 <= q + 1 /\ q + 1 < SeqSpace
          BY <2>7, <3>0
        <4>2. Minus(NumberOf(q + 1), NumberOf(1)) = q + 1 - 1
          BY ONLY <2>6, <4>1, MinusNumbers
        <4> QED BY <3>0, <4>2
      <3>a. One(run.item.fin) = (IF run.item.fin THEN 1 ELSE 0)
        BY DEF One
      <3>b. One(run.item.fin) \in 0 .. 1
        BY <3>a
      <3>1. CASE run.pc = "open"
        <4>1. e <= scenario.peerBytes /\ conn.sendSeq = NumberOf(e + 1)
          BY <2>3, <3>1 DEF RunAt
        <4>2. Minus(conn.sendSeq, NumberOf(1)) = e
          BY <2>5, <2>7, <3>0, <4>1
        <4>3. Len(p) = 0
          BY <2>9, <3>1
        <4> QED BY <2>5, <3>b, <4>2, <4>3
      <3>2. CASE run.pc = "fin"
        <4>1. e + run.item.len <= scenario.peerBytes /\ conn.sendSeq = NumberOf(e + 1)
          BY <2>3, <3>2 DEF RunAt
        <4>2. Minus(conn.sendSeq, NumberOf(1)) = e
          BY <2>5, <2>6, <2>7, <3>0, <4>1
        <4>3. Len(p) = run.item.len
          BY <2>9, <3>2
        <4> QED BY <2>5, <2>6, <3>b, <4>2, <4>3
      <3>3. CASE run.pc = "push"
        <4>1. e + run.item.len <= scenario.peerBytes
              /\ conn.sendSeq = NumberOf(e + 1 + One(run.item.fin))
          BY <2>3, <3>3 DEF RunAt
        <4>2. PICK q \in Nat : q = e + One(run.item.fin)
          BY <2>5, <3>b
        <4>a. PICK o \in 0 .. 1, l \in Nat, b \in Nat :
                 o = One(run.item.fin) /\ l = run.item.len /\ b = scenario.peerBytes
          BY <2>6, <2>7, <3>b
        <4>b. e + l <= b /\ q = e + o /\ e \in Nat
          BY <2>5, <4>1, <4>2, <4>a
        <4>c. q + 1 = e + 1 + o /\ q <= b + 1
          BY ONLY <4>b, o \in 0 .. 1, l \in Nat, b \in Nat
        <4>3. q + 1 = e + 1 + One(run.item.fin) /\ q <= scenario.peerBytes + 1
          BY <4>a, <4>c
        <4>4. Minus(conn.sendSeq, NumberOf(1)) = q
          BY <3>0, <4>1, <4>3
        <4>5. Len(p) = run.item.len
          BY <2>9, <3>3
        <4> QED BY <2>5, <2>6, <3>b, <4>2, <4>4, <4>5
      <3>4. CASE run.pc = "seq"
        <4>1. /\ run.item.len \in 1 .. e /\ e <= scenario.peerBytes
              /\ conn.sendSeq = NumberOf(e - run.item.len + 1 + One(run.item.fin))
          BY <2>3, <3>4 DEF RunAt
        <4>2. PICK q \in Nat : q = e - run.item.len + One(run.item.fin)
          BY <2>5, <3>b, <4>1
        <4>a. PICK o \in 0 .. 1, l \in Nat, b \in Nat :
                 o = One(run.item.fin) /\ l = run.item.len /\ b = scenario.peerBytes
          BY <2>6, <2>7, <3>b
        <4>b. l \in 1 .. e /\ e <= b /\ q = e - l + o /\ e \in Nat
          BY <2>5, <4>1, <4>2, <4>a
        <4>c. q + 1 = e - l + 1 + o /\ q <= b + 1
          BY ONLY <4>b, o \in 0 .. 1, l \in Nat, b \in Nat
        <4>3. q + 1 = e - run.item.len + 1 + One(run.item.fin) /\ q <= scenario.peerBytes + 1
          BY <4>a, <4>c
        <4>4. Minus(conn.sendSeq, NumberOf(1)) = q
          BY <3>0, <4>1, <4>3
        <4>5. Len(p) = 0
          BY <2>9, <3>4
        <4> QED BY <2>5, <2>6, <3>b, <4>1, <4>2, <4>4, <4>5
      <3>5. CASE run.pc \in {"close", "flush"}
        <4>1. run.item.fin /\ e = scenario.peerBytes /\ conn.sendSeq = NumberOf(e + 2)
          BY <2>3, <3>5 DEF RunAt
        <4>2. PICK q \in Nat : q = e + 1 /\ q + 1 = e + 2 /\ q <= scenario.peerBytes + 1
          BY <2>5, <4>1
        <4>3. Minus(conn.sendSeq, NumberOf(1)) = q
          BY <3>0, <4>1, <4>2
        <4>4. Len(p) = 0 /\ One(run.item.fin) = 1
          BY <2>9, <3>5, <3>a, <4>1
        <4> QED BY <2>5, <4>2, <4>3, <4>4
      <3> QED BY <2>13, <3>1, <3>2, <3>3, <3>4, <3>5
    <2> QED BY <2>11, <2>12, <2>13 DEF One
  <1> QED BY <1>1, Invariance, PTL
=============================================================================
