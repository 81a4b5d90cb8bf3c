----------------------- MODULE TransferSequence_proofs -----------------------
(***************************************************************************)
(* Proofs about TransferSequence, for any number of frames, any sizes and  *)
(* limits, any number of times the receive sequence is formed, and both    *)
(* kinds of network.                                                       *)
(***************************************************************************)
EXTENDS TransferSequence, SequenceTheorems, FiniteSetTheorems, WellFoundedInduction,
        TLAPS

-----------------------------------------------------------------------------
(* The inductive invariant.                                                *)

\* The sender knows every frame as acked, pending or in its first write, and
\* the acked frames come before all others.
SenderInv ==
    /\ acked \cup sendItems \cup ({writing} \ {None}) = 0 .. nextSend - 1
    /\ \A a \in acked : \A i \in sendItems : a < i
    /\ writing # None => \A a \in acked : a < writing
    /\ resendQueue = sendItems \ {writing}
    /\ writing # None => sOpen /\ sPc = "ready"
    /\ failed = IF sOpen THEN {} ELSE sendItems

\* A head flag is only ever sent on a frame whose predecessors are acked.
HeadInv ==
    /\ \A p \in packNet : p.seq < nextSend /\ (p.head => 0 .. p.seq - 1 \subseteq acked)
    /\ \A i \in heads : 0 .. i - 1 \subseteq acked

\* Whatever acts as a cumulative ack names a received frame.
AckInv ==
    /\ \A m \in ackNet \cup looked : ~m.selective => m.seq \in received
    /\ sWin.head # -1 => sWin.head \in received
    /\ rWin.head # -1 => rWin.head \in received
    /\ sWin.updated => sWin.head # -1
    /\ rWin.updated => rWin.head # -1

\* What is received is a prefix of what was sent, and the receive sequence
\* has seen nothing else.
ReceivedInv ==
    /\ acked \subseteq received
    /\ received \subseteq 0 .. nextSend - 1
    /\ \A i \in received : 0 .. i \subseteq received
    /\ 0 .. rNext - 1 \subseteq received
    /\ rQueue \subseteq 0 .. nextSend - 1

\* The calls of the receive callback by this receive sequence are below its
\* next sequence number.
LogInv ==
    /\ rOpen => gen >= 1
    /\ \A k \in DOMAIN delivered :
          /\ delivered[k].gen <= gen
          /\ rOpen /\ delivered[k].gen = gen => delivered[k].seq < rNext
    /\ InOrderWhileFormed

IInv == TypeOK /\ SenderInv /\ HeadInv /\ AckInv /\ ReceivedInv /\ LogInv

-----------------------------------------------------------------------------
(* Lemmas about the operators.                                             *)

\* Update keeps a window a window; its head is the old one or the new
\* cumulative ack, and is an ack once the window has been updated.
LEMMA UpdateWindow ==
    ASSUME NEW w \in AckWindows(Frames), NEW i \in Frames, NEW sel \in BOOLEAN,
           w.updated => w.head # -1
    PROVE  /\ Update(w, i, sel) \in AckWindows(Frames)
           /\ \/ Update(w, i, sel).head = w.head
              \/ Update(w, i, sel).head = i /\ ~sel
           /\ Update(w, i, sel).updated => Update(w, i, sel).head # -1
  <1> DEFINE u == Update(w, i, sel)
  <1>0. w.head \in Frames \cup {-1} /\ w.updated \in BOOLEAN /\ w.selective \subseteq Frames
    BY DEF AckWindows
  <1>1. CASE w.head < i /\ sel
    <2>1. u = [w EXCEPT !.selective = w.selective \cup {i}]
      BY <1>1 DEF Update
    <2> HIDE DEF u
    <2> QED
      BY <1>0, <2>1 DEF AckWindows, u
  <1>2. CASE w.head < i /\ ~sel
    <2>1. u = [w EXCEPT !.head = i, !.updated = TRUE]
      BY <1>2 DEF Update
    <2> HIDE DEF u
    <2>2. u \in AckWindows(Frames) /\ u.head = i
      BY <1>0, <2>1 DEF AckWindows
    <2> QED
      BY <1>2, <2>2 DEF Frames, u
  <1>3. CASE ~(w.head < i)
    <2>1. u = [w EXCEPT !.updated = TRUE]
      BY <1>3 DEF Update
    <2> HIDE DEF u
    <2>2. u \in AckWindows(Frames) /\ u.head = w.head
      BY <1>0, <2>1 DEF AckWindows
    <2> QED
      BY <1>0, <1>3, <2>2 DEF Frames, u
  <1> QED
    BY <1>1, <1>2, <1>3

\* A reset keeps the head and reports nothing.
LEMMA ResetWindow ==
    ASSUME NEW w \in AckWindows(Frames)
    PROVE  /\ Reset(w) \in AckWindows(Frames)
           /\ Reset(w).head = w.head
           /\ ~Reset(w).updated
  BY DEF Reset, AckWindows

\* A new window has no head and nothing to report.
LEMMA EmptyWindow ==
    /\ NewWindow \in AckWindows(Frames)
    /\ NewWindow.head = -1
    /\ ~NewWindow.updated
  BY DEF NewWindow, AckWindows

\* Eviction only removes.
LEMMA KeptIsSubset ==
    ASSUME NEW Q, NEW i
    PROVE  KeptFor(Q, i) \subseteq Q
  BY DEF KeptFor

-----------------------------------------------------------------------------
(* The invariant is inductive.                                             *)

LEMMA InitIInv == Init => IInv
  <1> SUFFICES ASSUME Init PROVE IInv
    OBVIOUS
  <1> USE BoundsAssumption, EmptyWindow DEF Init, None
  <1>1. TypeOK
    <2>1. delivered \in Seq([gen : 1 .. MaxGen, seq : Frames])
      OBVIOUS
    <2>2. nextSend \in 0 .. MaxSeq /\ rNext \in 0 .. MaxSeq /\ gen \in 0 .. MaxGen
      OBVIOUS
    <2> QED
      BY <2>1, <2>2 DEF TypeOK
  <1>2. SenderInv /\ HeadInv /\ AckInv /\ ReceivedInv
    BY DEF SenderInv, HeadInv, AckInv, ReceivedInv
  <1>3. LogInv
    BY DEF LogInv, InOrderWhileFormed
  <1> QED
    BY <1>1, <1>2, <1>3 DEF IInv

\* The head of the loop: acks are applied.
LEMMA ApplyAcksIInv == IInv /\ ApplyAcks => IInv'
  <1> SUFFICES ASSUME IInv, ApplyAcks PROVE IInv'
    OBVIOUS
  <1> USE DEF IInv, ApplyAcks, sender, receiver, None
  <1>0. CumulativelyAcked \subseteq sendItems /\ writing = None
    BY DEF CumulativelyAcked, SenderInv
  <1>1. TypeOK'
    BY <1>0, ResetWindow DEF TypeOK, SelectivelyAcked
  <1>2. SenderInv'
    BY <1>0 DEF SenderInv, CumulativelyAcked, TypeOK, Frames
  <1>3. HeadInv'
    BY DEF HeadInv
  <1>4. AckInv'
    BY ResetWindow DEF AckInv, TypeOK
  <1>5. CumulativelyAcked \subseteq received
    BY DEF AckInv, ReceivedInv, CumulativelyAcked, TypeOK, SenderInv, Frames
  <1>6. ReceivedInv'
    BY <1>5 DEF ReceivedInv
  <1>7. LogInv'
    BY DEF LogInv, InOrderWhileFormed
  <1> QED
    BY <1>1, <1>2, <1>3, <1>4, <1>6, <1>7

\* The writes of the resend loop.
LEMMA ResendBeginIInv ==
    ASSUME IInv, NEW i \in Frames, ResendBegin(i) PROVE IInv'
  <1> USE DEF IInv, ResendBegin, Idle, None
  <1>0. i \in sendItems /\ writing = None /\ i >= 0
    BY DEF SenderInv, TypeOK, Frames
  <1>a. PICK h \in BOOLEAN : /\ packNet' = packNet \cup {Pack(i, h)}
                             /\ h => IsHead(i)
                             /\ heads' = IF h THEN heads \cup {i} ELSE heads
    <2>1. CASE IsHead(i)
      <3>1. IsHead(i) = TRUE
        BY <2>1 DEF IsHead
      <3> QED
        BY <3>1
    <2>2. CASE ~IsHead(i)
      <3>1. IsHead(i) = FALSE
        BY <2>2 DEF IsHead
      <3> QED
        BY <3>1
    <2> QED
      BY <2>1, <2>2
  <1>1. TypeOK'
    <2>1. Pack(i, h) \in Packs
      BY DEF Pack, Packs
    <2> QED
      BY <1>0, <1>a, <2>1 DEF TypeOK, receiver
  <1>2. SenderInv'
    BY <1>0 DEF SenderInv, TypeOK, Frames
  <1>3. IsHead(i) => 0 .. i - 1 \subseteq acked
    <2>1. acked \cup sendItems = 0 .. nextSend - 1 /\ i < nextSend /\ nextSend \in Nat
      BY <1>0 DEF SenderInv, TypeOK, Frames
    <2>2. ASSUME \A j \in sendItems : i <= j, NEW k \in 0 .. i - 1
          PROVE  k \in acked
      BY <1>0, <2>1, <2>2
    <2> QED
      BY <2>2 DEF IsHead, HeadInv
  <1>4. HeadInv'
    BY <1>0, <1>a, <1>3 DEF HeadInv, SenderInv, Pack, TypeOK, Frames
  <1>5. AckInv' /\ ReceivedInv'
    BY DEF AckInv, ReceivedInv, receiver
  <1>6. LogInv'
    BY DEF LogInv, InOrderWhileFormed, receiver
  <1> QED
    BY <1>1, <1>2, <1>4, <1>5, <1>6

LEMMA ResendEndIInv == ASSUME IInv, ResendEnd PROVE IInv'
  <1> USE DEF IInv, ResendEnd, None
  <1>1. TypeOK'
    BY DEF TypeOK, receiver
  <1>2. SenderInv'
    BY DEF SenderInv, TypeOK, Frames
  <1>3. HeadInv' /\ AckInv' /\ ReceivedInv'
    BY DEF HeadInv, AckInv, ReceivedInv, receiver
  <1>4. LogInv'
    BY DEF LogInv, InOrderWhileFormed, receiver
  <1> QED
    BY <1>1, <1>2, <1>3, <1>4

\* The first write of a frame.
LEMMA SendBeginIInv == ASSUME IInv, SendBegin PROVE IInv'
  <1> USE BoundsAssumption DEF IInv, SendBegin, Idle, None
  <1>0. nextSend \in Frames /\ writing = None
    BY DEF TypeOK, Frames
  <1>a. PICK h \in BOOLEAN :
            /\ packNet' = packNet \cup {Pack(nextSend, h)}
            /\ h => sendItems = {}
            /\ heads' = IF h THEN heads \cup {nextSend} ELSE heads
    <2>1. CASE sendItems = {}
      <3>1. (sendItems = {}) = TRUE
        BY <2>1
      <3> QED
        BY <3>1
    <2>2. CASE sendItems # {}
      <3>1. (sendItems = {}) = FALSE
        BY <2>2
      <3> QED
        BY <3>1
    <2> QED
      BY <2>1, <2>2
  <1>1. TypeOK'
    <2>1. nextSend' \in 0 .. MaxSeq
      BY DEF TypeOK
    <2>2. Pack(nextSend, h) \in Packs
      BY <1>0 DEF Pack, Packs
    <2> QED
      BY <1>0, <1>a, <2>1, <2>2 DEF TypeOK, receiver
  <1>2. acked \cup sendItems = 0 .. nextSend - 1
    BY <1>0 DEF SenderInv
  <1>3. SenderInv'
    BY <1>0, <1>2 DEF SenderInv, TypeOK, Frames
  <1>4. HeadInv'
    BY <1>0, <1>a, <1>2 DEF HeadInv, Pack, TypeOK, Frames, Packs
  <1>5. AckInv'
    BY DEF AckInv, receiver
  <1>6. ReceivedInv'
    BY DEF ReceivedInv, receiver, TypeOK
  <1>7. LogInv'
    BY DEF LogInv, InOrderWhileFormed, receiver
  <1> QED
    BY <1>1, <1>3, <1>4, <1>5, <1>6, <1>7

LEMMA SendEndIInv == ASSUME IInv, SendEnd PROVE IInv'
  <1> USE DEF IInv, SendEnd, None
  <1>1. TypeOK'
    BY DEF TypeOK, receiver
  <1>2. SenderInv'
    BY DEF SenderInv, TypeOK, Frames
  <1>3. HeadInv' /\ AckInv' /\ ReceivedInv'
    BY DEF HeadInv, AckInv, ReceivedInv, receiver
  <1>4. LogInv'
    BY DEF LogInv, InOrderWhileFormed, receiver
  <1> QED
    BY <1>1, <1>2, <1>3, <1>4

\* The select returns, or Run does.
LEMMA WakeOrExitIInv == ASSUME IInv, Wake \/ SenderExit PROVE IInv'
  <1> USE DEF IInv, Wake, SenderExit, Idle, None
  <1>1. TypeOK'
    BY DEF TypeOK, receiver
  <1>2. SenderInv'
    <2>1. CASE Wake
      BY <2>1 DEF SenderInv
    <2>2. CASE SenderExit
      <3>1. resendQueue = sendItems /\ failed = {}
        BY <2>2 DEF SenderInv, TypeOK, Frames
      <3> QED
        BY <2>2, <3>1 DEF SenderInv
    <2> QED
      BY <2>1, <2>2
  <1>3. HeadInv' /\ AckInv' /\ ReceivedInv'
    BY DEF HeadInv, AckInv, ReceivedInv, receiver
  <1>4. LogInv'
    BY DEF LogInv, InOrderWhileFormed, receiver
  <1> QED
    BY <1>1, <1>2, <1>3, <1>4

\* The ack goroutine of the sender.
LEMMA AckGoroutineIInv ==
    ASSUME IInv, NEW m \in Acks,
           \/ m \in ackNet /\ (LookupAck(m) \/ DropAck(m))
           \/ m \in looked /\ UpdateAckWindow(m)
    PROVE  IInv'
  <1> USE DEF IInv, LookupAck, DropAck, UpdateAckWindow, Consume, sender, receiver
  <1>0. m.seq \in Frames /\ m.selective \in BOOLEAN
    BY DEF Acks
  <1>1. Update(sWin, m.seq, m.selective) \in AckWindows(Frames)
    BY <1>0, UpdateWindow DEF TypeOK, AckInv
  <1>2. TypeOK'
    BY <1>0, <1>1 DEF TypeOK
  <1>3. SenderInv' /\ HeadInv' /\ ReceivedInv'
    BY DEF SenderInv, HeadInv, ReceivedInv
  <1>4. AckInv'
    <2>1. CASE LookupAck(m) \/ DropAck(m)
      BY <2>1 DEF AckInv
    <2>2. CASE m \in looked /\ UpdateAckWindow(m)
      <3> DEFINE u == Update(sWin, m.seq, m.selective)
      <3>1. /\ u.head = sWin.head \/ (u.head = m.seq /\ ~m.selective)
            /\ u.updated => u.head # -1
        BY <1>0, UpdateWindow DEF AckInv, TypeOK
      <3>2. sWin' = u /\ looked' = {} /\ UNCHANGED <<ackNet, rWin, received>>
        BY <2>2
      <3> HIDE DEF u
      <3> QED
        BY <2>2, <3>1, <3>2 DEF AckInv
    <2> QED
      BY <2>1, <2>2
  <1>5. LogInv'
    BY DEF LogInv, InOrderWhileFormed
  <1> QED
    BY <1>2, <1>3, <1>4, <1>5

\* What receive does, for a receive sequence whose state satisfies the
\* invariant, newly formed or not.
LEMMA ReceiveStep ==
    ASSUME IInv, NEW m \in packNet, NEW next \in 0 .. MaxSeq,
           NEW Q \in SUBSET (0 .. nextSend - 1), NEW w \in AckWindows(Frames), NEW g,
           0 .. next - 1 \subseteq received,
           w.head # -1 => w.head \in received,
           w.updated => w.head # -1,
           Receive(m, next, Q, w, g)
    PROVE  /\ rNext' \in next .. MaxSeq
           /\ rQueue' \subseteq 0 .. nextSend - 1
           /\ rWin' \in AckWindows(Frames)
           /\ rWin'.head # -1 => rWin'.head \in received'
           /\ rWin'.updated => rWin'.head # -1
           /\ received \subseteq received'
           /\ received' \subseteq 0 .. nextSend - 1
           /\ \A i \in received' : 0 .. i \subseteq received'
           /\ 0 .. rNext' - 1 \subseteq received'
           /\ \/ UNCHANGED delivered
              \/ /\ delivered' = Append(delivered, [gen |-> g, seq |-> m.seq])
                 /\ next <= m.seq /\ m.seq < rNext'
           /\ received' \in {received, received \cup {m.seq}}
           /\ received' # received => 0 .. m.seq - 1 \subseteq received
  <1> DEFINE n == HeadJump(m, next)
             others == Q \ {m.seq}
             kept == KeptFor(others, m.seq)
  <1>0. /\ m.seq \in Frames /\ m.head \in BOOLEAN
        /\ m.seq \in 0 .. nextSend - 1
        /\ nextSend \in 0 .. MaxSeq
        /\ m.head => 0 .. m.seq - 1 \subseteq received
        /\ \A i \in received : 0 .. i \subseteq received
        /\ received \subseteq 0 .. nextSend - 1
    BY DEF IInv, TypeOK, Packs, HeadInv, ReceivedInv, Frames
  <1>1. n \in next .. MaxSeq /\ 0 .. n - 1 \subseteq received
    BY <1>0, BoundsAssumption DEF HeadJump, Frames
  <1>2. kept \subseteq 0 .. nextSend - 1
    BY KeptIsSubset
  <1> DEFINE cum == Update(w, m.seq, FALSE)
             sel == Update(w, m.seq, TRUE)
  <1>3. /\ cum \in AckWindows(Frames)
        /\ cum.head = w.head \/ cum.head = m.seq
        /\ cum.updated => cum.head # -1
    BY <1>0, UpdateWindow
  <1>4. /\ sel \in AckWindows(Frames)
        /\ sel.head = w.head
        /\ sel.updated => sel.head # -1
    BY <1>0, UpdateWindow
  <1>5. \/ /\ m.seq = n /\ rNext' = n + 1 /\ rQueue' = others /\ rWin' = cum
           /\ Deliver(m.seq, g)
        \/ /\ m.seq < n /\ rNext' = n /\ rQueue' = others /\ rWin' = cum
           /\ UNCHANGED <<received, delivered>>
        \/ /\ n < m.seq /\ rNext' = n /\ UNCHANGED <<received, delivered>>
           /\ \/ rQueue' = kept \cup {m.seq} /\ rWin' = sel
              \/ rQueue' = kept /\ rWin' = w
    BY DEF Receive
  <1> HIDE DEF n, others, kept, cum, sel
  <1>6. others \subseteq 0 .. nextSend - 1
    BY DEF others
  <1>7. CASE /\ m.seq = n /\ rNext' = n + 1 /\ rQueue' = others /\ rWin' = cum
             /\ Deliver(m.seq, g)
    <2>1. received' = received \cup {m.seq}
      BY <1>7 DEF Deliver
    <2>a. rNext' \in next .. MaxSeq
      BY <1>0, <1>1, <1>7, BoundsAssumption
    <2>b. n \in Nat /\ 0 .. rNext' - 1 = (0 .. n - 1) \cup {n}
      BY <1>0, <1>7
    <2>2. rNext' \in next .. MaxSeq /\ 0 .. rNext' - 1 \subseteq received'
      BY <1>1, <1>7, <2>1, <2>a, <2>b
    <2>3. \A i \in received' : 0 .. i \subseteq received'
      BY <1>0, <1>1, <1>7, <2>1
    <2>4. rWin'.head # -1 => rWin'.head \in received'
      BY <1>3, <1>7, <2>1
    <2>5. received' \subseteq 0 .. nextSend - 1
      BY <1>0, <2>1
    <2>6. next <= m.seq /\ m.seq < rNext'
      BY <1>0, <1>1, <1>7
    <2>7. delivered' = Append(delivered, [gen |-> g, seq |-> m.seq])
      BY <1>7 DEF Deliver
    <2>8. 0 .. m.seq - 1 \subseteq received
      BY <1>1, <1>7
    <2> QED
      BY <1>3, <1>6, <1>7, <2>1, <2>2, <2>3, <2>4, <2>5, <2>6, <2>7, <2>8
  <1>8. CASE /\ m.seq < n /\ rNext' = n /\ rQueue' = others /\ rWin' = cum
             /\ UNCHANGED <<received, delivered>>
    BY <1>0, <1>1, <1>3, <1>6, <1>8
  <1>9. CASE /\ n < m.seq /\ rNext' = n /\ UNCHANGED <<received, delivered>>
             /\ \/ rQueue' = kept \cup {m.seq} /\ rWin' = sel
                \/ rQueue' = kept /\ rWin' = w
    BY <1>0, <1>1, <1>2, <1>4, <1>9
  <1> QED
    BY <1>5, <1>7, <1>8, <1>9

\* A step that appends to the log of receive sequence g what is not below
\* anything the log has of g keeps the log in order.
LEMMA AppendInOrder ==
    ASSUME NEW S, NEW log \in Seq(S), NEW g, NEW i,
           \A j, k \in DOMAIN log :
               j < k /\ log[j].gen = log[k].gen => log[j].seq < log[k].seq,
           \A k \in DOMAIN log : log[k].gen = g => log[k].seq < i
    PROVE  LET l == Append(log, [gen |-> g, seq |-> i])
           IN  \A j, k \in DOMAIN l :
                   j < k /\ l[j].gen = l[k].gen => l[j].seq < l[k].seq
  <1> DEFINE e == [gen |-> g, seq |-> i]
             l == Append(log, e)
  <1>1. /\ DOMAIN log = 1 .. Len(log) /\ Len(log) \in Nat
        /\ DOMAIN l = 1 .. Len(log) + 1
        /\ \A k \in 1 .. Len(log) : l[k] = log[k]
        /\ l[Len(log) + 1] = e
    <2>1. log \in Seq(S \cup {e})
      BY SeqMonotonic
    <2> HIDE DEF e
    <2> QED
      BY <2>1
  <1>2. e.gen = g /\ e.seq = i
    OBVIOUS
  <1> HIDE DEF e, l
  <1>3. ASSUME NEW j \in DOMAIN l, NEW k \in DOMAIN l, j < k, l[j].gen = l[k].gen
        PROVE  l[j].seq < l[k].seq
    <2>1. j \in 1 .. Len(log) /\ l[j] = log[j]
      BY <1>1, <1>3
    <2>2. CASE k = Len(log) + 1
      <3>1. l[k].gen = g /\ l[k].seq = i
        BY <1>1, <1>2, <2>2
      <3>2. log[j].gen = g
        BY <1>3, <2>1, <3>1
      <3> QED
        BY <1>1, <2>1, <3>1, <3>2
    <2>3. CASE k # Len(log) + 1
      <3>1. k \in 1 .. Len(log) /\ l[k] = log[k]
        BY <1>1, <2>3
      <3> QED
        BY <1>1, <1>3, <2>1, <3>1
    <2> QED
      BY <2>2, <2>3
  <1> QED
    BY <1>3 DEF e, l

\* The log after a step that forms or keeps receive sequence g.
LEMMA LogStep ==
    ASSUME IInv, NEW g \in 1 .. MaxGen, NEW i \in Frames, NEW next \in 0 .. MaxSeq,
           gen' = g, rOpen', gen <= g, rNext' \in next .. MaxSeq,
           \A k \in DOMAIN delivered : delivered[k].gen = g => delivered[k].seq < next,
           \/ UNCHANGED delivered
           \/ /\ delivered' = Append(delivered, [gen |-> g, seq |-> i])
              /\ next <= i /\ i < rNext'
    PROVE  delivered' \in Seq([gen : 1 .. MaxGen, seq : Frames]) /\ LogInv'
  <1> USE BoundsAssumption DEF Frames
  <1>0. /\ delivered \in Seq([gen : 1 .. MaxGen, seq : Frames])
        /\ gen \in 0 .. MaxGen
        /\ \A k \in DOMAIN delivered :
              delivered[k].gen <= gen /\ delivered[k].gen \in Nat /\ delivered[k].seq \in Nat
    <2>1. delivered \in Seq([gen : 1 .. MaxGen, seq : Frames]) /\ gen \in 0 .. MaxGen
      BY DEF IInv, TypeOK
    <2>2. \A k \in DOMAIN delivered : delivered[k] \in [gen : 1 .. MaxGen, seq : Frames]
      BY <2>1, ElementOfSeq, LenProperties
    <2>3. \A k \in DOMAIN delivered : delivered[k].gen <= gen
      BY DEF IInv, LogInv
    <2> QED
      BY <2>1, <2>2, <2>3
  <1>1. CASE UNCHANGED delivered
    <2>1. \A k \in DOMAIN delivered' :
            /\ delivered'[k].gen <= gen'
            /\ rOpen' /\ delivered'[k].gen = gen' => delivered'[k].seq < rNext'
      <3> SUFFICES ASSUME NEW k \in DOMAIN delivered
                   PROVE  /\ delivered[k].gen <= gen'
                          /\ delivered[k].gen = gen' => delivered[k].seq < rNext'
        BY <1>1
      <3>1. delivered[k].gen \in Nat /\ delivered[k].seq \in Nat /\ delivered[k].gen <= gen
        BY <1>0
      <3>2. delivered[k].gen = g => delivered[k].seq < next
        OBVIOUS
      <3> QED
        BY <1>0, <3>1, <3>2
    <2> QED
      BY <1>0, <1>1, <2>1 DEF IInv, LogInv, InOrderWhileFormed
  <1>2. CASE /\ delivered' = Append(delivered, [gen |-> g, seq |-> i])
             /\ next <= i /\ i < rNext'
    <2> DEFINE e == [gen |-> g, seq |-> i]
    <2>1. e \in [gen : 1 .. MaxGen, seq : Frames] /\ e.gen = g /\ e.seq = i
      OBVIOUS
    <2>2. delivered' = Append(delivered, e)
      BY <1>2
    <2>3. InOrderWhileFormed'
      <3>2. \A k \in DOMAIN delivered : delivered[k].gen = g => delivered[k].seq < i
        BY <1>0, <1>2
      <3>3. \A j, k \in DOMAIN delivered :
               j < k /\ delivered[j].gen = delivered[k].gen
                   => delivered[j].seq < delivered[k].seq
        BY DEF IInv, LogInv, InOrderWhileFormed
      <3> QED
        BY <1>0, <1>2, <3>2, <3>3, AppendInOrder DEF InOrderWhileFormed
    <2> HIDE DEF e
    <2>4. /\ delivered' \in Seq([gen : 1 .. MaxGen, seq : Frames])
          /\ DOMAIN delivered = 1 .. Len(delivered) /\ Len(delivered) \in Nat
          /\ DOMAIN delivered' = 1 .. Len(delivered) + 1
          /\ \A k \in 1 .. Len(delivered) : delivered'[k] = delivered[k]
          /\ delivered'[Len(delivered) + 1] = e
      BY <1>0, <2>1, <2>2
    <2>5. ASSUME NEW k \in DOMAIN delivered'
          PROVE  /\ delivered'[k].gen <= gen'
                 /\ rOpen' /\ delivered'[k].gen = gen' => delivered'[k].seq < rNext'
      <3>1. CASE k = Len(delivered) + 1
        <4>1. delivered'[k].gen = g /\ delivered'[k].seq = i
          BY <2>1, <2>4, <3>1
        <4> QED
          BY <1>2, <4>1
      <3>2. CASE k \in DOMAIN delivered
        <4>1. delivered'[k] = delivered[k]
          BY <2>4, <3>2
        <4>2. delivered[k].gen <= g
          BY <1>0, <3>2
        <4>3. delivered[k].gen = g => delivered[k].seq < rNext'
          BY <1>0, <3>2
        <4> QED
          BY <4>1, <4>2, <4>3
      <3> QED
        BY <2>4, <2>5, <3>1, <3>2
    <2> QED
      BY <2>3, <2>4, <2>5 DEF LogInv
  <1> QED
    BY <1>1, <1>2

\* A pack reaches a receive sequence, or makes the receive buffer form one.
LEMMA ReceivePackIInv ==
    ASSUME IInv, NEW m \in packNet, ReceivePack(m) \/ FormReceiver(m)
    PROVE  IInv'
  <1>0. /\ TypeOK /\ m.seq \in Frames
        /\ gen \in 0 .. MaxGen /\ MaxGen \in Nat /\ MaxSeq \in Nat
    BY BoundsAssumption DEF IInv, TypeOK, Packs
  <1>1. PICK next \in 0 .. MaxSeq, Q \in SUBSET (0 .. nextSend - 1),
             w \in AckWindows(Frames), g \in 1 .. MaxGen :
            /\ 0 .. next - 1 \subseteq received
            /\ w.head # -1 => w.head \in received
            /\ w.updated => w.head # -1
            /\ Receive(m, next, Q, w, g)
            /\ gen' = g /\ rOpen' = TRUE /\ gen <= g
            /\ \A k \in DOMAIN delivered : delivered[k].gen = g => delivered[k].seq < next
    <2>1. CASE ReceivePack(m)
      <3>1. gen \in 1 .. MaxGen
        BY <1>0, <2>1 DEF ReceivePack, IInv, LogInv, TypeOK
      <3> QED
        BY <2>1, <3>1 DEF ReceivePack, IInv, TypeOK, ReceivedInv, AckInv, LogInv
    <2>2. CASE FormReceiver(m)
      <3>1. gen + 1 \in 1 .. MaxGen
        BY <1>0, <2>2 DEF FormReceiver
      <3>2. \A k \in DOMAIN delivered : delivered[k].gen = gen + 1 => delivered[k].seq < 0
        BY <1>0 DEF IInv, LogInv
      <3>3. 0 \in 0 .. MaxSeq /\ 0 .. 0 - 1 \subseteq received
        BY <1>0
      <3>4. {} \in SUBSET (0 .. nextSend - 1) /\ gen <= gen + 1
        BY <1>0
      <3> QED
        BY <2>2, <3>1, <3>2, <3>3, <3>4, EmptyWindow DEF FormReceiver
    <2> QED
      BY <2>1, <2>2
  <1>2. /\ packNet' \subseteq packNet
        /\ UNCHANGED <<sender, looked, sWin, ackNet, acked, failed>>
    BY DEF ReceivePack, FormReceiver, Consume
  <1>3. /\ rNext' \in next .. MaxSeq
        /\ rQueue' \subseteq 0 .. nextSend - 1
        /\ rWin' \in AckWindows(Frames)
        /\ rWin'.head # -1 => rWin'.head \in received'
        /\ rWin'.updated => rWin'.head # -1
        /\ received \subseteq received'
        /\ received' \subseteq 0 .. nextSend - 1
        /\ \A i \in received' : 0 .. i \subseteq received'
        /\ 0 .. rNext' - 1 \subseteq received'
        /\ \/ UNCHANGED delivered
           \/ /\ delivered' = Append(delivered, [gen |-> g, seq |-> m.seq])
              /\ next <= m.seq /\ m.seq < rNext'
    BY <1>1, ReceiveStep
  <1>4. delivered' \in Seq([gen : 1 .. MaxGen, seq : Frames]) /\ LogInv'
    BY <1>0, <1>1, <1>3, LogStep
  <1>5. TypeOK'
    <2>1. 0 .. nextSend - 1 \subseteq Frames
      BY <1>0 DEF TypeOK, Frames
    <2>2. rNext' \in 0 .. MaxSeq /\ gen' \in 0 .. MaxGen
      BY <1>1, <1>3
    <2> QED
      BY <1>0, <1>1, <1>2, <1>3, <1>4, <2>1, <2>2 DEF TypeOK, sender
  <1>6. SenderInv' /\ HeadInv'
    BY <1>2 DEF IInv, SenderInv, HeadInv, sender
  <1>7. AckInv' /\ ReceivedInv'
    BY <1>2, <1>3 DEF IInv, AckInv, ReceivedInv, sender
  <1> QED
    BY <1>4, <1>5, <1>6, <1>7 DEF IInv

\* A queued frame reaches the front.
LEMMA DrainOneIInv == ASSUME IInv, DrainOne PROVE IInv'
  <1>1. PICK i \in Drainable :
            /\ rQueue' = rQueue \ {i}
            /\ rWin' = Update(rWin, i, FALSE)
            /\ IF i = rNext THEN rNext' = rNext + 1 /\ Deliver(i, gen)
               ELSE UNCHANGED <<rNext, received, delivered>>
    BY DEF DrainOne
  <1>2. /\ i \in rQueue /\ i \in Frames /\ i <= rNext /\ i \in 0 .. nextSend - 1
        /\ rNext \in 0 .. MaxSeq /\ nextSend \in 0 .. MaxSeq
        /\ gen \in 1 .. MaxGen /\ rOpen /\ MaxSeq \in Nat
    BY BoundsAssumption DEF Drainable, DrainOne, IInv, TypeOK, ReceivedInv, LogInv
  <1>3. UNCHANGED <<sender, looked, sWin, rOpen, gen, packNet, ackNet, acked, failed>>
    BY DEF DrainOne
  <1>4. /\ rWin' \in AckWindows(Frames)
        /\ rWin'.head = rWin.head \/ rWin'.head = i
        /\ rWin'.updated => rWin'.head # -1
    BY <1>1, <1>2, UpdateWindow DEF IInv, TypeOK, AckInv
  <1>5. /\ rNext' \in rNext .. MaxSeq
        /\ received' = received \cup {i}
        /\ 0 .. rNext' - 1 \subseteq received'
        /\ \/ UNCHANGED delivered
           \/ /\ delivered' = Append(delivered, [gen |-> gen, seq |-> i])
              /\ rNext <= i /\ i < rNext'
    <2>1. CASE i = rNext
      <3>1. rNext' = rNext + 1 /\ received' = received \cup {i}
        BY <1>1, <2>1 DEF Deliver
      <3>2. 0 .. rNext' - 1 = (0 .. rNext - 1) \cup {i}
        BY <1>2, <2>1, <3>1
      <3> QED
        BY <1>1, <1>2, <2>1, <3>1, <3>2 DEF Deliver, IInv, ReceivedInv
    <2>2. CASE i # rNext
      <3>1. i \in 0 .. rNext - 1
        BY <1>2, <2>2 DEF Frames
      <3> QED
        BY <1>1, <1>2, <2>2, <3>1 DEF IInv, ReceivedInv
    <2> QED
      BY <2>1, <2>2
  <1>6. \A j \in received' : 0 .. j \subseteq received'
    <2>1. 0 .. i - 1 \subseteq received
      BY <1>2 DEF IInv, ReceivedInv, Frames
    <2> QED
      BY <1>2, <1>5, <2>1 DEF IInv, ReceivedInv
  <1>7. delivered' \in Seq([gen : 1 .. MaxGen, seq : Frames]) /\ LogInv'
    <2>1. \A k \in DOMAIN delivered : delivered[k].gen = gen => delivered[k].seq < rNext
      BY <1>2 DEF IInv, LogInv
    <2>2. gen' = gen /\ rOpen' /\ gen <= gen
      BY <1>2, <1>3
    <2> QED
      BY <1>2, <1>5, <2>1, <2>2, LogStep
  <1>8. TypeOK'
    <2>1. rNext' \in 0 .. MaxSeq /\ received' \subseteq Frames /\ rQueue' \subseteq Frames
      BY <1>1, <1>2, <1>5 DEF IInv, TypeOK
    <2> QED
      BY <1>3, <1>4, <1>7, <2>1 DEF IInv, TypeOK, sender
  <1>9. SenderInv' /\ HeadInv'
    BY <1>3 DEF IInv, SenderInv, HeadInv, sender
  <1>10. AckInv'
    BY <1>3, <1>4, <1>5 DEF IInv, AckInv
  <1>11. ReceivedInv'
    BY <1>1, <1>2, <1>3, <1>5, <1>6 DEF IInv, ReceivedInv, sender
  <1> QED
    BY <1>7, <1>8, <1>9, <1>10, <1>11 DEF IInv

\* Acks are written.
LEMMA WriteAcksIInv == ASSUME IInv, WriteAcks PROVE IInv'
  <1> USE DEF IInv, WriteAcks
  <1> DEFINE sel == {Ack(i, TRUE) : i \in SnapshotSelective(rWin)}
             cum == IF rWin.updated THEN {Ack(rWin.head, FALSE)} ELSE {}
  <1>0. /\ ackNet' = ackNet \cup sel \cup cum /\ rWin' = Reset(rWin)
        /\ UNCHANGED <<sender, looked, sWin, receiver, packNet, acked, failed,
                       received, delivered>>
    OBVIOUS
  <1>a. rWin \in AckWindows(Frames) /\ rWin.updated \in BOOLEAN
    BY DEF TypeOK, AckWindows
  <1>1. sel \subseteq Acks /\ \A m \in sel : m.selective
    <2>1. SnapshotSelective(rWin) \subseteq Frames
      BY <1>a DEF SnapshotSelective, AckWindows
    <2>2. \A i \in Frames : Ack(i, TRUE) \in Acks /\ Ack(i, TRUE).selective
      BY DEF Ack, Acks
    <2> QED
      BY <2>1, <2>2
  <1>2. cum \subseteq Acks /\ \A m \in cum : m.seq \in received
    <2>1. CASE rWin.updated
      <3>1. rWin.head \in received /\ rWin.head \in Frames
        BY <2>1, <1>a DEF AckInv, TypeOK
      <3>2. Ack(rWin.head, FALSE) \in Acks /\ Ack(rWin.head, FALSE).seq = rWin.head
        BY <3>1 DEF Ack, Acks
      <3> QED
        BY <2>1, <3>1, <3>2
    <2>2. CASE ~rWin.updated
      BY <2>2
    <2> QED
      BY <2>1, <2>2
  <1>3. Reset(rWin) \in AckWindows(Frames) /\ Reset(rWin).head = rWin.head
        /\ ~Reset(rWin).updated
    BY ResetWindow DEF TypeOK
  <1> HIDE DEF sel, cum
  <1>4. TypeOK'
    BY <1>0, <1>1, <1>2, <1>3 DEF TypeOK, sender, receiver
  <1>5. SenderInv' /\ HeadInv' /\ ReceivedInv'
    BY <1>0 DEF SenderInv, HeadInv, ReceivedInv, sender, receiver
  <1>6. AckInv'
    BY <1>0, <1>1, <1>2, <1>3 DEF AckInv
  <1>7. LogInv'
    BY <1>0 DEF LogInv, InOrderWhileFormed, receiver
  <1> QED
    BY <1>4, <1>5, <1>6, <1>7

\* The receive sequence exits.
LEMMA ReceiverExitIInv == ASSUME IInv, ReceiverExit PROVE IInv'
  <1> USE BoundsAssumption, EmptyWindow DEF IInv, ReceiverExit
  <1>1. TypeOK'
    <2>1. rNext' \in 0 .. MaxSeq
      OBVIOUS
    <2> QED
      BY <2>1 DEF TypeOK, sender
  <1>2. SenderInv' /\ HeadInv' /\ AckInv' /\ ReceivedInv'
    BY DEF SenderInv, HeadInv, AckInv, ReceivedInv, sender
  <1>3. LogInv'
    BY DEF LogInv, InOrderWhileFormed
  <1> QED
    BY <1>1, <1>2, <1>3

\* A route loses a message.
LEMMA LoseIInv == ASSUME IInv, Lose PROVE IInv'
  <1> USE DEF IInv, Lose
  <1>1. TypeOK'
    BY DEF TypeOK, sender, receiver
  <1>2. SenderInv' /\ HeadInv' /\ AckInv' /\ ReceivedInv'
    BY DEF SenderInv, HeadInv, AckInv, ReceivedInv, sender, receiver
  <1>3. LogInv'
    BY DEF LogInv, InOrderWhileFormed, receiver
  <1> QED
    BY <1>1, <1>2, <1>3

\* Nothing happens.
LEMMA StutterIInv == ASSUME IInv, UNCHANGED vars PROVE IInv'
  <1> USE DEF IInv, vars, sender, receiver
  <1>1. TypeOK'
    BY DEF TypeOK
  <1>2. SenderInv' /\ HeadInv' /\ AckInv' /\ ReceivedInv'
    BY DEF SenderInv, HeadInv, AckInv, ReceivedInv
  <1>3. LogInv'
    BY DEF LogInv, InOrderWhileFormed
  <1> QED
    BY <1>1, <1>2, <1>3

LEMMA NextIInv == IInv /\ [Next]_vars => IInv'
  <1> SUFFICES ASSUME IInv, [Next]_vars PROVE IInv'
    OBVIOUS
  <1>1. ASSUME SenderStep PROVE IInv'
    <2>1. ASSUME NEW m \in ackNet, LookupAck(m) \/ DropAck(m) PROVE IInv'
      <3>1. m \in Acks
        BY DEF IInv, TypeOK
      <3> QED
        BY <2>1, <3>1, AckGoroutineIInv
    <2>2. ASSUME NEW m \in looked, UpdateAckWindow(m) PROVE IInv'
      <3>1. m \in Acks
        BY DEF IInv, TypeOK
      <3> QED
        BY <2>2, <3>1, AckGoroutineIInv
    <2> QED
      BY <1>1, <2>1, <2>2, ApplyAcksIInv, ResendBeginIInv, ResendEndIInv,
         SendBeginIInv, SendEndIInv, WakeOrExitIInv DEF SenderStep
  <1>2. ASSUME ReceiverStep PROVE IInv'
    BY <1>2, ReceivePackIInv, DrainOneIInv, WriteAcksIInv, ReceiverExitIInv
       DEF ReceiverStep
  <1> QED
    BY <1>1, <1>2, LoseIInv, StutterIInv DEF Next

-----------------------------------------------------------------------------
(* The theorems.                                                           *)

\* The inductive invariant holds in every state of every behaviour.
THEOREM Invariance == Spec => []IInv
  BY InitIInv, NextIInv, PTL DEF Spec

\* The state of both sequences keeps its shape, whatever the network does.
THEOREM TypeCorrect == Spec => []TypeOK
  <1>1. IInv => TypeOK
    BY DEF IInv
  <1> QED
    BY <1>1, Invariance, PTL

\* The sender's application is never told that a frame arrived that the
\* receiver's application was not given.
THEOREM AckedFramesWereReceived == Spec => []AckedWasReceived
  <1>1. IInv => AckedWasReceived
    BY DEF IInv, ReceivedInv, AckedWasReceived
  <1> QED
    BY <1>1, Invariance, PTL

\* A receive sequence that starts over and jumps to a head skips nothing.
THEOREM NothingSkipped == Spec => []NoFrameSkipped
  <1>1. IInv => NoFrameSkipped
    BY DEF IInv, ReceivedInv, NoFrameSkipped
  <1> QED
    BY <1>1, Invariance, PTL

\* Each receive sequence hands frames over in order, each at most once.
THEOREM OrderWhileFormed == Spec => []InOrderWhileFormed
  <1>1. IInv => InOrderWhileFormed
    BY DEF IInv, LogInv
  <1> QED
    BY <1>1, Invariance, PTL

\* What the receive callback sees has no gap and is in order of send, within
\* the life of each receive sequence.
THEOREM StreamInOrder == Spec => []InOrderWithoutGap
  BY NothingSkipped, OrderWhileFormed, PTL DEF InOrderWithoutGap

\* Every frame sent gets exactly one call of its ack callback.
THEOREM OneCallback == Spec => []CallbackOnce
  <1>1. IInv => CallbackOnce
    <2> SUFFICES ASSUME IInv PROVE CallbackOnce
      OBVIOUS
    <2>1. acked \cap sendItems = {}
      BY DEF IInv, SenderInv, TypeOK, Frames
    <2>2. CASE sOpen
      BY <2>2 DEF IInv, SenderInv, CallbackOnce
    <2>3. CASE ~sOpen
      <3>1. writing = None /\ failed = sendItems
        BY <2>3 DEF IInv, SenderInv, TypeOK
      <3> QED
        BY <2>1, <2>3, <3>1 DEF IInv, SenderInv, CallbackOnce
    <2> QED
      BY <2>2, <2>3
  <1> QED
    BY <1>1, Invariance, PTL

\* The panic for a missing item is unreachable.
THEOREM MissingItemUnreachable == Spec => []NoMissingItem
  <1>1. IInv => NoMissingItem
    <2> SUFFICES ASSUME IInv PROVE NoMissingItem
      OBVIOUS
    <2>1. None \notin sendItems
      BY DEF IInv, TypeOK, Frames, None
    <2> QED
      BY <2>1 DEF IInv, SenderInv, AckInv, NoMissingItem
  <1> QED
    BY <1>1, Invariance, PTL

-----------------------------------------------------------------------------
(* The sequences implement the channel.                                    *)

\* A step of the sender is a step of the channel or invisible.
LEMMA SenderStepImplements ==
    ASSUME IInv, SenderStep PROVE [Channel!Next]_Channel!vars
  <1> USE DEF Channel!vars
  <1>1. CASE ApplyAcks
    <2>1. CASE CumulativelyAcked = {}
      BY <1>1, <2>1 DEF ApplyAcks
    <2>2. CASE CumulativelyAcked # {}
      <3>1. /\ sWin.head \in resendQueue /\ sWin.updated
            /\ CumulativelyAcked = {i \in sendItems : i <= sWin.head}
        BY <2>2 DEF CumulativelyAcked
      <3>2. sWin.head \in received /\ 0 .. sWin.head \subseteq received
        BY <3>1 DEF IInv, AckInv, ReceivedInv
      <3>3. /\ writing = None /\ acked \cup sendItems = 0 .. nextSend - 1
            /\ sWin.head \in 0 .. nextSend - 1 /\ nextSend \in Nat
        BY <1>1, <3>1 DEF ApplyAcks, IInv, SenderInv, TypeOK, None
      <3>4. acked \cup CumulativelyAcked = acked \cup 0 .. sWin.head
        BY <3>1, <3>3
      <3> QED
        BY <1>1, <3>2, <3>4 DEF ApplyAcks, Channel!Next, Channel!Notify
    <2> QED
      BY <2>1, <2>2
  <1>2. CASE SendBegin
    <2>1. nextSend \in Frames
      BY <1>2, BoundsAssumption DEF SendBegin, IInv, TypeOK, Frames
    <2>2. /\ sOpen /\ nextSend' = nextSend + 1
          /\ UNCHANGED <<sOpen, received, acked, failed>>
      BY <1>2 DEF SendBegin, Idle
    <2> QED
      BY <2>1, <2>2 DEF Channel!Next, Channel!Send
  <1>3. CASE SenderExit
    <2>1. resendQueue = sendItems /\ failed = {} /\ acked \cup sendItems = 0 .. nextSend - 1
      BY <1>3 DEF SenderExit, Idle, IInv, SenderInv, TypeOK, Frames, None
    <2>2. acked \cap sendItems = {}
      BY DEF IInv, SenderInv, TypeOK, Frames
    <2> QED
      BY <1>3, <2>1, <2>2 DEF SenderExit, Idle, Channel!Next, Channel!Close
  <1>4. CASE ~(ApplyAcks \/ SendBegin \/ SenderExit)
    BY <1>4 DEF SenderStep, ResendBegin, ResendEnd, SendEnd, Wake, LookupAck,
                DropAck, UpdateAckWindow, sender
  <1> QED
    BY <1>1, <1>2, <1>3, <1>4

\* A step of the receiver makes the next frame received, or is invisible.
LEMMA ReceiverStepImplements ==
    ASSUME IInv, ReceiverStep PROVE [Channel!Next]_Channel!vars
  <1>1. ASSUME NEW i \in 0 .. nextSend - 1, 0 .. i - 1 \subseteq received,
               received' = received \cup {i}, UNCHANGED <<sOpen, nextSend, acked, failed>>
        PROVE  [Channel!Next]_Channel!vars
    <2>1. CASE i \in received
      <3>1. received' = received
        BY <1>1, <2>1
      <3> QED
        BY <1>1, <3>1 DEF Channel!vars
    <2>2. CASE i \notin received
      BY <1>1, <2>2 DEF Channel!Next, Channel!Receive
    <2> QED
      BY <2>1, <2>2
  <1>2. ASSUME NEW m \in packNet, ReceivePack(m) \/ FormReceiver(m)
        PROVE  [Channel!Next]_Channel!vars
    <2>1. /\ m.seq \in 0 .. nextSend - 1
          /\ UNCHANGED <<sOpen, nextSend, acked, failed>>
      BY <1>2 DEF IInv, HeadInv, TypeOK, Packs, Frames, ReceivePack, FormReceiver, sender
    <2>2. /\ received' \in {received, received \cup {m.seq}}
          /\ received' # received => 0 .. m.seq - 1 \subseteq received
      <3>1. CASE ReceivePack(m)
        BY <3>1, ReceiveStep DEF ReceivePack, IInv, TypeOK, ReceivedInv, AckInv
      <3>2. CASE FormReceiver(m)
        <4>1. 0 \in 0 .. MaxSeq /\ 0 .. 0 - 1 \subseteq received
          BY BoundsAssumption
        <4>2. {} \in SUBSET (0 .. nextSend - 1) /\ Receive(m, 0, {}, NewWindow, gen + 1)
          BY <3>2 DEF FormReceiver
        <4> QED
          BY <4>1, <4>2, EmptyWindow, ReceiveStep
      <3> QED
        BY <1>2, <3>1, <3>2
    <2>3. CASE received' = received
      BY <2>1, <2>3 DEF Channel!vars
    <2> QED
      BY <1>1, <2>1, <2>2, <2>3
  <1>3. CASE DrainOne
    <2>1. PICK i \in Drainable :
              IF i = rNext THEN Deliver(i, gen) ELSE UNCHANGED received
      BY <1>3 DEF DrainOne
    <2>2. /\ i \in 0 .. nextSend - 1
          /\ UNCHANGED <<sOpen, nextSend, acked, failed>>
      BY <1>3 DEF DrainOne, Drainable, IInv, ReceivedInv, sender
    <2>3. CASE i = rNext
      BY <1>1, <2>1, <2>2, <2>3 DEF Deliver, IInv, ReceivedInv
    <2>4. CASE i # rNext
      BY <2>1, <2>2, <2>4 DEF Channel!vars
    <2> QED
      BY <2>3, <2>4
  <1>4. CASE WriteAcks \/ ReceiverExit
    BY <1>4 DEF WriteAcks, ReceiverExit, sender, Channel!vars
  <1> QED
    BY <1>2, <1>3, <1>4 DEF ReceiverStep

\* Behind the two applications, a send sequence, its receive sequences and
\* the routes between them are a channel that receives in order and reports
\* every frame once.
THEOREM SequenceImplementsChannel == Spec => ImplementsChannel
  <1>1. Init => Channel!Init
    BY DEF Init, Channel!Init
  <1>2. IInv /\ [Next]_vars => [Channel!Next]_Channel!vars
    <2> SUFFICES ASSUME IInv, [Next]_vars PROVE [Channel!Next]_Channel!vars
      OBVIOUS
    <2>1. CASE Lose \/ UNCHANGED vars
      BY <2>1 DEF Lose, vars, sender, Channel!vars
    <2> QED
      BY <2>1, SenderStepImplements, ReceiverStepImplements DEF Next
  <1> QED
    BY <1>1, <1>2, Invariance, PTL DEF Spec, ImplementsChannel, Channel!Spec

-----------------------------------------------------------------------------
(* The bytes of a set of frames.                                           *)

\* A set of numbers that is not empty has a least one.
LEMMA LeastExists ==
    ASSUME NEW T, T \subseteq Nat, T # {}
    PROVE  \E m \in T : \A y \in T : m <= y
  <1>1. PICK m \in T : \A y \in T : ~(<<y, m>> \in OpToRel(<, Nat))
    BY NatLessThanWellFounded, WFMin
  <1>2. \A y \in T : ~(y < m)
    BY <1>1 DEF OpToRel
  <1> QED BY <1>2

\* A measure of the sets of the first n frames that adds the bytes of each.
Adds(F, n) ==
    /\ F \in [SUBSET (0 .. n - 1) -> Nat]
    /\ F[{}] = 0
    /\ \A S \in SUBSET (0 .. n - 1) : \A i \in S : F[S] = F[S \ {i}] + Bytes[i]
    /\ \A S, T \in SUBSET (0 .. n - 1) : S \subseteq T => F[S] <= F[T]

LEMMA AddsNext ==
    ASSUME NEW n \in Nat, n < MaxSeq, NEW F, Adds(F, n)
    PROVE  \E G : Adds(G, n + 1)
  <1> DEFINE own(S) == IF n \in S THEN Bytes[n] ELSE 0
             rest(S) == S \ {n}
             G == [S \in SUBSET (0 .. n + 1 - 1) |-> F[rest(S)] + own(S)]
  <1>0. Bytes \in [Frames -> Nat] /\ MaxSeq \in Nat /\ n \in Frames
    BY BoundsAssumption, BytesAssumption DEF Frames
  <1>1. \A S \in SUBSET (0 .. n + 1 - 1) :
           rest(S) \in SUBSET (0 .. n - 1) /\ F[rest(S)] \in Nat /\ own(S) \in Nat
    <2> SUFFICES ASSUME NEW S \in SUBSET (0 .. n + 1 - 1)
                 PROVE  rest(S) \in SUBSET (0 .. n - 1) /\ F[rest(S)] \in Nat /\ own(S) \in Nat
      OBVIOUS
    <2>1. rest(S) \in SUBSET (0 .. n - 1)
      OBVIOUS
    <2>2. own(S) \in Nat
      BY <1>0
    <2> HIDE DEF rest, own
    <2> QED BY <2>1, <2>2 DEF Adds
  <1>2. G \in [SUBSET (0 .. n + 1 - 1) -> Nat]
    <2> HIDE DEF rest, own
    <2> QED BY <1>1
  <1>3. \A S \in SUBSET (0 .. n + 1 - 1) : G[S] = F[rest(S)] + own(S)
    OBVIOUS
  <1> HIDE DEF G
  <1>4. G[{}] = 0
    <2>1. rest({}) = {} /\ own({}) = 0 /\ {} \in SUBSET (0 .. n + 1 - 1)
      OBVIOUS
    <2> HIDE DEF rest, own
    <2>2. G[{}] = F[{}] + 0
      BY <1>3, <2>1
    <2> QED BY <2>2 DEF Adds
  <1>5. ASSUME NEW S \in SUBSET (0 .. n + 1 - 1), NEW i \in S
        PROVE  G[S] = G[S \ {i}] + Bytes[i]
    <2>1. S \ {i} \in SUBSET (0 .. n + 1 - 1)
      OBVIOUS
    <2>2. G[S] = F[rest(S)] + own(S) /\ G[S \ {i}] = F[rest(S \ {i})] + own(S \ {i})
      BY <1>3, <2>1
    <2>3. /\ F[rest(S)] \in Nat /\ own(S) \in Nat
          /\ F[rest(S \ {i})] \in Nat /\ own(S \ {i}) \in Nat
      BY <1>1, <2>1
    <2>4. CASE i = n
      <3>1. rest(S \ {i}) = rest(S) /\ own(S) = Bytes[i] /\ own(S \ {i}) = 0
        BY <2>4
      <3> HIDE DEF rest, own
      <3> QED BY <2>2, <2>3, <3>1
    <2>5. CASE i # n
      <3>1. own(S \ {i}) = own(S) /\ rest(S \ {i}) = rest(S) \ {i} /\ i \in rest(S)
        BY <2>5
      <3>2. rest(S) \in SUBSET (0 .. n - 1)
        BY <1>1
      <3>3. i \in Frames /\ Bytes[i] \in Nat
        BY <1>0, <2>5 DEF Frames
      <3> HIDE DEF rest, own
      <3>4. F[rest(S)] = F[rest(S) \ {i}] + Bytes[i]
        BY <3>1, <3>2 DEF Adds
      <3> QED BY <2>2, <2>3, <3>1, <3>3, <3>4
    <2> QED BY <2>4, <2>5
  <1>6. ASSUME NEW S \in SUBSET (0 .. n + 1 - 1), NEW T \in SUBSET (0 .. n + 1 - 1),
               S \subseteq T
        PROVE  G[S] <= G[T]
    <2>1. rest(S) \subseteq rest(T)
      BY <1>6
    <2>2. own(S) <= own(T)
      BY <1>0, <1>6
    <2> HIDE DEF rest, own
    <2>3. F[rest(S)] <= F[rest(T)]
      BY <1>1, <2>1 DEF Adds
    <2> QED BY <1>1, <1>3, <2>2, <2>3
  <1>7. Adds(G, n + 1)
    BY <1>2, <1>4, <1>5, <1>6 DEF Adds
  <1> QED BY <1>7

LEMMA AddsExists ==
    ASSUME NEW n \in 0 .. MaxSeq
    PROVE  \E F : Adds(F, n)
  <1> DEFINE T == {k \in 0 .. MaxSeq : ~\E F : Adds(F, k)}
  <1>0. MaxSeq \in Nat
    BY BoundsAssumption
  <1>1. SUFFICES ASSUME T # {} PROVE FALSE
    OBVIOUS
  <1>2. PICK m \in T : \A y \in T : m <= y
    <2>1. T \subseteq Nat
      BY <1>0
    <2> HIDE DEF T
    <2> QED BY <1>1, <2>1, LeastExists
  <1>3. m \in 0 .. MaxSeq /\ ~\E F : Adds(F, m)
    BY <1>2
  <1>4. m # 0
    <2> SUFFICES ASSUME m = 0 PROVE FALSE
      OBVIOUS
    <2> DEFINE F == [S \in SUBSET (0 .. 0 - 1) |-> 0]
    <2>1. 0 .. 0 - 1 = {} /\ SUBSET (0 .. 0 - 1) = {{}}
      OBVIOUS
    <2>2. Adds(F, 0)
      BY <2>1 DEF Adds
    <2> QED BY <1>3, <2>2
  <1>5. m - 1 \in 0 .. MaxSeq /\ m - 1 \in Nat /\ m - 1 < MaxSeq /\ m - 1 < m /\ m - 1 + 1 = m
    BY <1>0, <1>3, <1>4
  <1>6. m - 1 \notin T
    <2> HIDE DEF T
    <2> QED BY <1>2, <1>3, <1>5
  <1>7. \E F : Adds(F, m - 1)
    BY <1>5, <1>6
  <1>8. \E F : Adds(F, m - 1 + 1)
    BY <1>5, <1>7, AddsNext
  <1> QED BY <1>3, <1>5, <1>8

\* The function of a sum, when g solves its equation and no other does.
LEMMA ByteCountIs ==
    ASSUME NEW S, NEW g,
           g = [s \in SUBSET S |-> IF s = {} THEN 0
                                   ELSE Bytes[CHOOSE x \in s : TRUE]
                                          + g[s \ {CHOOSE x \in s : TRUE}]],
           \A h : h = [s \in SUBSET S |-> IF s = {} THEN 0
                                          ELSE Bytes[CHOOSE x \in s : TRUE]
                                                 + h[s \ {CHOOSE x \in s : TRUE}]]
                    => h = g
    PROVE  ByteCount(S) = g[S]
  <1> DEFINE f == CHOOSE h : h = [s \in SUBSET S |-> IF s = {} THEN 0
                                          ELSE Bytes[CHOOSE x \in s : TRUE]
                                                 + h[s \ {CHOOSE x \in s : TRUE}]]
  <1>1. f = [s \in SUBSET S |-> IF s = {} THEN 0
                                ELSE Bytes[CHOOSE x \in s : TRUE]
                                       + f[s \ {CHOOSE x \in s : TRUE}]]
    BY Zenon
  <1>2. f = g
    BY <1>1, Zenon
  <1>3. ByteCount(S) = f[S]
    BY DEF ByteCount, MapThenSumSet, MapThenFoldSet
  <1> QED BY <1>2, <1>3

\* ByteCount of the frames is such a measure.
LEMMA ByteCountAdds ==
    /\ \A S \in SUBSET Frames : ByteCount(S) \in Nat
    /\ ByteCount({}) = 0
    /\ \A S \in SUBSET Frames : \A i \in S : ByteCount(S) = ByteCount(S \ {i}) + Bytes[i]
    /\ \A S, T \in SUBSET Frames : S \subseteq T => ByteCount(S) <= ByteCount(T)
  <1>0. MaxSeq \in Nat /\ MaxSeq \in 0 .. MaxSeq
    BY BoundsAssumption
  <1>1. PICK F : Adds(F, MaxSeq)
    BY <1>0, AddsExists
  <1>2. /\ F \in [SUBSET Frames -> Nat] /\ F[{}] = 0
        /\ \A S \in SUBSET Frames : \A i \in S : F[S] = F[S \ {i}] + Bytes[i]
        /\ \A S, T \in SUBSET Frames : S \subseteq T => F[S] <= F[T]
    BY <1>1 DEF Adds, Frames
  <1>3. IsFiniteSet(Frames)
    BY <1>0, FS_Interval DEF Frames
  <1>4. ASSUME NEW S \in SUBSET Frames PROVE ByteCount(S) = F[S]
    <2> DEFINE pick(s) == CHOOSE x \in s : TRUE
               g == [s \in SUBSET S |-> F[s]]
               step(h) == [s \in SUBSET S |-> IF s = {} THEN 0
                                              ELSE Bytes[pick(s)] + h[s \ {pick(s)}]]
    <2>1. \A s \in SUBSET S : s # {} => pick(s) \in s
      OBVIOUS
    <2> HIDE DEF pick
    <2>2. ASSUME NEW s \in SUBSET S, s # {}
          PROVE  /\ s \ {pick(s)} \in SUBSET S /\ s \in SUBSET Frames
                 /\ F[s] = Bytes[pick(s)] + F[s \ {pick(s)}]
      <3>1. pick(s) \in s /\ s \in SUBSET Frames /\ s \ {pick(s)} \in SUBSET Frames
        BY <2>1, <2>2
      <3>2. pick(s) \in Frames /\ Bytes[pick(s)] \in Nat /\ F[s \ {pick(s)}] \in Nat
        BY <1>2, <3>1, BytesAssumption
      <3>3. F[s] = F[s \ {pick(s)}] + Bytes[pick(s)]
        BY <1>2, <3>1
      <3> QED BY <3>1, <3>2, <3>3
    <2>3. g = step(g)
      <3>1. \A s \in SUBSET S : g[s] = IF s = {} THEN 0 ELSE Bytes[pick(s)] + g[s \ {pick(s)}]
        BY <1>2, <2>2
      <3> QED BY <3>1
    <2>4. ASSUME NEW h, h = step(h) PROVE h = g
      <3> DEFINE bad == {s \in SUBSET S : h[s] # F[s]}
                 sizes == {Cardinality(s) : s \in bad}
      <3>a. h = [s \in SUBSET S |-> h[s]]
        BY <2>4
      <3>b. \A s \in SUBSET S : h[s] = IF s = {} THEN 0 ELSE Bytes[pick(s)] + h[s \ {pick(s)}]
        BY <2>4
      <3> HIDE DEF step
      <3>1. \A s \in SUBSET S : IsFiniteSet(s) /\ Cardinality(s) \in Nat
        BY <1>3, FS_Subset, FS_CardinalityType
      <3>2. bad = {}
        <4> SUFFICES ASSUME bad # {} PROVE FALSE
          OBVIOUS
        <4>1. sizes \subseteq Nat /\ sizes # {}
          BY <3>1
        <4>2. PICK m \in sizes : \A y \in sizes : m <= y
          <5> HIDE DEF sizes
          <5> QED BY <4>1, LeastExists
        <4>3. PICK s \in SUBSET S : s \in bad /\ m = Cardinality(s)
          BY <4>2
        <4>4. h[s] # F[s]
          BY <4>3
        <4>5. s # {}
          BY <1>2, <3>b, <4>4
        <4>6. s \ {pick(s)} \in SUBSET S /\ F[s] = Bytes[pick(s)] + F[s \ {pick(s)}]
          BY <2>2, <4>5
        <4>7. h[s] = Bytes[pick(s)] + h[s \ {pick(s)}]
          BY <3>b, <4>5
        <4>8. s \ {pick(s)} \in bad
          BY <4>4, <4>6, <4>7
        <4>9. Cardinality(s \ {pick(s)}) = Cardinality(s) - 1
          BY <2>1, <3>1, <4>5, FS_RemoveElement
        <4>10. m <= Cardinality(s \ {pick(s)})
          BY <4>2, <4>8
        <4> QED BY ONLY <3>1, <4>3, <4>9, <4>10
      <3>3. \A s \in SUBSET S : h[s] = F[s]
        BY <3>2
      <3> QED BY <3>a, <3>3
    <2>5. ByteCount(S) = g[S]
      <3> HIDE DEF g
      <3> QED BY <2>3, <2>4, ByteCountIs DEF pick
    <2> QED BY <2>5
  <1>5. \A S \in SUBSET Frames : ByteCount(S) = F[S]
    BY <1>4
  <1>6. \A S \in SUBSET Frames : \A i \in S : S \ {i} \in SUBSET Frames
    OBVIOUS
  <1> QED BY <1>2, <1>5, <1>6

-----------------------------------------------------------------------------
(* What the queues hold.                                                   *)

\* The frames that were written and not acked.
Outstanding == sendItems \cup ({writing} \ {None})

\* What the receiver has of the frames.
Held == rQueue \cup received

\* Nothing but the last frame outstanding goes over the limit of the sender.
SenderBound ==
    \A i \in Outstanding : (\E j \in Outstanding : j < i)
        => ByteCount({j \in Outstanding : j < i}) < ResendQueueMaxByteCount

ReceiverBound ==
    \/ ByteCount(rQueue) < ReceiveQueueMaxByteCount
    \/ Cardinality(rQueue) <= 1

\* Whichever outstanding frames are queued, there is room for any other.
FitsInv ==
    \A S \in SUBSET Outstanding : \A i \in Outstanding \ S : ReceiverCanQueue(S, Bytes[i])

\* The receive sequence is formed once, hands over without a jump, and every
\* selective ack names a frame that it holds.
HeldInv ==
    /\ rOpen \/ gen = 0
    /\ gen = 0 => rNext = 0 /\ rQueue = {}
    /\ received \subseteq 0 .. rNext - 1
    /\ \A m \in ackNet \cup looked : m.selective => m.seq \in Held
    /\ sWin.selective \subseteq Held
    /\ rWin.selective \subseteq Held
    /\ paused \subseteq Held

\* Update records no other selective ack than the one it is given.
LEMMA UpdateSelective ==
    ASSUME NEW w \in AckWindows(Frames), NEW i, NEW sel \in BOOLEAN
    PROVE  /\ Update(w, i, sel).selective \subseteq w.selective \cup {i}
           /\ ~sel => Update(w, i, sel).selective = w.selective
  BY DEF Update, AckWindows

\* The frames outstanding become fewer, except when the next one is written.
LEMMA OutstandingStep ==
    ASSUME IInv, [Next]_vars
    PROVE  \/ Outstanding' \subseteq Outstanding
           \/ /\ Outstanding' = Outstanding \cup {nextSend} /\ Outstanding = resendQueue
              /\ SenderCanQueue /\ nextSend \in Frames
              /\ \A j \in Outstanding : j < nextSend
  <1> USE DEF Outstanding, None
  <1>1. CASE SendBegin
    <2>1. /\ writing = None /\ writing' = nextSend /\ sendItems' = sendItems
          /\ SenderCanQueue /\ nextSend < MaxSeq
      BY <1>1 DEF SendBegin, Idle
    <2>2. /\ nextSend \in Frames /\ -1 \notin Frames /\ resendQueue = sendItems
          /\ sendItems \subseteq 0 .. nextSend - 1
      BY <2>1, BoundsAssumption DEF IInv, TypeOK, SenderInv, Frames
    <2>3. nextSend # -1 /\ nextSend \in Nat
      BY <2>2 DEF Frames
    <2> QED BY <2>1, <2>2, <2>3
  <1>2. CASE ApplyAcks
    BY <1>2 DEF ApplyAcks
  <1>3. CASE \E i \in Frames : ResendBegin(i)
    BY <1>3 DEF ResendBegin, IInv, TypeOK
  <1>4. CASE ResendEnd \/ SendEnd
    BY <1>4 DEF ResendEnd, SendEnd
  <1>5. CASE UNCHANGED <<sendItems, writing>>
    BY <1>5
  <1>6. ASSUME ~SendBegin, ~ApplyAcks, ~\E i \in Frames : ResendBegin(i),
               ~(ResendEnd \/ SendEnd)
        PROVE  UNCHANGED <<sendItems, writing>>
    BY <1>6 DEF Next, SenderStep, ReceiverStep, Wake, SenderExit, LookupAck, DropAck,
                UpdateAckWindow, ReceivePack, FormReceiver, DrainOne, WriteAcks,
                ReceiverExit, Lose, sender, vars
  <1> QED BY <1>1, <1>2, <1>3, <1>4, <1>5, <1>6

\* Frames outstanding are frames.
LEMMA OutstandingFrames ==
    /\ IInv => Outstanding \subseteq Frames
    /\ IInv' => Outstanding' \subseteq Frames
  BY DEF Outstanding, IInv, TypeOK, Frames

LEMMA SenderBoundStep ==
    ASSUME IInv, IInv', SenderBound, [Next]_vars PROVE SenderBound'
  <1>0. Outstanding \subseteq Frames /\ Outstanding' \subseteq Frames
    BY OutstandingFrames
  <1>a. ResendQueueMaxByteCount \in Nat
    BY LimitsAssumption
  <1>1. SUFFICES ASSUME NEW i \in Outstanding', NEW k \in Outstanding', k < i
                 PROVE  ByteCount({j \in Outstanding' : j < i}) < ResendQueueMaxByteCount
    BY DEF SenderBound
  <1> DEFINE new == {j \in Outstanding' : j < i}
             old == {j \in Outstanding : j < i}
  <1>2. new \in SUBSET Frames /\ old \in SUBSET Frames
    BY <1>0
  <1>3. ByteCount(new) \in Nat /\ ByteCount(old) \in Nat
    BY <1>2, ByteCountAdds
  <1>4. CASE Outstanding' \subseteq Outstanding
    <2>1. new \subseteq old
      BY <1>4
    <2>2. ByteCount(old) < ResendQueueMaxByteCount
      BY <1>1, <1>4 DEF SenderBound
    <2>3. ByteCount(new) <= ByteCount(old)
      BY <1>2, <2>1, ByteCountAdds
    <2> QED BY <1>3, <1>a, <2>2, <2>3
  <1>5. CASE /\ Outstanding' = Outstanding \cup {nextSend} /\ Outstanding = resendQueue
             /\ SenderCanQueue /\ nextSend \in Frames
             /\ \A j \in Outstanding : j < nextSend
    <2>1. nextSend \in Nat /\ Outstanding \subseteq Nat
      BY <1>0, <1>5 DEF Frames
    <2>2. CASE i = nextSend
      <3>1. k \in resendQueue
        BY <1>1, <1>5, <2>1, <2>2
      <3>2. \A j \in resendQueue : j \in new
        BY <1>5, <2>1, <2>2
      <3>3. \A j \in new : j \in resendQueue
        BY <1>5, <2>1, <2>2
      <3>4. new = resendQueue
        <4> HIDE DEF new
        <4> QED BY <3>2, <3>3
      <3> QED BY <1>5, <3>1, <3>4 DEF SenderCanQueue
    <2>3. CASE i # nextSend
      <3>1. i \in Outstanding /\ i < nextSend /\ k # nextSend
        BY <1>1, <1>5, <2>1, <2>3
      <3>2. new = old /\ k \in Outstanding
        BY <1>5, <2>1, <3>1
      <3> QED BY <1>1, <3>1, <3>2 DEF SenderBound
    <2> QED BY <2>2, <2>3
  <1> QED BY <1>4, <1>5, OutstandingStep

\* There is room for any other outstanding frame.
LEMMA FitsStep ==
    ASSUME \A i \in Frames : ResendQueueMaxByteCount + Bytes[i] <= ReceiveQueueMaxByteCount,
           IInv, IInv', FitsInv, [Next]_vars
    PROVE  FitsInv'
  <1>0. Outstanding \subseteq Frames /\ Outstanding' \subseteq Frames
    BY OutstandingFrames
  <1>a. /\ ResendQueueMaxByteCount \in Nat /\ ReceiveQueueMaxByteCount \in Nat
        /\ \A i \in Frames : Bytes[i] \in Nat
    BY LimitsAssumption, BytesAssumption
  <1>1. SUFFICES ASSUME NEW S \in SUBSET Outstanding', NEW i \in Outstanding' \ S
                 PROVE  ReceiverCanQueue(S, Bytes[i])
    BY DEF FitsInv, ReceiverCanQueue
  <1>2. CASE Outstanding' \subseteq Outstanding
    BY <1>2 DEF FitsInv
  <1>3. CASE /\ Outstanding' = Outstanding \cup {nextSend} /\ Outstanding = resendQueue
             /\ SenderCanQueue /\ nextSend \in Frames
    <2>1. CASE resendQueue = {}
      BY <1>3, <2>1 DEF ReceiverCanQueue
    <2>2. CASE ByteCount(resendQueue) < ResendQueueMaxByteCount
      <3> DEFINE all == Outstanding \cup {nextSend}
      <3>1. all \in SUBSET Frames /\ S \cup {i} \in SUBSET Frames /\ S \cup {i} \subseteq all
            /\ S \in SUBSET Frames /\ i \in Frames
        BY <1>0, <1>3
      <3>2. ByteCount(S \cup {i}) = ByteCount(S) + Bytes[i]
        <4>1. (S \cup {i}) \ {i} = S
          OBVIOUS
        <4>2. ByteCount(S \cup {i}) = ByteCount((S \cup {i}) \ {i}) + Bytes[i]
          BY <3>1, ByteCountAdds
        <4> QED BY <4>1, <4>2
      <3>3. ByteCount(S \cup {i}) <= ByteCount(all)
        BY <3>1, ByteCountAdds
      <3>4. ByteCount(all) <= ByteCount(resendQueue) + Bytes[nextSend]
        <4>1. ByteCount(all) = ByteCount(all \ {nextSend}) + Bytes[nextSend]
          BY <3>1, ByteCountAdds
        <4>2. ByteCount(all \ {nextSend}) <= ByteCount(resendQueue)
          <5>1. /\ all \ {nextSend} \subseteq resendQueue
                /\ all \ {nextSend} \in SUBSET Frames /\ resendQueue \in SUBSET Frames
            BY <1>0, <1>3
          <5> QED BY <5>1, ByteCountAdds
        <4>3. /\ ByteCount(all \ {nextSend}) \in Nat /\ ByteCount(resendQueue) \in Nat
              /\ Bytes[nextSend] \in Nat
          <5>1. all \ {nextSend} \in SUBSET Frames /\ resendQueue \in SUBSET Frames
            BY <1>0, <1>3
          <5> QED BY <1>a, <1>3, <5>1, ByteCountAdds
        <4> QED BY ONLY <4>1, <4>2, <4>3
      <3>5. ResendQueueMaxByteCount + Bytes[nextSend] <= ReceiveQueueMaxByteCount
        BY <1>3
      <3>6. /\ ByteCount(S) \in Nat /\ ByteCount(S \cup {i}) \in Nat /\ ByteCount(all) \in Nat
            /\ ByteCount(resendQueue) \in Nat /\ Bytes[i] \in Nat /\ Bytes[nextSend] \in Nat
        <4>1. resendQueue \in SUBSET Frames
          BY <1>0, <1>3
        <4> QED BY <1>a, <1>3, <3>1, <4>1, ByteCountAdds
      <3> HIDE DEF all
      <3>7. ByteCount(S) + Bytes[i] < ReceiveQueueMaxByteCount
        BY ONLY <1>a, <2>2, <3>2, <3>3, <3>4, <3>5, <3>6
      <3> QED BY <3>7 DEF ReceiverCanQueue
    <2> QED BY <1>3, <2>1, <2>2 DEF SenderCanQueue
  <1> QED BY <1>2, <1>3, OutstandingStep

\* The receive queue is in its bound when frames leave it ...
LEMMA InBoundSubset ==
    ASSUME NEW Q \in SUBSET Frames, NEW T \in SUBSET Q,
           ByteCount(Q) < ReceiveQueueMaxByteCount \/ Cardinality(Q) <= 1
    PROVE  ByteCount(T) < ReceiveQueueMaxByteCount \/ Cardinality(T) <= 1
  <1>1. T \in SUBSET Frames /\ IsFiniteSet(Q)
    <2>1. IsFiniteSet(Frames)
      BY BoundsAssumption, FS_Interval DEF Frames
    <2> QED BY <2>1, FS_Subset
  <1>2. /\ Cardinality(T) <= Cardinality(Q) /\ Cardinality(T) \in Nat /\ Cardinality(Q) \in Nat
    BY <1>1, FS_Subset, FS_CardinalityType
  <1>3. /\ ByteCount(T) <= ByteCount(Q) /\ ByteCount(T) \in Nat /\ ByteCount(Q) \in Nat
    BY <1>1, ByteCountAdds
  <1>4. ReceiveQueueMaxByteCount \in Nat
    BY LimitsAssumption
  <1> QED BY ONLY <1>2, <1>3, <1>4, ByteCount(Q) < ReceiveQueueMaxByteCount \/ Cardinality(Q) <= 1

\* ... and when one for which there is room joins it.
LEMMA InBoundAdd ==
    ASSUME NEW T \in SUBSET Frames, NEW i \in Frames, i \notin T, ReceiverCanQueue(T, Bytes[i])
    PROVE  ByteCount(T \cup {i}) < ReceiveQueueMaxByteCount \/ Cardinality(T \cup {i}) <= 1
  <1>1. CASE T = {}
    <2>1. T \cup {i} = {i} /\ Cardinality({i}) = 1
      BY <1>1, FS_Singleton
    <2> QED BY <2>1
  <1>2. CASE ByteCount(T) + Bytes[i] < ReceiveQueueMaxByteCount
    <2>1. (T \cup {i}) \ {i} = T
      OBVIOUS
    <2>2. ByteCount(T \cup {i}) = ByteCount((T \cup {i}) \ {i}) + Bytes[i]
      BY ByteCountAdds
    <2> QED BY <1>2, <2>1, <2>2
  <1> QED BY <1>1, <1>2 DEF ReceiverCanQueue

LEMMA ReceiveBound ==
    ASSUME NEW m, m.seq \in Frames, NEW next, NEW Q \in SUBSET Frames, NEW w, NEW g,
           ByteCount(Q) < ReceiveQueueMaxByteCount \/ Cardinality(Q) <= 1,
           Receive(m, next, Q, w, g)
    PROVE  ReceiverBound'
  <1> DEFINE others == Q \ {m.seq}
             kept == KeptFor(others, m.seq)
  <1>1. kept \subseteq others
    BY KeptIsSubset
  <1>2. \/ rQueue' = others \/ rQueue' = kept
        \/ rQueue' = kept \cup {m.seq} /\ ReceiverCanQueue(kept, Bytes[m.seq])
    BY DEF Receive
  <1> HIDE DEF kept
  <1>3. others \in SUBSET Q /\ kept \in SUBSET Q /\ kept \in SUBSET Frames /\ m.seq \notin kept
    BY <1>1
  <1> HIDE DEF others
  <1>4. CASE rQueue' = others
    BY <1>3, <1>4, InBoundSubset DEF ReceiverBound
  <1>5. CASE rQueue' = kept
    BY <1>3, <1>5, InBoundSubset DEF ReceiverBound
  <1>6. CASE rQueue' = kept \cup {m.seq} /\ ReceiverCanQueue(kept, Bytes[m.seq])
    <2>1. \/ ByteCount(kept \cup {m.seq}) < ReceiveQueueMaxByteCount
          \/ Cardinality(kept \cup {m.seq}) <= 1
      BY <1>3, <1>6, InBoundAdd
    <2> QED BY <1>6, <2>1 DEF ReceiverBound
  <1> QED BY <1>2, <1>4, <1>5, <1>6

LEMMA ReceiverBoundStep ==
    ASSUME IInv, ReceiverBound, [Next]_vars PROVE ReceiverBound'
  <1>0. rQueue \in SUBSET Frames /\ {} \in SUBSET Frames
    BY DEF IInv, TypeOK
  <1>a. Cardinality({}) <= 1
    BY FS_EmptySet
  <1>1. ASSUME NEW m \in packNet, ReceivePack(m) \/ FormReceiver(m) PROVE ReceiverBound'
    <2>1. m.seq \in Frames
      BY DEF IInv, TypeOK, Packs
    <2>2. CASE ReceivePack(m)
      BY <1>0, <2>1, <2>2, ReceiveBound DEF ReceivePack, ReceiverBound
    <2>3. CASE FormReceiver(m)
      <3>1. Receive(m, 0, {}, NewWindow, gen + 1)
        BY <2>3 DEF FormReceiver
      <3> QED BY <1>0, <1>a, <2>1, <3>1, ReceiveBound
    <2> QED BY <1>1, <2>2, <2>3
  <1>2. ASSUME rQueue' \in SUBSET rQueue PROVE ReceiverBound'
    BY <1>0, <1>2, InBoundSubset DEF ReceiverBound
  <1>3. ASSUME ~\E m \in packNet : ReceivePack(m) \/ FormReceiver(m)
        PROVE  rQueue' \in SUBSET rQueue
    BY <1>3 DEF Next, SenderStep, ReceiverStep, ApplyAcks, ResendBegin, ResendEnd, SendBegin,
                SendEnd, Wake, SenderExit, LookupAck, DropAck, UpdateAckWindow, DrainOne,
                WriteAcks, ReceiverExit, Lose, receiver, sender, vars
  <1> QED BY <1>1, <1>2, <1>3

\* Neither end ever queues more than its limit, but for one frame.
THEOREM QueuesAreBounded == Spec => []BoundedQueues
  <1>1. Init => SenderBound /\ ReceiverBound
    BY FS_EmptySet DEF Init, SenderBound, ReceiverBound, Outstanding
  <1>2. IInv /\ IInv' /\ SenderBound /\ ReceiverBound /\ [Next]_vars
          => SenderBound' /\ ReceiverBound'
    BY SenderBoundStep, ReceiverBoundStep
  <1>3. IInv /\ SenderBound /\ ReceiverBound => BoundedQueues
    <2> SUFFICES ASSUME IInv, SenderBound, ReceiverBound,
                        NEW i \in sendItems, NEW k \in sendItems, k < i
                 PROVE  ByteCount({j \in sendItems : j < i}) < ResendQueueMaxByteCount
      BY DEF BoundedQueues, ReceiverBound
    <2> DEFINE some == {j \in sendItems : j < i}
               all == {j \in Outstanding : j < i}
    <2>1. some \subseteq all /\ some \in SUBSET Frames /\ all \in SUBSET Frames
          /\ i \in Outstanding /\ k \in Outstanding
      BY OutstandingFrames DEF Outstanding
    <2>2. ByteCount(all) < ResendQueueMaxByteCount
      BY <2>1 DEF SenderBound
    <2>3. ByteCount(some) <= ByteCount(all) /\ ByteCount(some) \in Nat /\ ByteCount(all) \in Nat
      BY <2>1, ByteCountAdds
    <2> QED BY <2>2, <2>3, LimitsAssumption
  <1>4. Spec => [](SenderBound /\ ReceiverBound)
    BY <1>1, <1>2, Invariance, PTL DEF Spec
  <1> QED BY <1>3, <1>4, Invariance, PTL

\* A pack that the receive sequence takes makes it lose nothing it holds.
LEMMA ReceiveKeeps ==
    ASSUME IInv, FitsInv, HeldInv, NEW m \in packNet, NEW w \in AckWindows(Frames), NEW g,
           w.selective \subseteq Held, \A i \in rQueue : rNext < i,
           Receive(m, rNext, rQueue, w, g)
    PROVE  /\ Held \subseteq Held'
           /\ received' \subseteq 0 .. rNext' - 1
           /\ rWin'.selective \subseteq Held'
  <1> DEFINE others == rQueue \ {m.seq}
             kept == KeptFor(others, m.seq)
             cum == Update(w, m.seq, FALSE)
             sel == Update(w, m.seq, TRUE)
  <1>0. /\ m.seq \in Frames /\ m.seq \in 0 .. nextSend - 1 /\ m.head \in BOOLEAN
        /\ rNext \in 0 .. MaxSeq /\ nextSend \in 0 .. MaxSeq /\ MaxSeq \in Nat
        /\ received \subseteq 0 .. rNext - 1 /\ 0 .. rNext - 1 \subseteq received
        /\ acked \subseteq received
        /\ rQueue \subseteq 0 .. nextSend - 1
        /\ acked \cup Outstanding = 0 .. nextSend - 1
        /\ m.head => 0 .. m.seq - 1 \subseteq acked
    BY BoundsAssumption DEF IInv, TypeOK, Packs, HeadInv, ReceivedInv, SenderInv, HeldInv,
                            Frames, Outstanding
  <1>1. HeadJump(m, rNext) = rNext
    <2>1. ASSUME m.head PROVE ~(rNext < m.seq)
      <3> SUFFICES ASSUME rNext < m.seq PROVE FALSE
        OBVIOUS
      <3>1. rNext \in 0 .. m.seq - 1
        BY <1>0
      <3>2. rNext \in received
        BY <1>0, <2>1, <3>1
      <3> QED BY <1>0, <3>2
    <2> QED BY <2>1 DEF HeadJump
  <1>a. \/ /\ m.seq = rNext /\ rNext' = rNext + 1 /\ rQueue' = others
           /\ rWin' = cum /\ Deliver(m.seq, g)
        \/ /\ m.seq < rNext /\ rNext' = rNext /\ rQueue' = others
           /\ rWin' = cum /\ UNCHANGED received
        \/ /\ rNext < m.seq /\ rNext' = rNext /\ UNCHANGED received
           /\ IF ReceiverCanQueue(kept, Bytes[m.seq])
              THEN rQueue' = kept \cup {m.seq} /\ rWin' = sel
              ELSE rQueue' = kept /\ rWin' = w
    BY <1>1 DEF Receive
  <1>b. m.seq \in Nat /\ rNext \in Nat
    BY <1>0 DEF Frames
  <1>2. /\ cum.selective = w.selective
        /\ sel.selective \subseteq w.selective \cup {m.seq}
    BY UpdateSelective
  <1> HIDE DEF cum, sel
  <1>3. CASE m.seq = rNext
    <2>1. /\ rNext' = rNext + 1 /\ rQueue' = others /\ received' = received \cup {m.seq}
          /\ rWin' = cum
      <3> HIDE DEF others, kept
      <3> QED BY <1>a, <1>b, <1>3 DEF Deliver
    <2>2. Held' = Held \cup {m.seq}
      BY <2>1 DEF Held
    <2>3. received' \subseteq 0 .. rNext' - 1
      <3>1. rNext' = rNext + 1 /\ received' = received \cup {rNext}
        BY <1>3, <2>1
      <3>2. received \subseteq 0 .. rNext - 1
        BY <1>0
      <3> QED BY ONLY <1>b, <3>1, <3>2
    <2> QED BY <1>2, <2>1, <2>2, <2>3
  <1>4. CASE m.seq < rNext
    <2>1. /\ rNext' = rNext /\ rQueue' = others /\ received' = received
          /\ rWin' = cum
      <3> HIDE DEF others, kept
      <3> QED BY <1>a, <1>b, <1>4
    <2>2. m.seq \in received
      BY <1>0, <1>4
    <2>3. Held' = Held \cup {m.seq}
      BY <2>1, <2>2 DEF Held
    <2> QED BY <1>0, <1>2, <2>1, <2>3
  <1>5. CASE rNext < m.seq
    <2>1. /\ rNext' = rNext /\ received' = received
          /\ IF ReceiverCanQueue(kept, Bytes[m.seq])
             THEN rQueue' = kept \cup {m.seq} /\ rWin' = sel
             ELSE rQueue' = kept /\ rWin' = w
      <3> HIDE DEF others, kept
      <3> QED BY <1>a, <1>b, <1>5
    <2>2. others \in SUBSET Outstanding /\ m.seq \in Outstanding \ others
      <3>1. ASSUME NEW i \in 0 .. nextSend - 1, rNext < i PROVE i \in Outstanding
        <4>1. i \notin acked
          BY <1>0, <3>1
        <4> QED BY <1>0, <4>1
      <3> QED BY <1>0, <1>5, <3>1
    <2>3. ReceiverCanQueue(others, Bytes[m.seq])
      BY <2>2 DEF FitsInv
    <2>4. kept = others
      <3> HIDE DEF others
      <3> QED BY <2>3 DEF KeptFor
    <2>5. rQueue' = others \cup {m.seq} /\ rWin' = sel
      BY <2>1, <2>3, <2>4
    <2>6. Held' = Held \cup {m.seq}
      BY <2>1, <2>5 DEF Held
    <2> QED BY <1>0, <1>2, <2>1, <2>5, <2>6
  <1> QED BY <1>0, <1>3, <1>4, <1>5

\* The receive queue and what was received, together, only grow.
LEMMA HeldStep ==
    ASSUME MaxGen <= 1, IInv, FitsInv, HeldInv, [Next]_vars
    PROVE  /\ Held \subseteq Held'
           /\ rOpen' \/ gen' = 0
           /\ gen' = 0 => rNext' = 0 /\ rQueue' = {}
           /\ received' \subseteq 0 .. rNext' - 1
           /\ rWin'.selective \subseteq Held'
  <1>0. /\ MaxGen \in Nat /\ gen \in 0 .. MaxGen /\ rWin \in AckWindows(Frames)
        /\ rNext \in 0 .. MaxSeq /\ rQueue \subseteq Frames /\ (rOpen => gen >= 1)
        /\ 0 .. rNext - 1 \subseteq received
    BY BoundsAssumption DEF IInv, TypeOK, LogInv, ReceivedInv
  <1>1. ASSUME NEW m \in packNet, ReceivePack(m)
        PROVE  /\ Held \subseteq Held' /\ rOpen' /\ gen' # 0
               /\ received' \subseteq 0 .. rNext' - 1 /\ rWin'.selective \subseteq Held'
    <2>1. /\ rOpen /\ UNCHANGED <<rOpen, gen>> /\ Drainable = {}
          /\ Receive(m, rNext, rQueue, rWin, gen)
      BY <1>1 DEF ReceivePack
    <2>2. \A i \in rQueue : rNext < i
      BY <1>0, <2>1 DEF Drainable, Frames
    <2>3. rWin.selective \subseteq Held
      BY DEF HeldInv
    <2>4. /\ Held \subseteq Held' /\ received' \subseteq 0 .. rNext' - 1
          /\ rWin'.selective \subseteq Held'
      BY <1>0, <2>1, <2>2, <2>3, ReceiveKeeps
    <2> QED BY <1>0, <2>1, <2>4
  <1>2. ASSUME NEW m \in packNet, FormReceiver(m)
        PROVE  /\ Held \subseteq Held' /\ rOpen' /\ gen' # 0
               /\ received' \subseteq 0 .. rNext' - 1 /\ rWin'.selective \subseteq Held'
    <2>1. /\ ~rOpen /\ rOpen' /\ gen' = gen + 1
          /\ Receive(m, 0, {}, NewWindow, gen + 1)
      BY <1>2 DEF FormReceiver
    <2>2. gen = 0 /\ rNext = 0 /\ rQueue = {}
      BY <2>1 DEF HeldInv
    <2>3. NewWindow \in AckWindows(Frames) /\ NewWindow.selective = {}
      BY EmptyWindow DEF NewWindow
    <2>4. Receive(m, rNext, rQueue, NewWindow, gen + 1)
      BY <2>1, <2>2
    <2>5. /\ Held \subseteq Held' /\ received' \subseteq 0 .. rNext' - 1
          /\ rWin'.selective \subseteq Held'
      BY <2>2, <2>3, <2>4, ReceiveKeeps
    <2> QED BY <2>1, <2>2, <2>5
  <1>3. CASE DrainOne
    <2>1. PICK i \in Drainable :
              /\ rQueue' = rQueue \ {i} /\ rWin' = Update(rWin, i, FALSE)
              /\ IF i = rNext THEN rNext' = rNext + 1 /\ Deliver(i, gen)
                 ELSE UNCHANGED <<rNext, received, delivered>>
      BY <1>3 DEF DrainOne
    <2>2. i \in rQueue /\ i <= rNext /\ i \in Nat /\ rOpen /\ UNCHANGED <<rOpen, gen>>
      BY <1>0, <1>3, <2>1 DEF DrainOne, Drainable, Frames
    <2>3. rWin'.selective = rWin.selective
      BY <1>0, <2>1, UpdateSelective
    <2>4. CASE i = rNext
      <3>1. rNext' = rNext + 1 /\ received' = received \cup {i}
        BY <2>1, <2>4 DEF Deliver
      <3>2. Held' = Held
        BY <2>1, <2>2, <3>1 DEF Held
      <3>3. received' \subseteq 0 .. rNext' - 1
        BY <1>0, <2>4, <3>1 DEF HeldInv
      <3> QED BY <1>0, <2>2, <2>3, <3>2, <3>3 DEF HeldInv
    <2>5. CASE i # rNext
      <3>1. UNCHANGED <<rNext, received>> /\ i \in received
        BY <1>0, <2>1, <2>2, <2>5
      <3>2. Held' = Held
        BY <2>1, <2>2, <3>1 DEF Held
      <3> QED BY <1>0, <2>2, <2>3, <3>1, <3>2 DEF HeldInv
    <2> QED BY <2>4, <2>5
  <1>4. CASE WriteAcks
    <2>1. /\ rWin' = Reset(rWin) /\ UNCHANGED <<rOpen, rNext, rQueue, gen, received>>
      BY <1>4 DEF WriteAcks, receiver
    <2>2. rWin'.selective = {}
      BY <1>0, <2>1 DEF Reset, AckWindows
    <2> QED BY <2>1, <2>2 DEF HeldInv, Held
  <1>5. ~ReceiverExit
    BY <1>0 DEF ReceiverExit
  <1>6. CASE UNCHANGED <<rOpen, rNext, rQueue, gen, rWin, received>>
    BY <1>6 DEF HeldInv, Held
  <1>7. ASSUME ~\E m \in packNet : ReceivePack(m) \/ FormReceiver(m), ~DrainOne, ~WriteAcks
        PROVE  UNCHANGED <<rOpen, rNext, rQueue, gen, rWin, received>>
    BY <1>5, <1>7 DEF Next, SenderStep, ReceiverStep, ApplyAcks, ResendBegin, ResendEnd,
                SendBegin, SendEnd, Wake, SenderExit, LookupAck, DropAck, UpdateAckWindow,
                Lose, receiver, vars
  <1> QED BY <1>1, <1>2, <1>3, <1>4, <1>6, <1>7

\* The selective acks that travel to the sender.
LEMMA HeldInvStep ==
    ASSUME MaxGen <= 1, IInv, FitsInv, HeldInv, [Next]_vars
    PROVE  HeldInv'
  <1>0. /\ Held \subseteq Held'
        /\ sWin \in AckWindows(Frames) /\ rWin \in AckWindows(Frames)
        /\ ackNet \subseteq Acks /\ looked \subseteq Acks
    BY HeldStep DEF IInv, TypeOK
  <1>1. /\ \A m \in ackNet \cup looked : m.selective => m.seq \in Held
        /\ sWin.selective \subseteq Held /\ rWin.selective \subseteq Held
        /\ paused \subseteq Held
    BY DEF HeldInv
  <1>2. SUFFICES /\ \A m \in ackNet' \cup looked' : m.selective => m.seq \in Held
                 /\ sWin'.selective \subseteq Held
                 /\ paused' \subseteq Held
    BY <1>0, HeldStep DEF HeldInv
  <1>3. CASE ApplyAcks
    <2>1. /\ sWin' = Reset(sWin) /\ UNCHANGED <<ackNet, looked>>
          /\ paused' \subseteq paused \cup SelectivelyAcked
      BY <1>3 DEF ApplyAcks
    <2>2. sWin'.selective = {}
      BY <1>0, <2>1 DEF Reset, AckWindows
    <2>3. SelectivelyAcked \subseteq sWin.selective
      BY DEF SelectivelyAcked, SnapshotSelective
    <2> QED BY <1>1, <2>1, <2>2, <2>3
  <1>4. CASE \E i \in Frames : ResendBegin(i)
    BY <1>1, <1>4 DEF ResendBegin
  <1>5. ASSUME NEW m \in ackNet, LookupAck(m) \/ DropAck(m)
        PROVE  /\ \A x \in ackNet' \cup looked' : x.selective => x.seq \in Held
               /\ sWin'.selective \subseteq Held /\ paused' \subseteq Held
    BY <1>1, <1>5 DEF LookupAck, DropAck, Consume, sender
  <1>6. ASSUME NEW m \in looked, UpdateAckWindow(m)
        PROVE  /\ \A x \in ackNet' \cup looked' : x.selective => x.seq \in Held
               /\ sWin'.selective \subseteq Held /\ paused' \subseteq Held
    <2>1. /\ sWin' = Update(sWin, m.seq, m.selective) /\ looked' = {}
          /\ UNCHANGED <<ackNet, paused>>
      BY <1>6 DEF UpdateAckWindow, sender
    <2>2. m.selective \in BOOLEAN
      BY <1>0 DEF Acks
    <2>3. /\ Update(sWin, m.seq, m.selective).selective \subseteq sWin.selective \cup {m.seq}
          /\ ~m.selective => Update(sWin, m.seq, m.selective).selective = sWin.selective
      BY <1>0, <2>2, UpdateSelective
    <2>4. m.selective => m.seq \in Held
      BY <1>1
    <2> QED BY <1>1, <2>1, <2>3, <2>4
  <1>7. CASE WriteAcks
    <2> DEFINE sel == {Ack(i, TRUE) : i \in SnapshotSelective(rWin)}
               cum == IF rWin.updated THEN {Ack(rWin.head, FALSE)} ELSE {}
    <2>1. ackNet' = ackNet \cup sel \cup cum /\ UNCHANGED <<looked, sWin, paused>>
      BY <1>7 DEF WriteAcks, sender
    <2>2. \A x \in sel : x.seq \in rWin.selective
      <3>1. \A i \in SnapshotSelective(rWin) : i \in rWin.selective /\ Ack(i, TRUE).seq = i
        BY DEF SnapshotSelective, Ack
      <3> QED BY <3>1
    <2>3. \A x \in cum : ~x.selective
      BY DEF Ack
    <2> HIDE DEF sel, cum
    <2> QED BY <1>1, <2>1, <2>2, <2>3
  <1>8. CASE Lose
    BY <1>1, <1>8 DEF Lose, sender
  <1>9. CASE UNCHANGED <<ackNet, looked, sWin, paused>>
    BY <1>1, <1>9
  <1>10. ASSUME ~ApplyAcks, ~\E i \in Frames : ResendBegin(i), ~Lose, ~WriteAcks,
                ~\E m \in ackNet : LookupAck(m) \/ DropAck(m),
                ~\E m \in looked : UpdateAckWindow(m)
         PROVE  UNCHANGED <<ackNet, looked, sWin, paused>>
    BY <1>10 DEF Next, SenderStep, ReceiverStep, ResendEnd, SendBegin, SendEnd, Wake,
                 SenderExit, ReceivePack, FormReceiver, DrainOne, ReceiverExit, sender, vars
  <1> QED BY <1>3, <1>4, <1>5, <1>6, <1>7, <1>8, <1>9, <1>10

\* While its receive sequence lives, a frame that the sender pauses is with the
\* receiver, if the receive queue has room for the resend queue and any frame more.
THEOREM PausedFramesAreHeld ==
    ASSUME MaxGen <= 1,
           \A i \in Frames : ResendQueueMaxByteCount + Bytes[i] <= ReceiveQueueMaxByteCount
    PROVE  Spec => []PausedIsHeld
  <1>1. Init => FitsInv /\ HeldInv
    <2> SUFFICES ASSUME Init PROVE FitsInv /\ HeldInv
      OBVIOUS
    <2>1. Outstanding = {}
      BY DEF Init, Outstanding
    <2> QED BY <2>1 DEF Init, FitsInv, HeldInv, Held, NewWindow
  <1>2. IInv /\ IInv' /\ FitsInv /\ HeldInv /\ [Next]_vars => FitsInv' /\ HeldInv'
    BY FitsStep, HeldInvStep
  <1>3. FitsInv /\ HeldInv => PausedIsHeld
    BY DEF HeldInv, Held, PausedIsHeld
  <1>4. Spec => [](FitsInv /\ HeldInv)
    BY <1>1, <1>2, Invariance, PTL DEF Spec
  <1> QED BY <1>3, <1>4, PTL
=============================================================================
