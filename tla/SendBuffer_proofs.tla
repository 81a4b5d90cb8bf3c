-------------------------- MODULE SendBuffer_proofs --------------------------
(***************************************************************************)
(* Proofs about SendBuffer, for any number of callers, keys and sequences, *)
(* any sizes of the channel and of the resend queue, and any timeouts.     *)
(***************************************************************************)
EXTENDS SendBuffer, FiniteSetTheorems, TLAPS

-----------------------------------------------------------------------------
(* The inductive invariant.                                                *)

\* The packs that a sequence has.
Held(x) == ToSet(x.packs) \cup x.resendQueue

\* A sequence in itself.  When Run has returned it has nothing to resend, and
\* when it has left the buffer no Pack call has its packMutex.  The
\* idle close, and the timer before it, come when no Pack call is open and, if
\* no caller stalls, when the channel is empty.  A pack is in one place only.
SeqOK(x) ==
    /\ x.run \in {"returned", "gone"} => x.cancelled /\ x.resendQueue = {}
    /\ x.run = "gone" => x.packMutex = NoCaller
    /\ x.idleClosed => x.packMutex = NoCaller /\ (~Stalls => x.packs = <<>>)
    /\ x.run = "timer" /\ ~x.updated /\ ~Stalls => x.packMutex = NoCaller /\ x.packs = <<>>
    /\ \A i, j \in DOMAIN x.packs : x.packs[i] = x.packs[j] => i = j
    /\ ToSet(x.packs) \cap x.resendQueue = {}

SeqInv ==
    /\ \A q \in DOMAIN seqs : SeqOK(seqs[q])
    /\ closing # 0 => seqs[closing].run = "returned"

\* A call that is in the select of Pack has packMutex, and one that has not
\* returned has no result.
CallerInv ==
    \A c \in Callers :
        /\ caller[c].pc \in {"lock", "select"} => caller[c].seq \in DOMAIN seqs
        /\ caller[c].pc = "select" => seqs[caller[c].seq].packMutex = c
        /\ caller[c].pc # "done" => caller[c].result = "none"

\* A pack that was accepted is with one sequence, or was called back once.
PlaceInv ==
    /\ \A p, q \in DOMAIN seqs : \A c \in Callers :
          c \in Held(seqs[p]) /\ c \in Held(seqs[q]) => p = q
    /\ \A q \in DOMAIN seqs : \A c \in Callers :
          c \in Held(seqs[q]) => callbacks[c] = 0 /\ caller[c].result = "true"
    /\ \A c \in Callers : callbacks[c] # 0 => callbacks[c] = 1 /\ caller[c].result = "true"
    /\ \A c \in Callers : callbacks[c] = 0 /\ caller[c].result = "true" =>
          \E q \in DOMAIN seqs : c \in Held(seqs[q])

IInv == TypeOK /\ SeqInv /\ CallerInv /\ RunningIsReachable /\ PlaceInv

-----------------------------------------------------------------------------
(* Sequences of records.                                                   *)

\* One element of a sequence is replaced.
LEMMA Replaced ==
    ASSUME NEW T, NEW s \in Seq(T), NEW q \in DOMAIN s, NEW x \in T,
           NEW t, t = [s EXCEPT ![q] = x]
    PROVE  /\ t \in Seq(T) /\ Len(t) = Len(s) /\ DOMAIN t = DOMAIN s
           /\ \A p \in DOMAIN s : t[p] = IF p = q THEN x ELSE s[p]
  OBVIOUS

\* An element is added.
LEMMA Added ==
    ASSUME NEW T, NEW s \in Seq(T), NEW x \in T, NEW t, t = Append(s, x)
    PROVE  /\ t \in Seq(T) /\ Len(t) = Len(s) + 1 /\ Len(s) \in Nat
           /\ DOMAIN s = 1 .. Len(s) /\ DOMAIN t = 1 .. Len(s) + 1
           /\ \A p \in DOMAIN s : t[p] = s[p]
           /\ t[Len(s) + 1] = x
  OBVIOUS

\* What the first element of the channel and the rest are.
LEMMA HeadAndTail ==
    ASSUME NEW s \in Seq(Callers), s # <<>>, \A i, j \in DOMAIN s : s[i] = s[j] => i = j
    PROVE  /\ Head(s) \in Callers /\ Tail(s) \in Seq(Callers)
           /\ ToSet(s) = {Head(s)} \cup ToSet(Tail(s)) /\ Head(s) \notin ToSet(Tail(s))
           /\ \A i, j \in DOMAIN Tail(s) : Tail(s)[i] = Tail(s)[j] => i = j
  <1>1. /\ Len(s) \in Nat \ {0} /\ Head(s) = s[1] /\ Tail(s) \in Seq(Callers)
        /\ DOMAIN s = 1 .. Len(s) /\ DOMAIN Tail(s) = 1 .. Len(s) - 1
        /\ \A i \in 1 .. Len(s) - 1 : Tail(s)[i] = s[i + 1]
    OBVIOUS
  <1>2. Head(s) \in Callers
    BY <1>1
  <1>3. \A i, j \in DOMAIN Tail(s) : Tail(s)[i] = Tail(s)[j] => i = j
    BY <1>1
  <1>4. \A c : c \in ToSet(s) <=> c = Head(s) \/ c \in ToSet(Tail(s))
    <2>1. ASSUME NEW c \in ToSet(s) PROVE c = Head(s) \/ c \in ToSet(Tail(s))
      <3>1. PICK i \in 1 .. Len(s) : s[i] = c
        BY <1>1 DEF ToSet
      <3>2. CASE i = 1
        BY <1>1, <3>1, <3>2
      <3>3. CASE i # 1
        <4>1. i - 1 \in DOMAIN Tail(s) /\ Tail(s)[i - 1] = c
          BY <1>1, <3>1, <3>3
        <4> QED BY <4>1 DEF ToSet
      <3> QED BY <3>2, <3>3
    <2>2. Head(s) \in ToSet(s)
      BY <1>1 DEF ToSet
    <2>3. ASSUME NEW c \in ToSet(Tail(s)) PROVE c \in ToSet(s)
      <3>1. PICK i \in DOMAIN Tail(s) : Tail(s)[i] = c
        BY DEF ToSet
      <3>2. i + 1 \in DOMAIN s /\ s[i + 1] = c
        BY <1>1, <3>1
      <3> QED BY <3>2 DEF ToSet
    <2> QED BY <2>1, <2>2, <2>3
  <1>5. Head(s) \notin ToSet(Tail(s))
    <2> SUFFICES ASSUME Head(s) \in ToSet(Tail(s)) PROVE FALSE
      OBVIOUS
    <2>1. PICK i \in DOMAIN Tail(s) : Tail(s)[i] = Head(s)
      BY DEF ToSet
    <2>2. i + 1 \in DOMAIN s /\ 1 \in DOMAIN s /\ s[i + 1] = s[1] /\ i + 1 # 1
      BY <1>1, <2>1
    <2> QED BY <2>2
  <1> QED BY <1>1, <1>2, <1>3, <1>4, <1>5

\* A pack that is new to the channel is put into it.
LEMMA PutInto ==
    ASSUME NEW s \in Seq(Callers), NEW c \in Callers, c \notin ToSet(s),
           \A i, j \in DOMAIN s : s[i] = s[j] => i = j
    PROVE  LET t == Append(s, c)
           IN  /\ t \in Seq(Callers) /\ ToSet(t) = ToSet(s) \cup {c}
               /\ \A i, j \in DOMAIN t : t[i] = t[j] => i = j
  <1> DEFINE t == Append(s, c)
             n == Len(s) + 1
  <1>1. /\ t \in Seq(Callers) /\ DOMAIN t = 1 .. n /\ DOMAIN s = 1 .. Len(s) /\ Len(s) \in Nat
        /\ t[n] = c /\ \A i \in DOMAIN s : t[i] = s[i]
    OBVIOUS
  <1> HIDE DEF t
  <1>2. \A i \in DOMAIN t : i = n \/ i \in DOMAIN s
    BY <1>1
  <1>3. \A i \in DOMAIN s : s[i] # c
    BY DEF ToSet
  <1>4. \A i, j \in DOMAIN t : t[i] = t[j] => i = j
    BY <1>1, <1>2, <1>3
  <1>5. \A d : d \in ToSet(t) <=> d \in ToSet(s) \/ d = c
    <2>1. n \in DOMAIN t /\ \A i \in DOMAIN s : i \in DOMAIN t
      BY <1>1
    <2> QED BY <1>1, <1>2, <2>1 DEF ToSet
  <1> QED BY <1>1, <1>4, <1>5 DEF t

-----------------------------------------------------------------------------
(* Steps.                                                                  *)

\* What the invariant says of the sequences,
LEMMA SeqFacts ==
    ASSUME IInv
    PROVE  /\ seqs \in Seq(SequenceType) /\ Len(seqs) \in Nat /\ DOMAIN seqs = 1 .. Len(seqs)
           /\ \A q \in DOMAIN seqs : seqs[q] \in SequenceType /\ SeqOK(seqs[q])
           /\ \A q \in DOMAIN seqs : seqs[q].key \in Keys /\ seqs[q].packs \in Seq(Callers)
                                      /\ seqs[q].resendQueue \subseteq Callers
  <1>1. seqs \in Seq(SequenceType)
    BY DEF IInv, TypeOK
  <1>2. Len(seqs) \in Nat /\ DOMAIN seqs = 1 .. Len(seqs) /\ \A q \in DOMAIN seqs : seqs[q] \in SequenceType
    BY <1>1
  <1>3. \A q \in DOMAIN seqs : SeqOK(seqs[q])
    BY DEF IInv, SeqInv
  <1>4. \A x \in SequenceType : x.key \in Keys /\ x.packs \in Seq(Callers) /\ x.resendQueue \subseteq Callers
    BY DEF SequenceType
  <1> QED BY <1>1, <1>2, <1>3, <1>4

\* and of the rest.
LEMMA Facts ==
    ASSUME IInv
    PROVE  /\ sendSequences \in [Keys -> 0 .. Len(seqs)] /\ closing \in 0 .. Len(seqs)
           /\ associated \subseteq DOMAIN seqs /\ callbacks \in [Callers -> Nat]
           /\ \A c \in Callers : caller[c].seq \in 0 .. Len(seqs) /\ caller[c].key \in Keys
           /\ NoCaller \notin Callers
  <1>1. \A c \in Callers : caller[c] \in [pc : {"init", "lock", "select", "done"}, key : Keys,
                               seq : 0 .. Len(seqs), attempt : 1 .. 2,
                               result : {"none", "true", "false", "error"}]
    BY DEF IInv, TypeOK
  <1> QED BY <1>1, BufferBounds DEF IInv, TypeOK

\* A step of the goroutine of q, which leaves its sequence as x, calls the
\* packs of back back and may remove q from the buffer when it is over.
LEMMA SeqStep ==
    ASSUME IInv, NEW q \in DOMAIN seqs, NEW x \in SequenceType, NEW back,
           seqs' = [seqs EXCEPT ![q] = x], SeqOK(x),
           x.key = seqs[q].key, x.packMutex = seqs[q].packMutex,
           seqs[q].cancelled => x.cancelled,
           back \subseteq Held(seqs[q]), Held(x) = Held(seqs[q]) \ back,
           CalledBack(back),
           associated' \subseteq DOMAIN seqs,
           sendSequences' \in [Keys -> 0 .. Len(seqs)],
           x.run \in {"loop", "select", "timer"} => seqs[q].run \in {"loop", "select", "timer"},
           \A k \in Keys : sendSequences'[k] = sendSequences[k] \/ sendSequences[k] = q,
           x.run \in {"loop", "select", "timer"} => UNCHANGED sendSequences,
           closing' = 0 \/ (closing' = closing /\ closing # q),
           UNCHANGED caller
    PROVE  IInv'
  <1>1. /\ seqs' \in Seq(SequenceType) /\ Len(seqs') = Len(seqs) /\ DOMAIN seqs' = DOMAIN seqs
        /\ \A p \in DOMAIN seqs : seqs'[p] = IF p = q THEN x ELSE seqs[p]
    BY SeqFacts, Replaced
  <1>2. /\ callbacks' \in [Callers -> Nat]
        /\ \A c \in Callers : callbacks'[c] = callbacks[c] + (IF c \in back THEN 1 ELSE 0)
    BY Facts DEF CalledBack
  <1>3. TypeOK'
    BY <1>1, <1>2, Facts, SeqFacts DEF IInv, TypeOK
  <1>4. SeqInv'
    <2>1. \A p \in DOMAIN seqs : SeqOK(seqs'[p])
      BY <1>1, SeqFacts
    <2>2. closing' # 0 => seqs'[closing'].run = "returned"
      BY <1>1, Facts, SeqFacts DEF IInv, SeqInv
    <2> QED BY <1>1, <2>1, <2>2 DEF SeqInv
  <1>5. CallerInv'
    BY <1>1 DEF IInv, CallerInv
  <1>6. RunningIsReachable'
    <2> SUFFICES ASSUME NEW p \in DOMAIN seqs, seqs'[p].run \in {"loop", "select", "timer"}
                 PROVE  sendSequences'[seqs'[p].key] = p \/ seqs'[p].cancelled
      BY <1>1 DEF RunningIsReachable
    <2>1. seqs'[p].key = seqs[p].key /\ seqs[p].key \in Keys
          /\ seqs[p].run \in {"loop", "select", "timer"} /\ (seqs[p].cancelled => seqs'[p].cancelled)
      BY <1>1, SeqFacts
    <2>2. sendSequences[seqs[p].key] = p \/ seqs[p].cancelled
      BY <2>1 DEF IInv, RunningIsReachable
    <2>3. sendSequences[seqs[p].key] = p => sendSequences'[seqs[p].key] = p
      BY <1>1, <2>1
    <2> QED BY <2>1, <2>2, <2>3
  <1>7. PlaceInv'
    <2> DEFINE H(p) == Held(seqs[p])
    <2>1. \A p \in DOMAIN seqs : Held(seqs'[p]) = IF p = q THEN H(q) \ back ELSE H(p)
      BY <1>1
    <2>2. /\ \A p, r \in DOMAIN seqs : \A c \in Callers : c \in H(p) /\ c \in H(r) => p = r
          /\ \A p \in DOMAIN seqs : \A c \in Callers :
                c \in H(p) => callbacks[c] = 0 /\ caller[c].result = "true"
          /\ \A c \in Callers : callbacks[c] # 0 => callbacks[c] = 1 /\ caller[c].result = "true"
          /\ \A c \in Callers : callbacks[c] = 0 /\ caller[c].result = "true" =>
                \E p \in DOMAIN seqs : c \in H(p)
      BY DEF IInv, PlaceInv
    <2>3. \A c \in Callers : c \in back => c \in H(q)
      OBVIOUS
    <2> HIDE DEF H
    <2>4. \A p, r \in DOMAIN seqs : \A c \in Callers :
             c \in Held(seqs'[p]) /\ c \in Held(seqs'[r]) => p = r
      BY <2>1, <2>2
    <2>5. \A p \in DOMAIN seqs : \A c \in Callers :
             c \in Held(seqs'[p]) => callbacks'[c] = 0 /\ caller[c].result = "true"
      BY <1>2, <2>1, <2>2, <2>3
    <2>6. \A c \in Callers : callbacks'[c] # 0 => callbacks'[c] = 1 /\ caller[c].result = "true"
      BY <1>2, <2>2, <2>3
    <2>7. \A c \in Callers : callbacks'[c] = 0 /\ caller[c].result = "true" =>
             \E p \in DOMAIN seqs : c \in Held(seqs'[p])
      <3> SUFFICES ASSUME NEW c \in Callers, callbacks'[c] = 0, caller[c].result = "true"
                   PROVE  \E p \in DOMAIN seqs : c \in Held(seqs'[p])
        OBVIOUS
      <3>1. c \notin back /\ callbacks[c] = 0
        BY <1>2, Facts
      <3>2. PICK p \in DOMAIN seqs : c \in H(p)
        BY <2>2, <3>1
      <3> QED BY <2>1, <3>1, <3>2
    <2> QED BY <1>1, <2>4, <2>5, <2>6, <2>7 DEF PlaceInv
  <1> QED BY <1>3, <1>4, <1>5, <1>6, <1>7 DEF IInv

\* No callback is a call with an empty set.
LEMMA NoCallback ==
    ASSUME callbacks \in [Callers -> Nat]
    PROVE  UNCHANGED callbacks <=> CalledBack({})
  <1>1. callbacks = [c \in Callers |-> callbacks[c] + IF c \in {} THEN 1 ELSE 0]
    OBVIOUS
  <1> QED BY <1>1 DEF CalledBack

\* The goroutine that closes a sequence has seen its Run return.
LEMMA RunningIsNotClosing ==
    ASSUME IInv, NEW q \in DOMAIN seqs, seqs[q].run \in {"loop", "select", "timer"}
    PROVE  closing # q
  BY SeqFacts DEF IInv, SeqInv

\* Run returns.
LEMMA ReturnStep ==
    ASSUME IInv, NEW q \in DOMAIN seqs, NEW s \in SequenceType, NEW also, Return(q, s, also),
           seqs[q].run \in {"loop", "select", "timer"},
           s.key = seqs[q].key, s.packMutex = seqs[q].packMutex,
           s.resendQueue = seqs[q].resendQueue,
           s.idleClosed => s.packMutex = NoCaller /\ (~Stalls => s.packs = <<>>),
           \A i, j \in DOMAIN s.packs : s.packs[i] = s.packs[j] => i = j,
           also \subseteq ToSet(seqs[q].packs),
           ToSet(s.packs) = ToSet(seqs[q].packs) \ also
    PROVE  IInv'
  <1> DEFINE x == [s EXCEPT !.run = "returned", !.cancelled = TRUE, !.resendQueue = {}]
             back == s.resendQueue \cup also
  <1>1. /\ x \in SequenceType /\ x.run = "returned" /\ x.cancelled = TRUE /\ x.resendQueue = {}
        /\ x.key = s.key /\ x.packMutex = s.packMutex /\ x.packs = s.packs
        /\ x.idleClosed = s.idleClosed
    BY DEF SequenceType
  <1>2. seqs' = [seqs EXCEPT ![q] = x] /\ CalledBack(back)
        /\ UNCHANGED <<sendSequences, closing, associated, caller>>
    BY DEF Return
  <1> HIDE DEF x
  <1>3. SeqOK(x)
    BY <1>1 DEF SeqOK
  <1>4. back \subseteq Held(seqs[q]) /\ Held(x) = Held(seqs[q]) \ back
    <2>1. ToSet(seqs[q].packs) \cap seqs[q].resendQueue = {}
      BY SeqFacts DEF SeqOK
    <2> QED BY <1>1, <2>1 DEF Held
  <1> HIDE DEF back
  <1>5. associated' \subseteq DOMAIN seqs /\ sendSequences' \in [Keys -> 0 .. Len(seqs)]
        /\ closing # q
    BY <1>2, Facts, RunningIsNotClosing
  <1> QED BY <1>1, <1>2, <1>3, <1>4, <1>5, SeqStep

\* Run.
LEMMA RunInv ==
    ASSUME IInv, NEW q \in DOMAIN seqs, RunStep(q)
    PROVE  IInv'
  <1> DEFINE old == seqs[q]
  <1>0. /\ old \in SequenceType /\ SeqOK(old) /\ callbacks \in [Callers -> Nat]
        /\ associated \subseteq DOMAIN seqs
        /\ old.packs \in Seq(Callers) /\ old.resendQueue \subseteq Callers
        /\ \A i, j \in DOMAIN old.packs : old.packs[i] = old.packs[j] => i = j
        /\ ToSet(old.packs) \cap old.resendQueue = {}
        /\ sendSequences \in [Keys -> 0 .. Len(seqs)]
    BY Facts, SeqFacts DEF SeqOK
  <1>1. ASSUME NEW x \in SequenceType, seqs' = [seqs EXCEPT ![q] = x],
               x.run \in {"loop", "select", "timer"}, old.run \in {"loop", "select", "timer"},
               x.run = "timer" /\ ~x.updated /\ ~Stalls => x.packMutex = NoCaller /\ x.packs = <<>>,
               x.packs = old.packs, x.resendQueue = old.resendQueue, x.key = old.key,
               x.packMutex = old.packMutex, x.cancelled = old.cancelled,
               x.idleClosed = old.idleClosed,
               UNCHANGED <<sendSequences, closing, associated, caller, callbacks>>
        PROVE  IInv'
    <2>1. SeqOK(x)
      BY <1>0, <1>1 DEF SeqOK
    <2>2. PICK back : back = {}
      OBVIOUS
    <2>3. back \subseteq Held(old) /\ Held(x) = Held(old) \ back
      BY <1>1, <2>2 DEF Held
    <2>4. CalledBack(back)
      BY <1>0, <1>1, <2>2, NoCallback
    <2> QED BY <1>0, <1>1, <2>1, <2>3, <2>4, SeqStep, RunningIsNotClosing
  <1>2. CASE RunWait(q)
    <2> DEFINE x == [old EXCEPT !.run = "select", !.updated = FALSE]
    <2>1. seqs' = [seqs EXCEPT ![q] = x] /\ old.run = "loop"
          /\ UNCHANGED <<sendSequences, closing, associated, caller, callbacks>>
      BY <1>2 DEF RunWait
    <2>2. /\ x \in SequenceType /\ x.run = "select" /\ x.packs = old.packs
          /\ x.resendQueue = old.resendQueue /\ x.key = old.key /\ x.packMutex = old.packMutex
          /\ x.cancelled = old.cancelled /\ x.idleClosed = old.idleClosed
      BY <1>0 DEF SequenceType
    <2> HIDE DEF x
    <2> QED BY <1>1, <2>1, <2>2
  <1>3. CASE RunTake(q)
    <2> DEFINE h == Head(old.packs)
               tl == Tail(old.packs)
               rs == old.resendQueue \cup {h}
               x == [old EXCEPT !.run = "loop", !.packs = tl, !.resendQueue = rs]
    <2>1. /\ seqs' = [seqs EXCEPT ![q] = x] /\ old.run \in {"loop", "select"} /\ old.packs # <<>>
          /\ associated' = associated \cup {q}
          /\ UNCHANGED <<sendSequences, closing, caller, callbacks>>
      BY <1>3 DEF RunTake, Ready
    <2>2. /\ h \in Callers /\ tl \in Seq(Callers)
          /\ ToSet(old.packs) = {h} \cup ToSet(tl) /\ h \notin ToSet(tl)
          /\ \A i, j \in DOMAIN tl : tl[i] = tl[j] => i = j
      BY <1>0, <2>1, HeadAndTail
    <2>3. rs \in SUBSET Callers /\ rs = old.resendQueue \cup {h}
      BY <1>0, <2>2
    <2> HIDE DEF h, tl, rs
    <2>4. /\ x \in SequenceType /\ x.run = "loop" /\ x.packs = tl
          /\ x.resendQueue = rs /\ x.key = old.key /\ x.packMutex = old.packMutex
          /\ x.cancelled = old.cancelled /\ x.idleClosed = old.idleClosed
      BY <1>0, <2>2, <2>3 DEF SequenceType
    <2> HIDE DEF x
    <2>5. old.idleClosed => ~(~Stalls)
      BY <1>0, <2>1 DEF SeqOK
    <2>6. SeqOK(x)
      <3>1. ToSet(tl) \cap rs = {}
        BY <1>0, <2>2, <2>3
      <3> QED BY <1>0, <2>2, <2>4, <2>5, <3>1 DEF SeqOK
    <2>7. PICK back : back = {}
      OBVIOUS
    <2>8. back \subseteq Held(old) /\ Held(x) = Held(old) \ back
      BY <2>2, <2>3, <2>4, <2>7 DEF Held
    <2>9. CalledBack(back)
      BY <1>0, <2>1, <2>7, NoCallback
    <2>10. associated' \subseteq DOMAIN seqs
      BY <1>0, <2>1
    <2> QED BY <1>0, <2>1, <2>4, <2>6, <2>8, <2>9, <2>10, SeqStep, RunningIsNotClosing
  <1>4. CASE RunDone(q) \/ RunAckTimeout(q)
    <2>1. old.run \in {"loop", "select"} /\ Return(q, old, {})
      BY <1>4 DEF RunDone, RunAckTimeout
    <2>2. PICK also : also = {}
      OBVIOUS
    <2>3. /\ Return(q, old, also) /\ also \subseteq ToSet(old.packs)
          /\ ToSet(old.packs) = ToSet(old.packs) \ also
          /\ (old.idleClosed => old.packMutex = NoCaller /\ (~Stalls => old.packs = <<>>))
      BY <1>0, <2>1, <2>2 DEF SeqOK
    <2> QED BY <1>0, <2>1, <2>3, ReturnStep
  <1>5. CASE RunNoContract(q)
    <2> DEFINE h == Head(old.packs)
               tl == Tail(old.packs)
               s == [old EXCEPT !.packs = tl]
               also == {h}
    <2>1. old.run \in {"loop", "select"} /\ old.packs # <<>> /\ Return(q, s, also)
      BY <1>5 DEF RunNoContract, Ready
    <2>2. /\ h \in Callers /\ tl \in Seq(Callers)
          /\ ToSet(old.packs) = {h} \cup ToSet(tl) /\ h \notin ToSet(tl)
          /\ \A i, j \in DOMAIN tl : tl[i] = tl[j] => i = j
      BY <1>0, <2>1, HeadAndTail
    <2> HIDE DEF h, tl
    <2>3. /\ s \in SequenceType /\ s.packs = tl /\ s.resendQueue = old.resendQueue
          /\ s.key = old.key /\ s.packMutex = old.packMutex /\ s.idleClosed = old.idleClosed
      BY <1>0, <2>2 DEF SequenceType
    <2> HIDE DEF s
    <2>4. s.idleClosed => s.packMutex = NoCaller /\ (~Stalls => s.packs = <<>>)
      BY <1>0, <2>1, <2>3 DEF SeqOK
    <2>5. also \subseteq ToSet(old.packs) /\ ToSet(s.packs) = ToSet(old.packs) \ also
      BY <2>2, <2>3
    <2> HIDE DEF also
    <2> QED BY <2>1, <2>2, <2>3, <2>4, <2>5, ReturnStep
  <1>6. CASE RunTimer(q)
    <2>1. PICK r \in {"timer", "loop"} :
             /\ seqs' = [seqs EXCEPT ![q].run = r]
             /\ r = "timer" => (OpenAtCheckpoint(old) => Stalls)
      BY <1>6 DEF RunTimer
    <2> DEFINE x == [old EXCEPT !.run = r]
    <2>2. /\ seqs' = [seqs EXCEPT ![q] = x] /\ old.run = "select"
          /\ UNCHANGED <<sendSequences, closing, associated, caller, callbacks>>
      BY <1>6, <2>1 DEF RunTimer
    <2>3. /\ x \in SequenceType /\ x.run = r /\ x.packs = old.packs
          /\ x.resendQueue = old.resendQueue /\ x.key = old.key /\ x.packMutex = old.packMutex
          /\ x.cancelled = old.cancelled /\ x.idleClosed = old.idleClosed /\ x.updated = old.updated
      BY <1>0 DEF SequenceType
    <2> HIDE DEF x
    <2>4. x.run = "timer" /\ ~x.updated /\ ~Stalls => x.packMutex = NoCaller /\ x.packs = <<>>
      BY <2>1, <2>3 DEF OpenAtCheckpoint
    <2> QED BY <1>1, <2>2, <2>3, <2>4
  <1>7. CASE RunIdle(q)
    <2>1. old.run = "timer" /\ old.packMutex = NoCaller
      BY <1>7 DEF RunIdle
    <2>2. CASE ClosesIdle(old) /\ Return(q, [old EXCEPT !.idleClosed = TRUE], {})
      <3> DEFINE s == [old EXCEPT !.idleClosed = TRUE]
      <3>1. /\ s \in SequenceType /\ s.packs = old.packs /\ s.resendQueue = old.resendQueue
            /\ s.key = old.key /\ s.packMutex = old.packMutex
        BY <1>0 DEF SequenceType
      <3>2. PICK also : also = {}
        OBVIOUS
      <3>3. Return(q, s, also)
        BY <2>2, <3>2
      <3> HIDE DEF s
      <3>4. also \subseteq ToSet(old.packs) /\ ToSet(s.packs) = ToSet(old.packs) \ also
        BY <3>1, <3>2
      <3>5. s.packMutex = NoCaller /\ (~Stalls => s.packs = <<>>)
        BY <1>0, <2>1, <2>2, <3>1 DEF SeqOK, ClosesIdle
      <3> QED BY <1>0, <2>1, <3>1, <3>3, <3>4, <3>5, ReturnStep
    <2>3. CASE /\ seqs' = [seqs EXCEPT ![q].run = "loop"]
               /\ UNCHANGED <<sendSequences, closing, associated, caller, callbacks>>
      <3> DEFINE x == [old EXCEPT !.run = "loop"]
      <3>1. seqs' = [seqs EXCEPT ![q] = x]
        BY <2>3
      <3>2. /\ x \in SequenceType /\ x.run = "loop" /\ x.packs = old.packs
            /\ x.resendQueue = old.resendQueue /\ x.key = old.key /\ x.packMutex = old.packMutex
            /\ x.cancelled = old.cancelled /\ x.idleClosed = old.idleClosed
        BY <1>0 DEF SequenceType
      <3> HIDE DEF x
      <3> QED BY <1>1, <2>1, <2>3, <3>1, <3>2
    <2> QED BY <1>7, <2>2, <2>3 DEF RunIdle
  <1> QED BY <1>2, <1>3, <1>4, <1>5, <1>6, <1>7 DEF RunStep

\* An ack.
LEMMA AckInv ==
    ASSUME IInv, NEW q \in DOMAIN seqs, NEW c \in Callers, Ack(q, c)
    PROVE  IInv'
  <1> DEFINE old == seqs[q]
             back == {c}
             rs == old.resendQueue \ {c}
             x == [old EXCEPT !.run = "loop", !.resendQueue = rs]
  <1>0. /\ old \in SequenceType /\ SeqOK(old) /\ associated \subseteq DOMAIN seqs
        /\ old.resendQueue \subseteq Callers /\ ToSet(old.packs) \cap old.resendQueue = {}
        /\ sendSequences \in [Keys -> 0 .. Len(seqs)]
    BY Facts, SeqFacts DEF SeqOK
  <1>1. /\ seqs' = [seqs EXCEPT ![q] = x] /\ c \in old.resendQueue
        /\ old.run \in {"loop", "select"} /\ CalledBack(back)
        /\ UNCHANGED <<sendSequences, closing, associated, caller>>
    BY DEF Ack
  <1>2. rs \in SUBSET Callers
    BY <1>0
  <1>3. back \subseteq Held(old) /\ (ToSet(old.packs) \cup rs) = Held(old) \ back
    BY <1>0, <1>1 DEF Held
  <1>4. ToSet(old.packs) \cap rs = {}
    BY <1>0
  <1> HIDE DEF rs, back
  <1>5. /\ x \in SequenceType /\ x.run = "loop" /\ x.packs = old.packs
        /\ x.resendQueue = rs /\ x.key = old.key /\ x.packMutex = old.packMutex
        /\ x.cancelled = old.cancelled /\ x.idleClosed = old.idleClosed
    BY <1>0, <1>2 DEF SequenceType
  <1> HIDE DEF x
  <1>6. SeqOK(x)
    BY <1>0, <1>4, <1>5 DEF SeqOK
  <1>7. Held(x) = Held(old) \ back
    BY <1>3, <1>5 DEF Held
  <1> QED BY <1>0, <1>1, <1>3, <1>5, <1>6, <1>7, SeqStep, RunningIsNotClosing

\* The fields of a new sequence, and of one that has left the buffer.
LEMMA NewFields ==
    ASSUME NEW k \in Keys
    PROVE  LET n == NewSendSequence(k)
           IN  /\ n \in SequenceType /\ n.key = k /\ n.run = "loop" /\ n.packMutex = NoCaller
               /\ n.packs = <<>> /\ n.resendQueue = {} /\ n.idleClosed = FALSE
  <1>1. NewSendSequence(k) \in SequenceType
    BY DEF NewSendSequence, SequenceType
  <1> QED BY <1>1 DEF NewSendSequence

LEMMA EmptyToSet == ToSet(<<>>) = {}
  BY DEF ToSet

\* The cleanup of a sequence whose Run has returned.
LEMMA CleanupInv ==
    ASSUME IInv, NEW q \in DOMAIN seqs, CleanupStep(q)
    PROVE  IInv'
  <1> DEFINE old == seqs[q]
  <1>0. /\ old \in SequenceType /\ SeqOK(old) /\ old.key \in Keys
        /\ associated \subseteq DOMAIN seqs /\ callbacks \in [Callers -> Nat]
        /\ sendSequences \in [Keys -> 0 .. Len(seqs)] /\ Len(seqs) \in Nat
        /\ q \in 1 .. Len(seqs)
    BY Facts, SeqFacts
  <1>1. CASE CleanupBegin(q)
    <2>1. /\ closing' = q /\ old.run = "returned"
          /\ UNCHANGED <<sendSequences, associated, seqs, caller, callbacks>>
      BY <1>1 DEF CleanupBegin
    <2>2. TypeOK'
      BY <1>0, <2>1 DEF IInv, TypeOK
    <2>3. SeqInv'
      BY <2>1 DEF IInv, SeqInv
    <2> QED BY <2>1, <2>2, <2>3 DEF IInv, CallerInv, RunningIsReachable, PlaceInv
  <1>2. CASE CleanupEnd(q)
    <2> DEFINE new == NewSendSequence(old.key)
               x == [new EXCEPT !.run = "gone", !.cancelled = TRUE]
               back == ToSet(old.packs)
    <2>1. /\ seqs' = [seqs EXCEPT ![q] = x] /\ closing = q /\ old.packMutex = NoCaller
          /\ CalledBack(back) /\ sendSequences' = Removed(q) /\ closing' = 0
          /\ associated' = associated \ {q} /\ UNCHANGED caller
      BY <1>2 DEF CleanupEnd, Closable, Drained
    <2>2. /\ new \in SequenceType /\ new.key = old.key /\ new.packMutex = NoCaller
          /\ new.packs = <<>> /\ new.resendQueue = {} /\ new.idleClosed = FALSE
      BY <1>0, NewFields
    <2> HIDE DEF new
    <2>3. /\ x \in SequenceType /\ x.run = "gone" /\ x.cancelled = TRUE /\ x.key = old.key
          /\ x.packMutex = NoCaller /\ x.packs = <<>> /\ x.resendQueue = {}
          /\ x.idleClosed = FALSE
      BY <2>2 DEF SequenceType
    <2> HIDE DEF x
    <2>4. SeqOK(x)
      BY <2>3, EmptyToSet DEF SeqOK
    <2>5. old.run = "returned" /\ old.resendQueue = {}
      BY <1>0, <2>1 DEF IInv, SeqInv, SeqOK
    <2>6. back \subseteq Held(old) /\ Held(x) = Held(old) \ back
      BY <2>3, <2>5, EmptyToSet DEF Held
    <2> HIDE DEF back
    <2>7. /\ sendSequences' \in [Keys -> 0 .. Len(seqs)]
          /\ \A k \in Keys : sendSequences'[k] = sendSequences[k] \/ sendSequences[k] = q
      BY <1>0, <2>1 DEF Removed
    <2>8. associated' \subseteq DOMAIN seqs
      BY <1>0, <2>1
    <2>9. /\ x.run \notin {"loop", "select", "timer"} /\ (old.cancelled => x.cancelled)
          /\ x.packMutex = old.packMutex
      BY <2>1, <2>3
    <2>10. /\ x.run \in {"loop", "select", "timer"} => old.run \in {"loop", "select", "timer"}
           /\ x.run \in {"loop", "select", "timer"} => UNCHANGED sendSequences
           /\ closing' = 0 \/ (closing' = closing /\ closing # q)
      BY <2>1, <2>9
    <2> QED BY <2>1, <2>3, <2>4, <2>6, <2>7, <2>8, <2>9, <2>10, SeqStep, Zenon
  <1> QED BY <1>1, <1>2 DEF CleanupStep

-----------------------------------------------------------------------------
(* Pack.                                                                   *)

\* What a caller keeps, when n sequences exist.
CallerType(n) ==
    [pc : {"init", "lock", "select", "done"}, key : Keys, seq : 0 .. n, attempt : 1 .. 2,
     result : {"none", "true", "false", "error"}]

\* A step of caller c that leaves it as y and the sequence q as x: the pack of
\* the caller enters the sequence exactly when the call returns "true".
LEMMA CallerAt ==
    ASSUME IInv, NEW c \in Callers, NEW q \in DOMAIN seqs,
           NEW x \in SequenceType, NEW y \in CallerType(Len(seqs)),
           seqs' = [seqs EXCEPT ![q] = x], caller' = [caller EXCEPT ![c] = y],
           SeqOK(x), x.key = seqs[q].key, x.run = seqs[q].run, x.cancelled = seqs[q].cancelled,
           \A d \in Callers \ {c} : seqs[q].packMutex = d => x.packMutex = d,
           caller[c].pc # "done",
           y.pc \in {"lock", "select"} => y.seq \in DOMAIN seqs,
           y.pc = "select" => y.seq = q /\ x.packMutex = c,
           y.pc # "done" => y.result = "none",
           y.result = "true" => Held(x) = Held(seqs[q]) \cup {c},
           y.result # "true" => Held(x) = Held(seqs[q]),
           UNCHANGED <<sendSequences, closing, associated, callbacks>>
    PROVE  IInv'
  <1>1. /\ seqs' \in Seq(SequenceType) /\ Len(seqs') = Len(seqs) /\ DOMAIN seqs' = DOMAIN seqs
        /\ \A p \in DOMAIN seqs : seqs'[p] = IF p = q THEN x ELSE seqs[p]
    BY SeqFacts, Replaced
  <1>2. /\ caller' \in [Callers -> CallerType(Len(seqs))]
        /\ \A d \in Callers : caller'[d] = IF d = c THEN y ELSE caller[d]
    BY DEF IInv, TypeOK, CallerType
  <1>3. TypeOK'
    BY <1>1, <1>2 DEF IInv, TypeOK, CallerType
  <1>4. SeqInv'
    <2>1. \A p \in DOMAIN seqs : SeqOK(seqs'[p])
      BY <1>1, SeqFacts
    <2>2. closing' # 0 => seqs'[closing'].run = "returned"
      BY <1>1, Facts, SeqFacts DEF IInv, SeqInv
    <2> QED BY <1>1, <2>1, <2>2 DEF SeqInv
  <1>5. CallerInv'
    <2> SUFFICES ASSUME NEW d \in Callers
                 PROVE  /\ caller'[d].pc \in {"lock", "select"} => caller'[d].seq \in DOMAIN seqs
                        /\ caller'[d].pc = "select" => seqs'[caller'[d].seq].packMutex = d
                        /\ caller'[d].pc # "done" => caller'[d].result = "none"
      BY <1>1 DEF CallerInv
    <2>1. CASE d = c
      BY <1>1, <1>2, <2>1
    <2>2. CASE d # c
      <3>1. /\ caller[d].pc \in {"lock", "select"} => caller[d].seq \in DOMAIN seqs
            /\ caller[d].pc = "select" => seqs[caller[d].seq].packMutex = d
            /\ caller[d].pc # "done" => caller[d].result = "none"
        BY DEF IInv, CallerInv
      <3> QED BY <1>1, <1>2, <2>2, <3>1
    <2> QED BY <2>1, <2>2
  <1>6. RunningIsReachable'
    <2>1. \A p \in DOMAIN seqs : seqs'[p].run = seqs[p].run /\ seqs'[p].key = seqs[p].key
                                   /\ seqs'[p].cancelled = seqs[p].cancelled
      BY <1>1
    <2> QED BY <1>1, <2>1 DEF IInv, RunningIsReachable
  <1>7. PlaceInv'
    <2> DEFINE H(p) == Held(seqs[p])
    <2>1. \A p \in DOMAIN seqs : \A d \in Callers :
             d \in Held(seqs'[p]) <=> d \in H(p) \/ (p = q /\ d = c /\ y.result = "true")
      <3>1. \A d : d \in Held(x) <=> d \in H(q) \/ (d = c /\ y.result = "true")
        OBVIOUS
      <3>2. seqs'[q] = x /\ \A p \in DOMAIN seqs : p # q => seqs'[p] = seqs[p]
        BY <1>1
      <3> QED BY <3>1, <3>2
    <2>2. /\ \A p, r \in DOMAIN seqs : \A d \in Callers : d \in H(p) /\ d \in H(r) => p = r
          /\ \A p \in DOMAIN seqs : \A d \in Callers :
                d \in H(p) => callbacks[d] = 0 /\ caller[d].result = "true"
          /\ \A d \in Callers : callbacks[d] # 0 => callbacks[d] = 1 /\ caller[d].result = "true"
          /\ \A d \in Callers : callbacks[d] = 0 /\ caller[d].result = "true" =>
                \E p \in DOMAIN seqs : d \in H(p)
      BY DEF IInv, PlaceInv
    <2>3. caller[c].result = "none"
      BY DEF IInv, CallerInv
    <2> HIDE DEF H
    <2>4. \A p \in DOMAIN seqs : c \notin H(p)
      BY <2>2, <2>3
    <2>5. callbacks[c] = 0
      BY <2>2, <2>3
    <2>6. \A p, r \in DOMAIN seqs : \A d \in Callers :
             d \in Held(seqs'[p]) /\ d \in Held(seqs'[r]) => p = r
      BY <2>1, <2>2, <2>4
    <2>7. \A p \in DOMAIN seqs : \A d \in Callers :
             d \in Held(seqs'[p]) => callbacks[d] = 0 /\ caller'[d].result = "true"
      BY <1>2, <2>1, <2>2, <2>4, <2>5
    <2>8. \A d \in Callers : callbacks[d] # 0 => callbacks[d] = 1 /\ caller'[d].result = "true"
      BY <1>2, <2>2, <2>5
    <2>9. \A d \in Callers : callbacks[d] = 0 /\ caller'[d].result = "true" =>
             \E p \in DOMAIN seqs : d \in Held(seqs'[p])
      <3> SUFFICES ASSUME NEW d \in Callers, callbacks[d] = 0, caller'[d].result = "true"
                   PROVE  \E p \in DOMAIN seqs : d \in Held(seqs'[p])
        OBVIOUS
      <3>1. CASE d = c
        BY <1>2, <2>1, <3>1
      <3>2. CASE d # c
        BY <1>2, <2>1, <2>2, <3>2
      <3> QED BY <3>1, <3>2
    <2> QED BY <1>1, <2>6, <2>7, <2>8, <2>9 DEF PlaceInv
  <1> QED BY <1>3, <1>4, <1>5, <1>6, <1>7 DEF IInv

\* What Pack makes of the caller: it returns, or tries a second time.
LEMMA Answers ==
    ASSUME IInv, NEW c \in Callers, caller[c].pc # "done"
    PROVE  /\ \A r \in {"true", "false", "error"} :
                 LET y == Returned(c, r)
                 IN  y \in CallerType(Len(seqs)) /\ y.pc = "done" /\ y.result = r
           /\ LET y == AfterError(c)
              IN  /\ y \in CallerType(Len(seqs)) /\ y.pc \in {"init", "done"}
                  /\ y.result # "true" /\ (y.pc = "init" => y.result = "none")
  <1> DEFINE Places == 0 .. Len(seqs)
             Attempts == 1 .. 2
             Records == [pc : {"init", "lock", "select", "done"}, key : Keys, seq : Places,
                         attempt : Attempts, result : {"none", "true", "false", "error"}]
  <1>1. caller[c] \in Records /\ caller[c].result = "none"
    BY DEF IInv, TypeOK, CallerInv
  <1>2. 0 \in Places /\ 2 \in Attempts
    BY SeqFacts
  <1>3. Records = CallerType(Len(seqs))
    BY DEF CallerType
  <1> HIDE DEF Places, Attempts
  <1>4. ASSUME NEW r \in {"true", "false", "error"}
        PROVE  LET y == Returned(c, r)
               IN  y \in CallerType(Len(seqs)) /\ y.pc = "done" /\ y.result = r
    <2> DEFINE y == Returned(c, r)
    <2>1. y \in Records /\ y.pc = "done" /\ y.result = r
      BY <1>1, <1>2 DEF Returned
    <2> QED BY <1>3, <2>1, Zenon
  <1>5. CASE caller[c].attempt = 1
    <2> DEFINE y == [caller[c] EXCEPT !.pc = "init", !.attempt = 2]
    <2>1. y \in Records /\ y.pc = "init" /\ y.result = "none"
      BY <1>1, <1>2
    <2>2. AfterError(c) = y
      BY <1>5 DEF AfterError
    <2> HIDE DEF y
    <2>3. y \in CallerType(Len(seqs))
      BY <1>3, <2>1, Zenon
    <2> QED BY <1>4, <2>1, <2>2, <2>3
  <1>6. CASE caller[c].attempt # 1
    <2>1. AfterError(c) = Returned(c, "error")
      BY <1>6 DEF AfterError
    <2> QED BY <1>4, <2>1
  <1> QED BY <1>5, <1>6

\* A call of Pack of a sequence.
LEMMA PackInv ==
    ASSUME IInv, NEW c \in Callers,
           LockPack(c) \/ CallerIsDone(c) \/ Put(c) \/ PackDone(c) \/ PackTimeout(c)
    PROVE  IInv'
  <1> DEFINE q == caller[c].seq
             old == seqs[q]
  <1>0. /\ caller[c].pc \in {"lock", "select"} /\ q \in DOMAIN seqs
        /\ caller[c].pc = "select" => old.packMutex = c
        /\ caller[c].pc = "lock" => old.packMutex = NoCaller
        /\ caller[c].result = "none"
    <2>1. caller[c].pc \in {"lock", "select"}
      BY DEF LockPack, CallerIsDone, Put, PackDone, PackTimeout
    <2>2. caller[c].pc = "lock" => old.packMutex = NoCaller
      BY DEF LockPack, CallerIsDone, Put, PackDone, PackTimeout
    <2> QED BY <2>1, <2>2 DEF IInv, CallerInv
  <1>1. /\ old \in SequenceType /\ SeqOK(old) /\ old.packs \in Seq(Callers)
        /\ \A i, j \in DOMAIN old.packs : old.packs[i] = old.packs[j] => i = j
        /\ ToSet(old.packs) \cap old.resendQueue = {}
        /\ seqs = [seqs EXCEPT ![q] = old]
        /\ NoCaller \notin Callers
        /\ \A d \in Callers \ {c} : old.packMutex # d
    BY <1>0, SeqFacts, Facts DEF SeqOK
  \* The call ends without its pack: x is the sequence with packMutex free.
  <1>2. ASSUME NEW y \in CallerType(Len(seqs)), caller' = [caller EXCEPT ![c] = y],
               y.pc \in {"init", "done"}, y.result # "true", y.pc = "init" => y.result = "none",
               seqs' = [seqs EXCEPT ![q] = Released(@)] \/ seqs' = seqs,
               UNCHANGED <<sendSequences, closing, associated, callbacks>>
        PROVE  IInv'
    <2> DEFINE x == Released(old)
    <2>1. /\ x \in SequenceType /\ x.key = old.key /\ x.run = old.run
          /\ x.cancelled = old.cancelled /\ x.packs = old.packs /\ x.idleClosed = old.idleClosed
          /\ x.resendQueue = old.resendQueue /\ x.updated = old.updated /\ x.packMutex = NoCaller
      BY <1>1, BufferBounds DEF Released, SequenceType
    <2> HIDE DEF x
    <2>2. SeqOK(x) /\ Held(x) = Held(old)
      BY <1>1, <2>1 DEF SeqOK, Held
    <2>3. CASE seqs' = [seqs EXCEPT ![q] = x]
      <3>1. \A d \in Callers \ {c} : old.packMutex = d => x.packMutex = d
        BY <1>1
      <3> QED BY <1>0, <1>2, <2>1, <2>2, <2>3, <3>1, CallerAt
    <2>4. CASE seqs' = seqs
      BY <1>0, <1>1, <1>2, <2>4, CallerAt
    <2> QED BY <1>0, <1>2, <2>3, <2>4 DEF x
  <1>3. CASE CallerIsDone(c) \/ PackDone(c)
    <2> DEFINE y == AfterError(c)
    <2>1. /\ y \in CallerType(Len(seqs)) /\ y.pc \in {"init", "done"} /\ y.result # "true"
          /\ y.pc = "init" => y.result = "none"
      BY <1>0, Answers
    <2>2. /\ caller' = [caller EXCEPT ![c] = y]
          /\ seqs' = [seqs EXCEPT ![q] = Released(@)] \/ seqs' = seqs
          /\ UNCHANGED <<sendSequences, closing, associated, callbacks>>
      BY <1>3 DEF CallerIsDone, PackDone
    <2> HIDE DEF y
    <2> QED BY <1>2, <2>1, <2>2
  <1>4. CASE PackTimeout(c)
    <2> DEFINE y == AfterTimeout(c)
    <2>1. y \in CallerType(Len(seqs)) /\ y.pc = "done" /\ y.result = "false"
      BY <1>0, Answers DEF AfterTimeout
    <2>2. /\ caller' = [caller EXCEPT ![c] = y] /\ seqs' = [seqs EXCEPT ![q] = Released(@)]
          /\ UNCHANGED <<sendSequences, closing, associated, callbacks>>
      BY <1>4 DEF PackTimeout
    <2> HIDE DEF y
    <2> QED BY <1>2, <2>1, <2>2
  <1>5. CASE LockPack(c)
    <2>1. CASE old.cancelled \/ old.idleClosed
      <3> DEFINE y == AfterError(c)
      <3>1. /\ y \in CallerType(Len(seqs)) /\ y.pc \in {"init", "done"} /\ y.result # "true"
            /\ y.pc = "init" => y.result = "none"
        BY <1>0, Answers
      <3>2. /\ caller' = [caller EXCEPT ![c] = y] /\ seqs' = seqs
            /\ UNCHANGED <<sendSequences, closing, associated, callbacks>>
        BY <1>5, <2>1 DEF LockPack
      <3> HIDE DEF y
      <3> QED BY <1>2, <3>1, <3>2
    <2>2. CASE ~old.cancelled /\ ~old.idleClosed
      <3> DEFINE o == Opened(old)
                 x == [o EXCEPT !.packMutex = c]
                 y == [caller[c] EXCEPT !.pc = "select"]
      <3>1. /\ seqs' = [seqs EXCEPT ![q] = x] /\ caller' = [caller EXCEPT ![c] = y]
            /\ UNCHANGED <<sendSequences, closing, associated, callbacks>>
            /\ caller[c].pc = "lock"
        BY <1>5, <2>2 DEF LockPack
      <3>2. /\ o \in SequenceType /\ o.key = old.key /\ o.run = old.run
            /\ o.cancelled = old.cancelled /\ o.packs = old.packs /\ o.idleClosed = old.idleClosed
            /\ o.resendQueue = old.resendQueue /\ o.updated = TRUE
        BY <1>1 DEF Opened, SequenceType
      <3> HIDE DEF o
      <3>3. /\ x \in SequenceType /\ x.key = o.key /\ x.run = o.run
            /\ x.cancelled = o.cancelled /\ x.packs = o.packs /\ x.idleClosed = o.idleClosed
            /\ x.resendQueue = o.resendQueue /\ x.updated = o.updated /\ x.packMutex = c
        BY <3>2 DEF SequenceType
      <3>4. y \in CallerType(Len(seqs)) /\ y.pc = "select" /\ y.seq = q /\ y.result = "none"
        BY <1>0 DEF CallerType, IInv, TypeOK
      <3> HIDE DEF x, y
      <3>5. SeqOK(x) /\ Held(x) = Held(old)
        BY <1>1, <2>2, <3>2, <3>3 DEF SeqOK, Held
      <3>6. \A d \in Callers \ {c} : old.packMutex = d => x.packMutex = d
        BY <1>1
      <3>7. /\ x.key = old.key /\ x.run = old.run /\ x.cancelled = old.cancelled
            /\ caller[c].pc # "done" /\ y.seq \in DOMAIN seqs /\ y.result # "true"
        BY <1>0, <3>1, <3>2, <3>3, <3>4
      <3> QED BY <1>0, <3>1, <3>3, <3>4, <3>5, <3>6, <3>7, CallerAt
    <2> QED BY <2>1, <2>2
  <1>6. CASE Put(c)
    <2> DEFINE o == Released(old)
               ps == Append(old.packs, c)
               x == [o EXCEPT !.packs = ps]
               y == Returned(c, "true")
    <2>1. /\ seqs' = [seqs EXCEPT ![q] = x] /\ caller' = [caller EXCEPT ![c] = y]
          /\ UNCHANGED <<sendSequences, closing, associated, callbacks>>
          /\ caller[c].pc = "select"
      BY <1>6 DEF Put
    <2>2. /\ o \in SequenceType /\ o.key = old.key /\ o.run = old.run
          /\ o.cancelled = old.cancelled /\ o.packs = old.packs /\ o.idleClosed = old.idleClosed
          /\ o.resendQueue = old.resendQueue /\ o.updated = old.updated /\ o.packMutex = NoCaller
      BY <1>1, BufferBounds DEF Released, SequenceType
    <2> HIDE DEF o
    <2>3. c \notin Held(old)
      BY <1>0 DEF IInv, PlaceInv
    <2>4. /\ ps \in Seq(Callers) /\ ToSet(ps) = ToSet(old.packs) \cup {c}
          /\ \A i, j \in DOMAIN ps : ps[i] = ps[j] => i = j
      BY <1>1, <2>3, PutInto DEF Held
    <2> HIDE DEF ps
    <2>5. /\ x \in SequenceType /\ x.key = o.key /\ x.run = o.run
          /\ x.cancelled = o.cancelled /\ x.packs = ps /\ x.idleClosed = o.idleClosed
          /\ x.resendQueue = o.resendQueue /\ x.updated = o.updated /\ x.packMutex = o.packMutex
      BY <2>2, <2>4 DEF SequenceType
    <2>6. y \in CallerType(Len(seqs)) /\ y.pc = "done" /\ y.result = "true"
      BY <1>0, Answers
    <2> HIDE DEF x, y
    <2>7. Held(x) = Held(old) \cup {c}
      BY <2>2, <2>4, <2>5 DEF Held
    <2>8. ~old.idleClosed /\ (old.run = "timer" /\ ~old.updated => Stalls) /\ old.run # "gone"
      BY <1>0, <1>1, <2>1, BufferBounds DEF SeqOK
    <2>9. ToSet(ps) \cap x.resendQueue = {}
      BY <1>1, <2>2, <2>3, <2>4, <2>5 DEF Held
    <2>10. SeqOK(x)
      BY <1>1, <2>2, <2>4, <2>5, <2>8, <2>9 DEF SeqOK
    <2>11. \A d \in Callers \ {c} : old.packMutex = d => x.packMutex = d
      BY <1>1
    <2> QED BY <1>0, <2>1, <2>2, <2>5, <2>6, <2>7, <2>10, <2>11, CallerAt
  <1> QED BY <1>3, <1>4, <1>5, <1>6

\* A sequence that is cancelled keeps the rest.
LEMMA Cancelling ==
    ASSUME NEW s \in SequenceType, SeqOK(s), NEW x, x = [s EXCEPT !.cancelled = TRUE]
    PROVE  /\ x \in SequenceType /\ SeqOK(x) /\ Held(x) = Held(s) /\ x.cancelled
           /\ x.run = s.run /\ x.key = s.key /\ x.packMutex = s.packMutex
  <1>1. /\ x \in SequenceType /\ x.cancelled = TRUE /\ x.run = s.run /\ x.key = s.key
        /\ x.packMutex = s.packMutex /\ x.packs = s.packs /\ x.resendQueue = s.resendQueue
        /\ x.idleClosed = s.idleClosed /\ x.updated = s.updated
    BY DEF SequenceType
  <1> QED BY <1>1 DEF SeqOK, Held

\* Flush.
LEMMA FlushInv ==
    ASSUME IInv, Flush
    PROVE  IInv'
  <1>1. /\ UNCHANGED <<sendSequences, closing, associated, caller, callbacks>>
        /\ DOMAIN seqs' = DOMAIN seqs
        /\ \A p \in DOMAIN seqs :
              seqs'[p] = IF sendSequences[seqs[p].key] = p THEN [seqs[p] EXCEPT !.cancelled = TRUE]
                                                           ELSE seqs[p]
        /\ seqs' = [p \in DOMAIN seqs |-> seqs'[p]]
    BY DEF Flush
  <1>2. ASSUME NEW p \in DOMAIN seqs
        PROVE  LET x == seqs'[p]
               IN  /\ x \in SequenceType /\ SeqOK(x) /\ Held(x) = Held(seqs[p])
                   /\ x.run = seqs[p].run /\ x.key = seqs[p].key
                   /\ x.packMutex = seqs[p].packMutex /\ (seqs[p].cancelled => x.cancelled)
    <2>1. CASE sendSequences[seqs[p].key] = p
      <3>1. seqs'[p] = [seqs[p] EXCEPT !.cancelled = TRUE]
        BY <1>1, <2>1
      <3> QED BY <3>1, SeqFacts, Cancelling
    <2>2. CASE sendSequences[seqs[p].key] # p
      <3>1. seqs'[p] = seqs[p]
        BY <1>1, <2>2
      <3> QED BY <3>1, SeqFacts
    <2> QED BY <2>1, <2>2
  <1>3. seqs' \in Seq(SequenceType) /\ Len(seqs') = Len(seqs)
    BY <1>1, <1>2, SeqFacts
  <1>4. TypeOK'
    BY <1>1, <1>3 DEF IInv, TypeOK
  <1>5. SeqInv'
    BY <1>1, <1>2, Facts, SeqFacts DEF IInv, SeqInv
  <1>6. CallerInv'
    BY <1>1, <1>2 DEF IInv, CallerInv
  <1>7. RunningIsReachable'
    BY <1>1, <1>2 DEF IInv, RunningIsReachable
  <1>8. PlaceInv'
    <2>1. \A p \in DOMAIN seqs : Held(seqs'[p]) = Held(seqs[p])
      BY <1>2
    <2> QED BY <1>1, <2>1 DEF IInv, PlaceInv
  <1> QED BY <1>4, <1>5, <1>6, <1>7, <1>8 DEF IInv

\* initSendSequence.
LEMMA InitSequenceInv ==
    ASSUME IInv, NEW c \in Callers, InitSendSequence(c)
    PROVE  IInv'
  <1> DEFINE k == caller[c].key
             current == sendSequences[k]
             n == Len(seqs) + 1
  <1>0. /\ k \in Keys /\ current \in 0 .. Len(seqs) /\ Len(seqs) \in Nat
        /\ DOMAIN seqs = 1 .. Len(seqs) /\ NoCaller \notin Callers
        /\ caller[c].pc = "init" /\ caller[c].result = "none"
        /\ UNCHANGED <<closing, associated, callbacks>> /\ closing = 0
    BY Facts, SeqFacts DEF IInv, CallerInv, InitSendSequence
  <1>1. CASE current # 0 /\ current # caller[c].seq
    <2> DEFINE y == [caller[c] EXCEPT !.pc = "lock", !.seq = current]
               old == seqs[current]
    <2>1. /\ caller' = [caller EXCEPT ![c] = y] /\ seqs' = seqs
          /\ UNCHANGED sendSequences
      BY <1>1 DEF InitSendSequence
    <2>2. y \in CallerType(Len(seqs)) /\ y.pc = "lock" /\ y.seq = current /\ y.result = "none"
      BY <1>0 DEF CallerType, IInv, TypeOK
    <2> HIDE DEF y
    <2>3. /\ current \in DOMAIN seqs /\ seqs' = [seqs EXCEPT ![current] = old]
          /\ old \in SequenceType /\ SeqOK(old)
      BY <1>0, <1>1, <2>1, SeqFacts
    <2> QED BY <1>0, <2>1, <2>2, <2>3, CallerAt
  <1>2. CASE ~(current # 0 /\ current # caller[c].seq)
    <2> DEFINE new == NewSendSequence(k)
               s == IF current = 0 THEN seqs ELSE [seqs EXCEPT ![current].cancelled = TRUE]
               y == [caller[c] EXCEPT !.pc = "lock", !.seq = n]
    <2>1. /\ seqs' = Append(s, new) /\ sendSequences' = [sendSequences EXCEPT ![k] = n]
          /\ caller' = [caller EXCEPT ![c] = y]
      BY <1>2 DEF InitSendSequence
    <2>2. /\ new \in SequenceType /\ new.key = k /\ new.run = "loop" /\ new.packMutex = NoCaller
          /\ new.packs = <<>> /\ new.resendQueue = {} /\ new.idleClosed = FALSE
      BY <1>0, NewFields
    <2> HIDE DEF new
    <2>3. SeqOK(new) /\ Held(new) = {}
      BY <2>2, EmptyToSet DEF SeqOK, Held
    <2>4. /\ s \in Seq(SequenceType) /\ Len(s) = Len(seqs)
          /\ \A p \in DOMAIN seqs :
                /\ SeqOK(s[p]) /\ Held(s[p]) = Held(seqs[p])
                /\ s[p].run = seqs[p].run /\ s[p].key = seqs[p].key
                /\ s[p].packMutex = seqs[p].packMutex /\ (seqs[p].cancelled => s[p].cancelled)
                /\ p = current => s[p].cancelled
      <3>1. CASE current = 0
        <4>1. s = seqs
          BY <3>1
        <4> QED BY <1>0, <3>1, <4>1, SeqFacts
      <3>2. CASE current # 0
        <4> DEFINE x == [seqs[current] EXCEPT !.cancelled = TRUE]
        <4>1. current \in DOMAIN seqs /\ s = [seqs EXCEPT ![current] = x]
          BY <1>0, <3>2
        <4>2. /\ x \in SequenceType /\ SeqOK(x) /\ Held(x) = Held(seqs[current]) /\ x.cancelled
              /\ x.run = seqs[current].run /\ x.key = seqs[current].key
              /\ x.packMutex = seqs[current].packMutex
          BY <4>1, SeqFacts, Cancelling
        <4> HIDE DEF x, s
        <4>3. /\ s \in Seq(SequenceType) /\ Len(s) = Len(seqs)
              /\ \A p \in DOMAIN seqs : s[p] = IF p = current THEN x ELSE seqs[p]
          BY <4>1, <4>2, SeqFacts, Replaced
        <4> QED BY <4>2, <4>3, SeqFacts
      <3> QED BY <3>1, <3>2
    <2> HIDE DEF s
    <2>5. /\ seqs' \in Seq(SequenceType) /\ Len(seqs') = n /\ DOMAIN seqs' = 1 .. n
          /\ \A p \in DOMAIN seqs : seqs'[p] = s[p]
          /\ seqs'[n] = new
      BY <1>0, <2>1, <2>2, <2>4, Added
    <2>6. \A p \in DOMAIN seqs' : p = n \/ p \in DOMAIN seqs
      BY <1>0, <2>5
    <2>7. n \in 1 .. n /\ n \notin DOMAIN seqs /\ n # 0 /\ DOMAIN seqs \subseteq DOMAIN seqs'
      BY <1>0, <2>5
    <2>8. \A p \in DOMAIN seqs :
                /\ SeqOK(seqs'[p]) /\ Held(seqs'[p]) = Held(seqs[p])
                /\ seqs'[p].run = seqs[p].run /\ seqs'[p].key = seqs[p].key
                /\ seqs'[p].packMutex = seqs[p].packMutex
                /\ seqs[p].cancelled => seqs'[p].cancelled
                /\ p = current => seqs'[p].cancelled
      BY <2>4, <2>5
    <2>9. SeqOK(seqs'[n]) /\ Held(seqs'[n]) = {} /\ seqs'[n].run = "loop" /\ seqs'[n].key = k
      BY <2>2, <2>3, <2>5
    <2>10. /\ y \in CallerType(n) /\ y.pc = "lock" /\ y.seq = n /\ y.result = "none"
           /\ caller' \in [Callers -> CallerType(n)]
           /\ \A d \in Callers : caller'[d] = IF d = c THEN y ELSE caller[d]
      <3>1. caller \in [Callers -> CallerType(n)]
        <4>1. caller \in [Callers -> CallerType(Len(seqs))]
          BY DEF IInv, TypeOK, CallerType
        <4>2. CallerType(Len(seqs)) \subseteq CallerType(n)
          BY <1>0 DEF CallerType
        <4> QED BY <4>1, <4>2
      <3>2. y \in CallerType(n) /\ y.pc = "lock" /\ y.seq = n /\ y.result = "none"
        <4> DEFINE Places == 0 .. n
                   Records == [pc : {"init", "lock", "select", "done"}, key : Keys, seq : Places,
                               attempt : 1 .. 2, result : {"none", "true", "false", "error"}]
        <4>1. caller[c] \in Records /\ Records = CallerType(n)
          BY <3>1 DEF CallerType
        <4>2. n \in Places
          BY <1>0
        <4> HIDE DEF Places
        <4>3. y \in Records /\ y.pc = "lock" /\ y.seq = n /\ y.result = "none"
          BY <1>0, <4>1, <4>2
        <4> QED BY <4>1, <4>3, Zenon
      <3> HIDE DEF y
      <3> QED BY <2>1, <3>1, <3>2
    <2> HIDE DEF y
    <2>11. TypeOK'
      <3>1. sendSequences' \in [Keys -> 0 .. n]
        BY <1>0, <2>1, Facts
      <3> QED BY <1>0, <2>5, <2>7, <2>10, <3>1 DEF IInv, TypeOK, CallerType
    <2>12. SeqInv'
      BY <1>0, <2>6, <2>8, <2>9 DEF SeqInv
    <2>13. CallerInv'
      <3> SUFFICES ASSUME NEW d \in Callers
                   PROVE  /\ caller'[d].pc \in {"lock", "select"} => caller'[d].seq \in DOMAIN seqs'
                          /\ caller'[d].pc = "select" => seqs'[caller'[d].seq].packMutex = d
                          /\ caller'[d].pc # "done" => caller'[d].result = "none"
        BY DEF CallerInv
      <3>1. CASE d = c
        BY <2>5, <2>7, <2>10, <3>1
      <3>2. CASE d # c
        <4>1. /\ caller[d].pc \in {"lock", "select"} => caller[d].seq \in DOMAIN seqs
              /\ caller[d].pc = "select" => seqs[caller[d].seq].packMutex = d
              /\ caller[d].pc # "done" => caller[d].result = "none"
          BY DEF IInv, CallerInv
        <4> QED BY <2>7, <2>8, <2>10, <3>2, <4>1
      <3> QED BY <3>1, <3>2
    <2>14. RunningIsReachable'
      <3> SUFFICES ASSUME NEW p \in DOMAIN seqs', seqs'[p].run \in {"loop", "select", "timer"}
                   PROVE  sendSequences'[seqs'[p].key] = p \/ seqs'[p].cancelled
        BY DEF RunningIsReachable
      <3>1. CASE p = n
        BY <1>0, <2>1, <2>9, <3>1, Facts
      <3>2. CASE p \in DOMAIN seqs
        <4>1. /\ sendSequences[seqs[p].key] = p \/ seqs[p].cancelled
              /\ seqs[p].key \in Keys
          BY <2>8, <3>2, SeqFacts DEF IInv, RunningIsReachable
        <4>2. CASE seqs[p].key = k
          BY <2>8, <3>2, <4>1, <4>2
        <4>3. CASE seqs[p].key # k
          BY <2>1, <2>8, <3>2, <4>1, <4>3, Facts
        <4> QED BY <4>2, <4>3
      <3> QED BY <2>6, <3>1, <3>2
    <2>15. PlaceInv'
      <3> DEFINE H(p) == Held(seqs[p])
      <3>1. \A p \in DOMAIN seqs' : \A d \in Callers :
               d \in Held(seqs'[p]) <=> p \in DOMAIN seqs /\ d \in H(p)
        BY <2>6, <2>7, <2>8, <2>9
      <3>2. /\ \A p, r \in DOMAIN seqs : \A d \in Callers : d \in H(p) /\ d \in H(r) => p = r
            /\ \A p \in DOMAIN seqs : \A d \in Callers :
                  d \in H(p) => callbacks[d] = 0 /\ caller[d].result = "true"
            /\ \A d \in Callers : callbacks[d] # 0 => callbacks[d] = 1 /\ caller[d].result = "true"
            /\ \A d \in Callers : callbacks[d] = 0 /\ caller[d].result = "true" =>
                  \E p \in DOMAIN seqs : d \in H(p)
        BY DEF IInv, PlaceInv
      <3>3. \A d \in Callers : caller'[d].result = caller[d].result
        BY <1>0, <2>10
      <3> HIDE DEF H
      <3>4. \A d \in Callers : callbacks[d] = 0 /\ caller'[d].result = "true" =>
               \E p \in DOMAIN seqs' : d \in Held(seqs'[p])
        BY <2>7, <3>1, <3>2, <3>3
      <3>5. \A p \in DOMAIN seqs' : \A d \in Callers :
               d \in Held(seqs'[p]) => callbacks[d] = 0 /\ caller'[d].result = "true"
        BY <3>1, <3>2, <3>3
      <3>6. \A p, r \in DOMAIN seqs' : \A d \in Callers :
               d \in Held(seqs'[p]) /\ d \in Held(seqs'[r]) => p = r
        BY <3>1, <3>2
      <3> QED BY <1>0, <3>2, <3>3, <3>4, <3>5, <3>6 DEF PlaceInv
    <2> QED BY <2>11, <2>12, <2>13, <2>14, <2>15 DEF IInv
  <1> QED BY <1>1, <1>2

-----------------------------------------------------------------------------
(* The theorems.                                                           *)

LEMMA InitIInv == Init => IInv
  <1> SUFFICES ASSUME Init PROVE IInv
    OBVIOUS
  <1>1. /\ seqs = <<>> /\ DOMAIN seqs = {} /\ Len(seqs) = 0 /\ closing = 0 /\ associated = {}
        /\ sendSequences = [k \in Keys |-> 0] /\ callbacks = [c \in Callers |-> 0]
    BY DEF Init
  <1>2. \A c \in Callers : caller[c].pc = "init" /\ caller[c].result = "none"
    BY DEF Init
  <1>3. TypeOK
    BY <1>1 DEF Init, TypeOK
  <1> QED BY <1>1, <1>2, <1>3 DEF IInv, SeqInv, CallerInv, RunningIsReachable, PlaceInv

LEMMA NextIInv == IInv /\ [Next]_vars => IInv'
  <1> SUFFICES ASSUME IInv, [Next]_vars PROVE IInv'
    OBVIOUS
  <1>1. ASSUME NEW c \in Callers, CallerStep(c) PROVE IInv'
    BY <1>1, InitSequenceInv, PackInv DEF CallerStep
  <1>2. ASSUME NEW q \in DOMAIN seqs, RunStep(q) \/ CleanupStep(q) \/ \E c \in Callers : Ack(q, c)
        PROVE  IInv'
    BY <1>2, RunInv, CleanupInv, AckInv
  <1>3. CASE Flush
    BY <1>3, FlushInv
  <1>4. CASE UNCHANGED vars
    BY <1>4 DEF vars, IInv, TypeOK, SeqInv, CallerInv, RunningIsReachable, PlaceInv
  <1> QED BY <1>1, <1>2, <1>3, <1>4 DEF Next

\* The invariant holds in every behaviour of the buffer.
THEOREM Invariance == Spec => []IInv
  BY InitIInv, NextIInv, PTL DEF Spec

\* The registry, the sequences and the calls keep their types.
THEOREM TypeCorrect == Spec => []TypeOK
  <1>1. IInv => TypeOK
    BY DEF IInv
  <1> QED BY <1>1, Invariance, PTL

\* A pack that Pack accepted is with its sequence until it is called back, once,
\* in whatever order calls, Run, acks, cleanup and Flush run.
THEOREM PackAcceptedIsKept == Spec => []AcceptedIsKept
  <1>1. IInv => AcceptedIsKept
    <2> SUFFICES ASSUME IInv, NEW c \in Callers
                 PROVE  LET places == {q \in DOMAIN seqs :
                                          c \in ToSet(seqs[q].packs) \cup seqs[q].resendQueue}
                        IN  Cardinality(places) + callbacks[c] =
                               IF caller[c].result = "true" THEN 1 ELSE 0
      BY DEF AcceptedIsKept
    <2> DEFINE places == {q \in DOMAIN seqs :
                             c \in ToSet(seqs[q].packs) \cup seqs[q].resendQueue}
    <2>1. /\ \A p, q \in DOMAIN seqs : c \in Held(seqs[p]) /\ c \in Held(seqs[q]) => p = q
          /\ \A q \in DOMAIN seqs : c \in Held(seqs[q]) =>
                callbacks[c] = 0 /\ caller[c].result = "true"
          /\ callbacks[c] # 0 => callbacks[c] = 1 /\ caller[c].result = "true"
          /\ callbacks[c] = 0 /\ caller[c].result = "true" =>
                \E q \in DOMAIN seqs : c \in Held(seqs[q])
      BY DEF IInv, PlaceInv
    <2>2. \A q : q \in places <=> q \in DOMAIN seqs /\ c \in Held(seqs[q])
      BY DEF Held
    <2> HIDE DEF places
    <2>3. CASE \E q \in DOMAIN seqs : c \in Held(seqs[q])
      <3>1. PICK q \in DOMAIN seqs : c \in Held(seqs[q])
        BY <2>3
      <3>2. places = {q}
        BY <2>1, <2>2, <3>1
      <3>3. Cardinality(places) = 1
        BY <3>2, FS_Singleton
      <3> QED BY <2>1, <3>1, <3>3 DEF places
    <2>4. CASE ~\E q \in DOMAIN seqs : c \in Held(seqs[q])
      <3>1. places = {}
        BY <2>2, <2>4
      <3>2. Cardinality(places) = 0
        BY <3>1, FS_EmptySet
      <3>3. callbacks[c] = IF caller[c].result = "true" THEN 1 ELSE 0
        BY <2>1, <2>4
      <3>4. callbacks[c] \in Nat
        BY Facts
      <3> QED BY <3>2, <3>3, <3>4 DEF places
    <2> QED BY <2>3, <2>4
  <1> QED BY <1>1, Invariance, PTL

\* No Pack sends on a closed channel, and whoever still runs can be stopped.
THEOREM NobodyIsLeft == Spec => [](NoClosedSend /\ RunningIsReachable)
  <1>1. IInv => NoClosedSend
    BY SeqFacts, Facts DEF IInv, CallerInv, NoClosedSend, SeqOK
  <1>2. IInv => RunningIsReachable
    BY DEF IInv
  <1> QED BY <1>1, <1>2, Invariance, PTL

\* If no caller stalls for the idle timeout in the middle of Pack, an idle close
\* also leaves no pack behind.
THEOREM LifetimeWithoutStalls ==
    ASSUME ~Stalls
    PROVE  Spec => []SequenceLifetime
  <1>1. IInv => SequenceLifetime
    <2> SUFFICES ASSUME IInv PROVE SequenceLifetime
      OBVIOUS
    <2>1. IdleIsEmpty
      BY SeqFacts DEF IdleIsEmpty, SeqOK
    <2>2. NoClosedSend
      BY SeqFacts, Facts DEF IInv, CallerInv, NoClosedSend, SeqOK
    <2> QED BY <2>1, <2>2 DEF IInv, SequenceLifetime
  <1> QED BY <1>1, Invariance, PTL
=============================================================================
