------------------------- MODULE ReceiveBuffer_proofs -------------------------
(***************************************************************************)
(* Proofs about ReceiveBuffer, for any number of sequence ids and of       *)
(* sequences, with and without Flush.                                      *)
(***************************************************************************)
EXTENDS ReceiveBuffer, SequenceTheorems, TLAPS

SequenceType ==
    [id : Ids, run : {"running", "delivering", "exited", "gone"},
     cancelled : BOOLEAN, idleClosed : BOOLEAN, packs : 0 .. 1]

ClientType(n) ==
    [pc : {"idle", "init", "pack", "waitForExit"}, id : 0 .. MaxId,
     skip : 0 .. n, attempt : 1 .. 2]

-----------------------------------------------------------------------------
(* The inductive invariant.                                                *)

\* A registered sequence exists and has the id it is registered under.
RegistryInv ==
    \A i \in Ids : receiveSequences[i] # 0 =>
        /\ receiveSequences[i] \in DOMAIN seqs
        /\ seqs[receiveSequences[i]].id = i

\* The client goroutine in Pack has an id, and the sequence it has tried is
\* one of that id; it waits for exit only to upgrade an older head.
ClientInv ==
    /\ client.pc # "idle" => client.id \in Ids
    /\ client.pc = "pack" => client.skip # 0
    /\ client.skip # 0 => client.pc # "idle" /\ seqs[client.skip].id = client.id
    /\ client.pc = "waitForExit" =>
          headId # 0 /\ headId < client.id /\ receiveSequences[client.id] = 0

IInv == TypeOK /\ RegistryInv /\ ClientInv /\ HeadIsRegistered /\ RunningIsReachable

-----------------------------------------------------------------------------
(* Lemmas.                                                                 *)

\* A new sequence is one.
LEMMA NewSequenceType ==
    ASSUME NEW id \in Ids PROVE NewReceiveSequence(id) \in SequenceType
BY DEF NewReceiveSequence, SequenceType

\* Changing one sequence leaves a sequence of sequences of the same length.
LEMMA ChangeOne ==
    ASSUME NEW ss \in Seq(SequenceType), NEW q \in DOMAIN ss, NEW s \in SequenceType
    PROVE  LET tt == [ss EXCEPT ![q] = s]
           IN  /\ tt \in Seq(SequenceType)
               /\ Len(tt) = Len(ss) /\ DOMAIN tt = DOMAIN ss
               /\ tt[q] = s
               /\ \A p \in DOMAIN ss : p # q => tt[p] = ss[p]
OBVIOUS

\* Init establishes the invariant.
LEMMA InitInv == Init => IInv
<1> SUFFICES ASSUME Init PROVE IInv
  OBVIOUS
<1>1. seqs = <<>> /\ DOMAIN seqs = {} /\ Len(seqs) = 0
  BY DEF Init
<1>2. TypeOK
  BY <1>1, RegistryBounds DEF Init, TypeOK, Idle, Ids
<1>3. RegistryInv /\ ClientInv /\ HeadIsRegistered /\ RunningIsReachable
  BY <1>1 DEF Init, RegistryInv, ClientInv, HeadIsRegistered, RunningIsReachable, Idle
<1> QED BY <1>2, <1>3 DEF IInv

\* A step that changes one sequence q, and neither its id nor the registry,
\* keeps the invariant, if it leaves q cancelled when q was, or stops it.
LEMMA ChangeKeepsInv ==
    ASSUME IInv,
           NEW q \in DOMAIN seqs, NEW s \in SequenceType,
           s.id = seqs[q].id,
           seqs[q].cancelled => s.cancelled,
           s.run \in {"running", "delivering"} => seqs[q].run \in {"running", "delivering"},
           seqs' = [seqs EXCEPT ![q] = s],
           UNCHANGED <<receiveSequences, headId, client>>
    PROVE  IInv'
<1>1. seqs \in Seq(SequenceType)
  BY DEF IInv, TypeOK, SequenceType
<1>2. /\ seqs' \in Seq(SequenceType) /\ Len(seqs') = Len(seqs) /\ DOMAIN seqs' = DOMAIN seqs
      /\ seqs'[q] = s
      /\ \A p \in DOMAIN seqs : p # q => seqs'[p] = seqs[p]
  BY <1>1, ChangeOne
<1>3. TypeOK'
  BY <1>2 DEF IInv, TypeOK, SequenceType
<1>4. RegistryInv'
  BY <1>2 DEF IInv, RegistryInv
<1>5. ClientInv'
  <2>1. client.skip # 0 => client.skip \in DOMAIN seqs
    BY <1>1 DEF IInv, TypeOK
  <2> QED BY <1>2, <2>1 DEF IInv, ClientInv
<1>6. HeadIsRegistered'
  BY DEF IInv, HeadIsRegistered
<1>7. RunningIsReachable'
  <2> SUFFICES ASSUME NEW p \in DOMAIN seqs, seqs'[p].run \in {"running", "delivering"}
               PROVE  receiveSequences[seqs'[p].id] = p \/ seqs'[p].cancelled
    BY <1>2 DEF RunningIsReachable
  <2>1. CASE p = q
    BY <2>1, <1>2 DEF IInv, RunningIsReachable
  <2>2. CASE p # q
    BY <2>2, <1>2 DEF IInv, RunningIsReachable
  <2> QED BY <2>1, <2>2
<1> QED BY <1>3, <1>4, <1>5, <1>6, <1>7 DEF IInv

\* Forming the sequence of the id the client has keeps the invariant, when the
\* registry is left with no other id and the sequence it had for the id has
\* been cancelled.
LEMMA CreateKeepsInv ==
    ASSUME IInv, client.pc # "idle",
           NEW registry \in [Ids -> 0 .. Len(seqs)], NEW objects \in Seq(SequenceType),
           Len(objects) = Len(seqs),
           \A i \in Ids : i # client.id => registry[i] = 0,
           \A p \in DOMAIN seqs :
               /\ objects[p].id = seqs[p].id
               /\ objects[p].run \in {"running", "delivering"} => objects[p].cancelled,
           Create(client.id, registry, objects)
    PROVE  IInv'
<1> DEFINE id == client.id
           n == Len(objects) + 1
           new == NewReceiveSequence(id)
<1>1. id \in Ids
  BY DEF IInv, ClientInv
<1>2. new \in SequenceType /\ new.id = id /\ new.run = "running"
  BY <1>1, NewSequenceType DEF NewReceiveSequence
<1>3. /\ seqs' = Append(objects, new)
      /\ receiveSequences' = [registry EXCEPT ![id] = n]
      /\ headId' = id
      /\ client' = [client EXCEPT !.pc = "pack", !.skip = n]
  BY DEF Create
<1> HIDE DEF new
<1>4. /\ seqs' \in Seq(SequenceType) /\ Len(seqs') = n /\ DOMAIN seqs' = 1 .. n
      /\ seqs'[n] = new /\ \A p \in 1 .. Len(objects) : seqs'[p] = objects[p]
  BY <1>2, <1>3
<1>5. n \in Nat /\ n > 0 /\ n = Len(seqs) + 1 /\ n \in DOMAIN seqs'
  BY <1>4
<1>6. /\ client' \in [pc : {"idle", "init", "pack", "waitForExit"}, id : 0 .. MaxId,
                      skip : 0 .. n, attempt : 1 .. 2]
      /\ client'.pc = "pack" /\ client'.skip = n /\ client'.id = id
  <2>1. client \in ClientType(Len(seqs)) /\ n \in 0 .. n
    BY <1>5 DEF IInv, TypeOK, ClientType
  <2>2. 0 .. Len(seqs) \subseteq 0 .. n
    BY <1>5
  <2> HIDE DEF n
  <2> QED BY <1>3, <2>1, <2>2 DEF ClientType
<1>7. /\ receiveSequences' \in [Ids -> 0 .. n]
      /\ receiveSequences'[id] = n
      /\ \A i \in Ids : i # id => receiveSequences'[i] = 0
  BY <1>1, <1>3, <1>5
<1>8. TypeOK'
  BY <1>1, <1>3, <1>4, <1>6, <1>7, RegistryBounds DEF TypeOK, SequenceType, Ids
<1>9. RegistryInv'
  BY <1>1, <1>2, <1>4, <1>5, <1>7 DEF RegistryInv
<1>10. ClientInv'
  BY <1>1, <1>2, <1>4, <1>6 DEF ClientInv
<1>11. HeadIsRegistered'
  BY <1>1, <1>3, <1>5, <1>7 DEF HeadIsRegistered, Ids
<1>12. RunningIsReachable'
  <2> SUFFICES ASSUME NEW p \in 1 .. n, seqs'[p].run \in {"running", "delivering"}
               PROVE  receiveSequences'[seqs'[p].id] = p \/ seqs'[p].cancelled
    BY <1>4 DEF RunningIsReachable
  <2>1. CASE p = n
    BY <2>1, <1>2, <1>4, <1>7
  <2>2. CASE p # n
    <3>1. p \in 1 .. Len(objects) /\ p \in DOMAIN seqs
      BY <2>2, <1>5
    <3> QED BY <3>1, <1>4
  <2> QED BY <2>1, <2>2
<1> QED BY <1>8, <1>9, <1>10, <1>11, <1>12 DEF IInv

-----------------------------------------------------------------------------
(* The invariant is inductive: one step per action.                        *)

\* Every step keeps the invariant.
LEMMA NextInv == IInv /\ [Next]_vars => IInv'
<1> SUFFICES ASSUME IInv, [Next]_vars PROVE IInv'
  OBVIOUS
<1>type. seqs \in Seq(SequenceType)
  BY DEF IInv, TypeOK, SequenceType
<1>elem. \A q \in DOMAIN seqs : seqs[q] \in SequenceType
  BY <1>type
<1>1. ASSUME NEW id \in Ids, PackArrives(id) PROVE IInv'
  <2>1. client' = [pc |-> "init", id |-> id, skip |-> 0, attempt |-> 1]
        /\ UNCHANGED <<receiveSequences, headId, seqs>>
    BY <1>1 DEF PackArrives
  <2>2. TypeOK' /\ ClientInv'
    BY <2>1, <1>type, RegistryBounds DEF IInv, TypeOK, ClientInv, Ids
  <2> QED BY <2>1, <2>2 DEF IInv, RegistryInv, HeadIsRegistered, RunningIsReachable
<1>2. CASE UseSequence
  <2> DEFINE q == receiveSequences[client.id]
  <2>1. client.id \in Ids /\ q # 0
    BY <1>2 DEF UseSequence, IInv, ClientInv
  <2>2. q \in DOMAIN seqs /\ seqs[q].id = client.id
    BY <2>1 DEF IInv, RegistryInv
  <2>3. client' = [client EXCEPT !.pc = "pack", !.skip = q]
        /\ UNCHANGED <<receiveSequences, headId, seqs>>
    BY <1>2 DEF UseSequence
  <2>4. TypeOK' /\ ClientInv'
    BY <2>1, <2>2, <2>3, <1>type DEF IInv, TypeOK, ClientInv
  <2> QED BY <2>3, <2>4 DEF IInv, RegistryInv, HeadIsRegistered, RunningIsReachable
<1>3. CASE ReplaceSequence
  <2> DEFINE q == client.skip
             s == [seqs[q] EXCEPT !.cancelled = TRUE]
             objects == Replaced(seqs, q)
  <2>1. client.pc # "idle" /\ client.id \in Ids /\ q # 0 /\ receiveSequences[client.id] = q
    BY <1>3 DEF ReplaceSequence, IInv, ClientInv
  <2>2. q \in DOMAIN seqs /\ seqs[q].id = client.id
    BY <2>1 DEF IInv, RegistryInv
  <2>3. s \in SequenceType /\ s.id = seqs[q].id /\ s.cancelled = TRUE /\ objects = [seqs EXCEPT ![q] = s]
    BY <2>2, <1>elem DEF SequenceType, Replaced
  <2> HIDE DEF s, objects
  <2>4. /\ objects \in Seq(SequenceType) /\ Len(objects) = Len(seqs)
        /\ objects[q] = s /\ \A p \in DOMAIN seqs : p # q => objects[p] = seqs[p]
    BY <2>2, <2>3, <1>type, ChangeOne
  <2>5. headId = client.id /\ \A i \in Ids : i # client.id => receiveSequences[i] = 0
    BY <2>1 DEF IInv, HeadIsRegistered
  <2>6. ASSUME NEW p \in DOMAIN seqs
        PROVE  /\ objects[p].id = seqs[p].id
               /\ objects[p].run \in {"running", "delivering"} => objects[p].cancelled
    <3>1. CASE p = q
      BY <3>1, <2>3, <2>4
    <3>2. CASE p # q
      <4>1. seqs[p].id \in Ids
        BY <1>elem DEF SequenceType
      <4>2. receiveSequences[seqs[p].id] # p
        BY <3>2, <4>1, <2>1, <2>5, <1>type
      <4> QED BY <3>2, <4>2, <2>4 DEF IInv, RunningIsReachable
    <3> QED BY <3>1, <3>2
  <2>7. Create(client.id, receiveSequences, objects)
    BY <1>3 DEF ReplaceSequence, objects
  <2>8. receiveSequences \in [Ids -> 0 .. Len(seqs)]
    BY DEF IInv, TypeOK
  <2> QED BY <2>1, <2>4, <2>5, <2>6, <2>7, <2>8, CreateKeepsInv
<1>4. CASE FirstSequence
  <2>1. client.pc # "idle" /\ Create(client.id, receiveSequences, seqs) /\ headId = 0
    BY <1>4 DEF FirstSequence
  <2>2. \A i \in Ids : receiveSequences[i] = 0
    BY <2>1 DEF IInv, HeadIsRegistered
  <2>3. \A p \in DOMAIN seqs : seqs[p].run \in {"running", "delivering"} => seqs[p].cancelled
    BY <2>2, <1>elem, <1>type DEF IInv, RunningIsReachable, SequenceType
  <2>4. receiveSequences \in [Ids -> 0 .. Len(seqs)]
    BY DEF IInv, TypeOK
  <2> QED BY <2>1, <2>2, <2>3, <2>4, <1>type, CreateKeepsInv
<1>5. CASE DropOlder
  <2>1. client' = Idle /\ UNCHANGED <<receiveSequences, headId, seqs>>
    BY <1>5 DEF DropOlder
  <2>2. TypeOK' /\ ClientInv'
    BY <2>1, <1>type, RegistryBounds DEF IInv, TypeOK, ClientInv, Idle
  <2> QED BY <2>1, <2>2 DEF IInv, RegistryInv, HeadIsRegistered, RunningIsReachable
<1>6. CASE UpgradeBegin
  <2> DEFINE q == receiveSequences[headId]
             s == [seqs[q] EXCEPT !.cancelled = TRUE]
  <2>1. /\ client.pc = "init" /\ headId # 0 /\ headId < client.id /\ q # 0
        /\ receiveSequences[client.id] = 0
        /\ client' = [client EXCEPT !.pc = "waitForExit"]
        /\ seqs' = [seqs EXCEPT ![q] = s]
        /\ UNCHANGED <<receiveSequences, headId>>
    BY <1>6, Zenon DEF UpgradeBegin
  <2>2. headId \in Ids
    BY <2>1, RegistryBounds DEF IInv, TypeOK, Ids
  <2>3. q \in DOMAIN seqs
    BY <2>1, <2>2 DEF IInv, RegistryInv
  <2>4. s \in SequenceType /\ s.id = seqs[q].id /\ s.cancelled = TRUE
    BY <2>3, <1>elem DEF SequenceType
  <2> HIDE DEF s
  <2>5. /\ seqs' \in Seq(SequenceType) /\ Len(seqs') = Len(seqs) /\ DOMAIN seqs' = DOMAIN seqs
        /\ seqs'[q] = s /\ \A p \in DOMAIN seqs : p # q => seqs'[p] = seqs[p]
    BY <2>1, <2>3, <2>4, <1>type, ChangeOne
  <2>6. TypeOK'
    BY <2>1, <2>5 DEF IInv, TypeOK, SequenceType
  <2>7. RegistryInv' /\ HeadIsRegistered'
    BY <2>1, <2>4, <2>5 DEF IInv, RegistryInv, HeadIsRegistered
  <2>8. ClientInv'
    <3>1. client'.pc = "waitForExit" /\ client'.id = client.id /\ client'.skip = client.skip
      BY <2>1 DEF IInv, TypeOK
    <3>2. client.skip # 0 => client.skip \in DOMAIN seqs
      BY <1>type DEF IInv, TypeOK
    <3>3. client.skip # 0 => seqs'[client.skip].id = client.id
      BY <3>2, <2>4, <2>5 DEF IInv, ClientInv
    <3> QED BY <3>1, <3>3, <2>1 DEF IInv, ClientInv
  <2>9. RunningIsReachable'
    BY <2>1, <2>4, <2>5 DEF IInv, RunningIsReachable
  <2> QED BY <2>6, <2>7, <2>8, <2>9 DEF IInv
<1>7. CASE UpgradeEnd
  <2> DEFINE q == receiveSequences[headId]
             registry == [receiveSequences EXCEPT ![headId] = 0]
  <2>1. /\ client.pc = "waitForExit" /\ Exited(q) /\ Create(client.id, registry, seqs)
        /\ headId \in Ids
    BY <1>7, RegistryBounds DEF UpgradeEnd, IInv, ClientInv, TypeOK, Ids
  <2>2. registry \in [Ids -> 0 .. Len(seqs)] /\ \A i \in Ids : registry[i] = 0
    BY <2>1, <1>type DEF IInv, TypeOK, HeadIsRegistered
  <2>3. ASSUME NEW p \in DOMAIN seqs, seqs[p].run \in {"running", "delivering"}
        PROVE  seqs[p].cancelled
    <3>1. seqs[p].id \in Ids /\ p # 0
      BY <1>elem, <1>type DEF SequenceType
    <3>2. CASE seqs[p].id = headId
      <4>1. p # q
        BY <2>1, <2>3 DEF Exited
      <4> QED BY <3>2, <4>1, <2>3 DEF IInv, RunningIsReachable
    <3>3. CASE seqs[p].id # headId
      <4>1. receiveSequences[seqs[p].id] = 0
        BY <3>1, <3>3 DEF IInv, HeadIsRegistered
      <4> QED BY <3>1, <4>1, <2>3 DEF IInv, RunningIsReachable
    <3> QED BY <3>2, <3>3
  <2> HIDE DEF registry
  <2> QED BY <2>1, <2>2, <2>3, <1>type, CreateKeepsInv
<1>8. CASE PackInto
  <2> DEFINE q == client.skip
  <2>1. q # 0 /\ client.pc = "pack" /\ client.id \in Ids
    BY <1>8 DEF PackInto, IInv, ClientInv
  <2>2. q \in DOMAIN seqs
    BY <2>1, <1>type DEF IInv, TypeOK
  <2>3. CASE UNCHANGED seqs /\ client' = AfterRefusal
    <3>1. UNCHANGED <<receiveSequences, headId>>
      BY <1>8 DEF PackInto
    <3>2. CASE client' = Idle
      <4>1. client' \in ClientType(Len(seqs)) /\ client'.pc = "idle" /\ client'.skip = 0
        BY <3>2, <1>type, RegistryBounds DEF Idle, ClientType
      <4>2. TypeOK' /\ ClientInv'
        BY <4>1, <2>3, <3>1 DEF IInv, TypeOK, ClientInv, ClientType
      <4> QED BY <2>3, <3>1, <4>2 DEF IInv, RegistryInv, HeadIsRegistered, RunningIsReachable
    <3>3. CASE client' = [client EXCEPT !.pc = "init", !.attempt = 2]
      <4>1. /\ client' \in ClientType(Len(seqs)) /\ client'.pc = "init"
            /\ client'.skip = client.skip /\ client'.id = client.id
        <5>1. client \in ClientType(Len(seqs)) /\ 2 \in 1 .. 2
          BY DEF IInv, TypeOK, ClientType
        <5> QED BY <5>1, <3>3, Zenon DEF ClientType
      <4>2. TypeOK' /\ ClientInv'
        BY <4>1, <2>1, <2>3, <3>1 DEF IInv, TypeOK, ClientInv, ClientType
      <4> QED BY <2>3, <3>1, <4>2 DEF IInv, RegistryInv, HeadIsRegistered, RunningIsReachable
    <3> QED BY <2>3, <3>2, <3>3 DEF AfterRefusal
  <2>4. CASE client' = Idle /\ seqs' = [seqs EXCEPT ![q].packs = 1]
    <3> DEFINE s == [seqs[q] EXCEPT !.packs = 1]
    <3>1. UNCHANGED <<receiveSequences, headId>> /\ seqs' = [seqs EXCEPT ![q] = s]
      BY <1>8, <2>4 DEF PackInto
    <3>2. /\ s \in SequenceType /\ s.id = seqs[q].id /\ s.run = seqs[q].run
          /\ s.cancelled = seqs[q].cancelled
      BY <2>2, <1>elem DEF SequenceType
    <3> HIDE DEF s
    <3>3. /\ seqs' \in Seq(SequenceType) /\ Len(seqs') = Len(seqs) /\ DOMAIN seqs' = DOMAIN seqs
          /\ seqs'[q] = s /\ \A p \in DOMAIN seqs : p # q => seqs'[p] = seqs[p]
      BY <2>2, <3>1, <3>2, <1>type, ChangeOne
    <3>4. TypeOK' /\ ClientInv'
      BY <2>4, <3>1, <3>3, RegistryBounds DEF IInv, TypeOK, ClientInv, Idle, SequenceType
    <3>5. RegistryInv' /\ HeadIsRegistered'
      BY <3>1, <3>2, <3>3 DEF IInv, RegistryInv, HeadIsRegistered
    <3>6. RunningIsReachable'
      BY <3>1, <3>2, <3>3 DEF IInv, RunningIsReachable
    <3> QED BY <3>4, <3>5, <3>6 DEF IInv
  <2> QED BY <1>8, <2>3, <2>4 DEF PackInto
<1>9. ASSUME NEW q \in DOMAIN seqs, SequenceStep(q) PROVE IInv'
  <2>0. seqs[q] \in SequenceType
    BY <1>elem
  <2>1. CASE DeliverBegin(q)
    <3> DEFINE s == [seqs[q] EXCEPT !.run = "delivering", !.packs = 0]
    <3>1. seqs' = [seqs EXCEPT ![q] = s] /\ seqs[q].run = "running"
          /\ UNCHANGED <<receiveSequences, headId, client>>
      BY <2>1 DEF DeliverBegin
    <3>2. 0 \in 0 .. 1
      OBVIOUS
    <3>3. s \in SequenceType /\ s.id = seqs[q].id /\ s.cancelled = seqs[q].cancelled
      BY <2>0, <3>2, Zenon DEF SequenceType
    <3> HIDE DEF s
    <3> QED BY <3>1, <3>3, ChangeKeepsInv
  <2>2. CASE DeliverEnd(q)
    <3> DEFINE s == [seqs[q] EXCEPT !.run = "running"]
    <3>1. seqs' = [seqs EXCEPT ![q] = s] /\ seqs[q].run = "delivering"
          /\ UNCHANGED <<receiveSequences, headId, client>>
      BY <2>2 DEF DeliverEnd
    <3>2. s \in SequenceType /\ s.id = seqs[q].id /\ s.cancelled = seqs[q].cancelled
      BY <2>0 DEF SequenceType
    <3> HIDE DEF s
    <3> QED BY <3>1, <3>2, ChangeKeepsInv
  <2>3. CASE RunDone(q) \/ RunError(q) \/ IdleReturn(q)
    <3> DEFINE s == [seqs[q] EXCEPT !.run = "exited", !.cancelled = TRUE]
    <3>1. seqs' = [seqs EXCEPT ![q] = s] /\ UNCHANGED <<receiveSequences, headId, client>>
      BY <2>3 DEF RunDone, RunError, IdleReturn, Return
    <3>2. s \in SequenceType /\ s.id = seqs[q].id /\ s.cancelled = TRUE /\ s.run = "exited"
      BY <2>0 DEF SequenceType
    <3> HIDE DEF s
    <3> QED BY <3>1, <3>2, ChangeKeepsInv
  <2>4. CASE IdleClose(q)
    <3> DEFINE s == [seqs[q] EXCEPT !.idleClosed = TRUE]
    <3>1. seqs' = [seqs EXCEPT ![q] = s] /\ UNCHANGED <<receiveSequences, headId, client>>
      BY <2>4 DEF IdleClose
    <3>2. /\ s \in SequenceType /\ s.id = seqs[q].id
          /\ s.cancelled = seqs[q].cancelled /\ s.run = seqs[q].run
      BY <2>0 DEF SequenceType
    <3> HIDE DEF s
    <3> QED BY <3>1, <3>2, ChangeKeepsInv
  <2>5. CASE Cleanup(q)
    <3> DEFINE id == seqs[q].id
               s == [NewReceiveSequence(id) EXCEPT !.run = "gone", !.cancelled = TRUE]
    <3>1. /\ seqs' = [seqs EXCEPT ![q] = s]
          /\ client.pc # "waitForExit"
          /\ receiveSequences' = IF Unregisters(q) THEN [receiveSequences EXCEPT ![id] = 0]
                                                   ELSE receiveSequences
          /\ headId' = IF Unregisters(q) THEN 0 ELSE headId
          /\ UNCHANGED client
      BY <2>5 DEF Cleanup
    <3>2. id \in Ids /\ s \in SequenceType /\ s.id = id /\ s.run = "gone"
      <4>1. id \in Ids
        BY <2>0 DEF SequenceType
      <4>2. NewReceiveSequence(id) \in SequenceType /\ NewReceiveSequence(id).id = id
        BY <4>1, NewSequenceType DEF NewReceiveSequence
      <4> QED BY <4>1, <4>2, Zenon DEF SequenceType
    <3> HIDE DEF s
    <3>3. /\ seqs' \in Seq(SequenceType) /\ Len(seqs') = Len(seqs) /\ DOMAIN seqs' = DOMAIN seqs
          /\ seqs'[q] = s /\ \A p \in DOMAIN seqs : p # q => seqs'[p] = seqs[p]
      BY <3>1, <3>2, <1>type, ChangeOne
    <3>4. Unregisters(q) => headId = id /\ \A i \in Ids : receiveSequences'[i] = 0
      BY <3>1, <3>2, <1>type DEF Unregisters, IInv, HeadIsRegistered, TypeOK
    <3>5. ~Unregisters(q) => receiveSequences[id] # q /\ UNCHANGED <<receiveSequences, headId>>
      BY <3>1 DEF Unregisters
    <3>6. TypeOK'
      BY <3>1, <3>2, <3>3, RegistryBounds DEF IInv, TypeOK, SequenceType
    <3>7. RegistryInv'
      BY <3>2, <3>3, <3>4, <3>5 DEF IInv, RegistryInv
    <3>8. ClientInv'
      <4>1. client.skip # 0 => client.skip \in DOMAIN seqs
        BY <1>type DEF IInv, TypeOK
      <4> QED BY <4>1, <3>1, <3>2, <3>3 DEF IInv, ClientInv
    <3>9. HeadIsRegistered'
      BY <3>1, <3>4, <3>5 DEF IInv, HeadIsRegistered
    <3>10. RunningIsReachable'
      <4> SUFFICES ASSUME NEW p \in DOMAIN seqs, seqs'[p].run \in {"running", "delivering"}
                   PROVE  receiveSequences'[seqs'[p].id] = p \/ seqs'[p].cancelled
        BY <3>3 DEF RunningIsReachable
      <4>1. p # q /\ seqs'[p] = seqs[p] /\ seqs[p].id \in Ids
        BY <3>2, <3>3, <1>elem DEF SequenceType
      <4>2. CASE Unregisters(q)
        <5>1. receiveSequences[seqs[p].id] # p
          BY <4>1, <4>2, <3>4, <1>type DEF IInv, HeadIsRegistered, Unregisters
        <5> QED BY <4>1, <5>1 DEF IInv, RunningIsReachable
      <4>3. CASE ~Unregisters(q)
        BY <4>1, <4>3, <3>5 DEF IInv, RunningIsReachable
      <4> QED BY <4>2, <4>3
    <3> QED BY <3>6, <3>7, <3>8, <3>9, <3>10 DEF IInv
  <2> QED BY <1>9, <2>1, <2>2, <2>3, <2>4, <2>5 DEF SequenceStep
<1>10. CASE Flush
  <2> DEFINE after(q) == IF receiveSequences[seqs[q].id] = q
                         THEN [seqs[q] EXCEPT !.cancelled = TRUE] ELSE seqs[q]
  <2>1. seqs' = [q \in DOMAIN seqs |-> after(q)] /\ UNCHANGED <<receiveSequences, headId, client>>
    BY <1>10 DEF Flush
  <2>2. ASSUME NEW q \in DOMAIN seqs
        PROVE  /\ after(q) \in SequenceType /\ after(q).id = seqs[q].id
               /\ after(q).run = seqs[q].run
               /\ seqs[q].cancelled => after(q).cancelled
    BY <1>elem DEF SequenceType
  <2>3. /\ seqs' \in Seq(SequenceType) /\ Len(seqs') = Len(seqs) /\ DOMAIN seqs' = DOMAIN seqs
        /\ \A q \in DOMAIN seqs : seqs'[q] = after(q)
    <3>1. DOMAIN seqs = 1 .. Len(seqs) /\ Len(seqs) \in Nat
      BY <1>type
    <3> HIDE DEF after
    <3>2. seqs' \in [1 .. Len(seqs) -> SequenceType]
      BY <2>1, <2>2, <3>1
    <3> QED BY <2>1, <3>1, <3>2
  <2>4. TypeOK'
    BY <2>1, <2>3 DEF IInv, TypeOK, SequenceType
  <2> HIDE DEF after
  <2>5. RegistryInv' /\ HeadIsRegistered'
    BY <2>1, <2>2, <2>3 DEF IInv, RegistryInv, HeadIsRegistered
  <2>6. ClientInv'
    <3>1. client.skip # 0 => client.skip \in DOMAIN seqs
      BY <1>type DEF IInv, TypeOK
    <3> QED BY <3>1, <2>1, <2>2, <2>3 DEF IInv, ClientInv
  <2>7. RunningIsReachable'
    BY <2>1, <2>2, <2>3 DEF IInv, RunningIsReachable
  <2> QED BY <2>4, <2>5, <2>6, <2>7 DEF IInv
<1>11. CASE UNCHANGED vars
  BY <1>11 DEF vars, IInv, TypeOK, RegistryInv, ClientInv, HeadIsRegistered, RunningIsReachable
<1> QED BY <1>1, <1>2, <1>3, <1>4, <1>5, <1>6, <1>7, <1>8, <1>9, <1>10, <1>11
        DEF Next, ClientStep

-----------------------------------------------------------------------------
(* The upgrade waits: a second invariant, on top of the first.             *)

\* The sequence that is registered is the last one that was formed; and one
\* that still runs is registered, or the next one was formed under its id.
UpgradeInv ==
    /\ \A i \in Ids : receiveSequences[i] \in {0, Len(seqs)}
    /\ \A p \in DOMAIN seqs : seqs[p].run \in {"running", "delivering"} =>
          \/ receiveSequences[seqs[p].id] = p
          \/ p + 1 \in DOMAIN seqs /\ seqs[p + 1].id = seqs[p].id

\* The sequences have ids.
LEMMA IdsOfSequences ==
    ASSUME IInv
    PROVE  /\ seqs \in Seq(SequenceType) /\ Len(seqs) \in Nat /\ DOMAIN seqs = 1 .. Len(seqs)
           /\ \A q \in DOMAIN seqs : seqs[q] \in SequenceType /\ seqs[q].id \in Ids /\ q # 0
<1>1. seqs \in Seq(SequenceType)
  BY DEF IInv, TypeOK, SequenceType
<1>2. /\ Len(seqs) \in Nat /\ DOMAIN seqs = 1 .. Len(seqs)
      /\ \A q \in DOMAIN seqs : seqs[q] \in SequenceType
  BY <1>1
<1>3. \A s \in SequenceType : s.id \in Ids
  BY DEF SequenceType
<1> QED BY <1>1, <1>2, <1>3

\* A step that forms no sequence, starts none, and takes a sequence out of the
\* registry only after its Run has returned.
LEMMA QuietUpgrade ==
    ASSUME IInv, UpgradeInv, Len(seqs') = Len(seqs), DOMAIN seqs' = DOMAIN seqs,
           \A p \in DOMAIN seqs :
               /\ seqs'[p].id = seqs[p].id
               /\ seqs'[p].run \in {"running", "delivering"} =>
                     seqs[p].run \in {"running", "delivering"},
           \A i \in Ids :
               \/ receiveSequences'[i] = receiveSequences[i]
               \/ /\ receiveSequences'[i] = 0
                  /\ receiveSequences[i] \in DOMAIN seqs =>
                        seqs'[receiveSequences[i]].run \notin {"running", "delivering"}
    PROVE  UpgradeInv'
<1>1. \A i \in Ids : receiveSequences'[i] \in {0, Len(seqs')}
  BY DEF UpgradeInv
<1>2. ASSUME NEW p \in DOMAIN seqs, seqs'[p].run \in {"running", "delivering"}
      PROVE  \/ receiveSequences'[seqs'[p].id] = p
             \/ p + 1 \in DOMAIN seqs' /\ seqs'[p + 1].id = seqs'[p].id
  <2>2. seqs[p].id \in Ids
    BY IdsOfSequences
  <2>3. CASE receiveSequences[seqs[p].id] = p
    BY <1>2, <2>2, <2>3
  <2>4. CASE p + 1 \in DOMAIN seqs /\ seqs[p + 1].id = seqs[p].id
    BY <2>4
  <2> QED BY <1>2, <2>3, <2>4 DEF UpgradeInv
<1> QED BY <1>1, <1>2 DEF UpgradeInv

\* A sequence is formed: what is registered no longer runs, or has its id.
LEMMA CreateUpgrade ==
    ASSUME IInv, UpgradeInv, client.id \in Ids,
           NEW registry \in [Ids -> Nat], NEW objects \in Seq(SequenceType),
           Len(objects) = Len(seqs),
           \A i \in Ids : i # client.id => registry[i] = 0,
           \A p \in DOMAIN seqs : objects[p].id = seqs[p].id /\ objects[p].run = seqs[p].run,
           \A p \in DOMAIN seqs :
               seqs[p].run \in {"running", "delivering"} /\ receiveSequences[seqs[p].id] = p
                  => seqs[p].id = client.id,
           Create(client.id, registry, objects)
    PROVE  UpgradeInv'
<1> DEFINE id == client.id
           n == Len(seqs) + 1
           new == NewReceiveSequence(id)
<1>0. seqs \in Seq(SequenceType) /\ Len(seqs) \in Nat /\ DOMAIN seqs = 1 .. Len(seqs)
  BY DEF IInv, TypeOK, SequenceType
<1>1. new \in SequenceType /\ new.id = id
  BY NewSequenceType DEF NewReceiveSequence
<1>2. seqs' = Append(objects, new) /\ receiveSequences' = [registry EXCEPT ![id] = n]
  BY DEF Create
<1> HIDE DEF new
<1>3. /\ Len(seqs') = n /\ DOMAIN seqs' = 1 .. n /\ seqs'[n] = new
      /\ \A p \in DOMAIN seqs : seqs'[p] = objects[p]
  BY <1>0, <1>1, <1>2
<1>4. /\ receiveSequences'[id] = n /\ \A i \in Ids : i # id => receiveSequences'[i] = 0
  BY <1>2
<1>5. ASSUME NEW p \in DOMAIN seqs', seqs'[p].run \in {"running", "delivering"}
      PROVE  \/ receiveSequences'[seqs'[p].id] = p
             \/ p + 1 \in DOMAIN seqs' /\ seqs'[p + 1].id = seqs'[p].id
  <2>1. CASE p = n
    BY <1>1, <1>3, <1>4, <2>1
  <2>2. CASE p \in DOMAIN seqs
    <3>1. seqs[p].run \in {"running", "delivering"} /\ seqs'[p].id = seqs[p].id
          /\ seqs[p].id \in Ids
      BY <1>3, <1>5, <2>2, IdsOfSequences
    <3>2. CASE receiveSequences[seqs[p].id] = p
      <4>1. seqs[p].id = id /\ p = Len(seqs)
        BY <1>0, <2>2, <3>1, <3>2 DEF UpgradeInv
      <4> QED BY <1>0, <1>1, <1>3, <3>1, <4>1
    <3>3. CASE p + 1 \in DOMAIN seqs /\ seqs[p + 1].id = seqs[p].id
      BY <1>0, <1>3, <3>1, <3>3
    <3> QED BY <2>2, <3>1, <3>2, <3>3 DEF UpgradeInv
  <2> QED BY <1>0, <1>3, <2>1, <2>2
<1> QED BY <1>3, <1>4, <1>5 DEF UpgradeInv

\* Every step keeps the second invariant.
LEMMA NextUpgrade == IInv /\ UpgradeInv /\ [Next]_vars => UpgradeInv'
<1> SUFFICES ASSUME IInv, UpgradeInv, [Next]_vars PROVE UpgradeInv'
  OBVIOUS
<1>type. seqs \in Seq(SequenceType) /\ Len(seqs) \in Nat /\ DOMAIN seqs = 1 .. Len(seqs)
         /\ receiveSequences \in [Ids -> Nat]
  BY DEF IInv, TypeOK, SequenceType
<1>elem. \A q \in DOMAIN seqs : seqs[q] \in SequenceType /\ seqs[q].id \in Ids /\ q # 0
  BY IdsOfSequences
<1>1. CASE UNCHANGED <<seqs, receiveSequences>>
  BY <1>1 DEF UpgradeInv
<1>2. ASSUME NEW q \in DOMAIN seqs, NEW s \in SequenceType, seqs' = [seqs EXCEPT ![q] = s],
             s.id = seqs[q].id,
             s.run \in {"running", "delivering"} => seqs[q].run \in {"running", "delivering"},
             UNCHANGED receiveSequences
      PROVE  UpgradeInv'
  <2>1. /\ Len(seqs') = Len(seqs) /\ DOMAIN seqs' = DOMAIN seqs
        /\ seqs'[q] = s /\ \A p \in DOMAIN seqs : p # q => seqs'[p] = seqs[p]
    BY <1>2, <1>type, ChangeOne
  <2>2. ASSUME NEW p \in DOMAIN seqs
        PROVE  /\ seqs'[p].id = seqs[p].id
               /\ seqs'[p].run \in {"running", "delivering"} =>
                     seqs[p].run \in {"running", "delivering"}
    BY <1>2, <2>1
  <2> QED BY <1>2, <2>1, <2>2, QuietUpgrade
<1>3. CASE ReplaceSequence
  <2> DEFINE q == client.skip
             s == [seqs[q] EXCEPT !.cancelled = TRUE]
             objects == Replaced(seqs, q)
  <2>1. /\ client.id \in Ids /\ q # 0 /\ receiveSequences[client.id] = q
        /\ Create(client.id, receiveSequences, objects)
    BY <1>3 DEF ReplaceSequence, IInv, ClientInv
  <2>2. q \in DOMAIN seqs /\ seqs[q].id = client.id
    BY <2>1 DEF IInv, RegistryInv
  <2>3. /\ s \in SequenceType /\ s.id = seqs[q].id /\ s.run = seqs[q].run
        /\ objects = [seqs EXCEPT ![q] = s]
    BY <2>2, <1>elem DEF SequenceType, Replaced
  <2> HIDE DEF s, objects
  <2>4. /\ objects \in Seq(SequenceType) /\ Len(objects) = Len(seqs)
        /\ objects[q] = s /\ \A p \in DOMAIN seqs : p # q => objects[p] = seqs[p]
    BY <2>2, <2>3, <1>type, ChangeOne
  <2>5. \A i \in Ids : i # client.id => receiveSequences[i] = 0
    BY <2>1 DEF IInv, HeadIsRegistered
  <2>6. \A p \in DOMAIN seqs : objects[p].id = seqs[p].id /\ objects[p].run = seqs[p].run
    BY <2>3, <2>4
  <2>7. \A p \in DOMAIN seqs : receiveSequences[seqs[p].id] = p => seqs[p].id = client.id
    BY <2>5, <1>elem
  <2> QED BY <2>1, <2>4, <2>5, <2>6, <2>7, <1>type, CreateUpgrade
<1>4. CASE FirstSequence
  <2>1. /\ client.id \in Ids /\ Create(client.id, receiveSequences, seqs) /\ headId = 0
    BY <1>4 DEF FirstSequence, IInv, ClientInv
  <2>2. \A i \in Ids : receiveSequences[i] = 0
    BY <2>1 DEF IInv, HeadIsRegistered
  <2>3. \A p \in DOMAIN seqs : receiveSequences[seqs[p].id] # p
    BY <2>2, <1>elem
  <2> QED BY <2>1, <2>2, <2>3, <1>type, CreateUpgrade
<1>5. CASE UpgradeBegin
  <2> DEFINE q == receiveSequences[headId]
             s == [seqs[q] EXCEPT !.cancelled = TRUE]
  <2>1. headId # 0 /\ q # 0 /\ seqs' = [seqs EXCEPT ![q] = s] /\ UNCHANGED receiveSequences
    BY <1>5, Zenon DEF UpgradeBegin
  <2>2. headId \in Ids
    BY <2>1, RegistryBounds DEF IInv, TypeOK, Ids
  <2>3. q \in DOMAIN seqs
    BY <2>1, <2>2 DEF IInv, RegistryInv
  <2>4. s \in SequenceType /\ s.id = seqs[q].id /\ s.run = seqs[q].run
    BY <2>3, <1>elem DEF SequenceType
  <2> HIDE DEF s
  <2> QED BY <2>1, <2>3, <2>4, <1>2
<1>6. CASE UpgradeEnd
  <2> DEFINE q == receiveSequences[headId]
             registry == [receiveSequences EXCEPT ![headId] = 0]
  <2>1. /\ Exited(q) /\ Create(client.id, registry, seqs) /\ headId \in Ids /\ client.id \in Ids
    BY <1>6, RegistryBounds DEF UpgradeEnd, IInv, ClientInv, TypeOK, Ids
  <2>2. registry \in [Ids -> Nat] /\ \A i \in Ids : registry[i] = 0
    BY <2>1, <1>type DEF IInv, TypeOK, HeadIsRegistered
  <2>3. ASSUME NEW p \in DOMAIN seqs, receiveSequences[seqs[p].id] = p
        PROVE  seqs[p].run \notin {"running", "delivering"}
    <3>1. seqs[p].id = headId
      BY <2>3, <1>elem DEF IInv, HeadIsRegistered
    <3> QED BY <2>1, <2>3, <3>1 DEF Exited
  <2> HIDE DEF registry
  <2> QED BY <2>1, <2>2, <2>3, <1>type, CreateUpgrade
<1>7. CASE PackInto
  <2> DEFINE q == client.skip
             s == [seqs[q] EXCEPT !.packs = 1]
  <2>1. q # 0 /\ UNCHANGED receiveSequences
        /\ (UNCHANGED seqs \/ seqs' = [seqs EXCEPT ![q] = s])
    BY <1>7 DEF PackInto, IInv, ClientInv
  <2>2. q \in DOMAIN seqs
    BY <2>1, <1>type DEF IInv, TypeOK
  <2>3. s \in SequenceType /\ s.id = seqs[q].id /\ s.run = seqs[q].run
    BY <2>2, <1>elem DEF SequenceType
  <2> HIDE DEF s
  <2> QED BY <1>1, <1>2, <2>1, <2>2, <2>3
<1>8. ASSUME NEW q \in DOMAIN seqs, SequenceStep(q) PROVE UpgradeInv'
  <2>0. seqs[q] \in SequenceType
    BY <1>elem
  <2>1. CASE DeliverBegin(q) \/ DeliverEnd(q)
    <3> DEFINE s == seqs'[q]
    <3>1. /\ seqs' = [seqs EXCEPT ![q] = s] /\ seqs[q].run \in {"running", "delivering"}
          /\ UNCHANGED receiveSequences
      BY <2>1, <1>type DEF DeliverBegin, DeliverEnd
    <3>2. 0 \in 0 .. 1
      OBVIOUS
    <3>3. s \in SequenceType /\ s.id = seqs[q].id
      <4>1. s = [seqs[q] EXCEPT !.run = "delivering", !.packs = 0]
            \/ s = [seqs[q] EXCEPT !.run = "running"]
        BY <2>1, <1>type DEF DeliverBegin, DeliverEnd
      <4> HIDE DEF s
      <4> QED BY <2>0, <3>2, <4>1, Zenon DEF SequenceType
    <3> HIDE DEF s
    <3> QED BY <1>2, <3>1, <3>3
  <2>2. CASE RunDone(q) \/ RunError(q) \/ IdleReturn(q)
    <3> DEFINE s == [seqs[q] EXCEPT !.run = "exited", !.cancelled = TRUE]
    <3>1. seqs' = [seqs EXCEPT ![q] = s] /\ UNCHANGED receiveSequences
      BY <2>2 DEF RunDone, RunError, IdleReturn, Return
    <3>2. s \in SequenceType /\ s.id = seqs[q].id /\ s.run = "exited"
      BY <2>0 DEF SequenceType
    <3> HIDE DEF s
    <3> QED BY <1>2, <3>1, <3>2
  <2>3. CASE IdleClose(q)
    <3> DEFINE s == [seqs[q] EXCEPT !.idleClosed = TRUE]
    <3>1. seqs' = [seqs EXCEPT ![q] = s] /\ UNCHANGED receiveSequences
      BY <2>3 DEF IdleClose
    <3>2. s \in SequenceType /\ s.id = seqs[q].id /\ s.run = seqs[q].run
      BY <2>0 DEF SequenceType
    <3> HIDE DEF s
    <3> QED BY <1>2, <3>1, <3>2
  <2>4. CASE Cleanup(q)
    <3> DEFINE id == seqs[q].id
               s == [NewReceiveSequence(id) EXCEPT !.run = "gone", !.cancelled = TRUE]
    <3>1. /\ seqs' = [seqs EXCEPT ![q] = s]
          /\ receiveSequences' = IF Unregisters(q) THEN [receiveSequences EXCEPT ![id] = 0]
                                                   ELSE receiveSequences
      BY <2>4 DEF Cleanup
    <3>2. id \in Ids /\ s \in SequenceType /\ s.id = id /\ s.run = "gone"
      <4>1. NewReceiveSequence(id) \in SequenceType /\ NewReceiveSequence(id).id = id
        BY <1>elem, NewSequenceType DEF NewReceiveSequence
      <4> QED BY <4>1, <1>elem, Zenon DEF SequenceType
    <3> HIDE DEF s
    <3>3. /\ Len(seqs') = Len(seqs) /\ DOMAIN seqs' = DOMAIN seqs
          /\ seqs'[q] = s /\ \A p \in DOMAIN seqs : p # q => seqs'[p] = seqs[p]
      BY <3>1, <3>2, <1>type, ChangeOne
    <3>4. ASSUME NEW i \in Ids
          PROVE  \/ receiveSequences'[i] = receiveSequences[i]
                 \/ /\ receiveSequences'[i] = 0
                    /\ receiveSequences[i] \in DOMAIN seqs =>
                          seqs'[receiveSequences[i]].run \notin {"running", "delivering"}
      BY <3>1, <3>2, <3>3, <1>type DEF Unregisters
    <3>5. \A p \in DOMAIN seqs :
               /\ seqs'[p].id = seqs[p].id
               /\ seqs'[p].run \in {"running", "delivering"} =>
                     seqs[p].run \in {"running", "delivering"}
      BY <3>2, <3>3
    <3> QED BY <3>3, <3>4, <3>5, QuietUpgrade
  <2> QED BY <1>8, <2>1, <2>2, <2>3, <2>4 DEF SequenceStep
<1>9. CASE Flush
  <2> DEFINE after(q) == IF receiveSequences[seqs[q].id] = q
                         THEN [seqs[q] EXCEPT !.cancelled = TRUE] ELSE seqs[q]
  <2>1. seqs' = [q \in DOMAIN seqs |-> after(q)] /\ UNCHANGED receiveSequences
    BY <1>9 DEF Flush
  <2>2. ASSUME NEW q \in DOMAIN seqs
        PROVE  after(q).id = seqs[q].id /\ after(q).run = seqs[q].run
    BY <1>elem DEF SequenceType
  <2> HIDE DEF after
  <2>3. DOMAIN seqs' = DOMAIN seqs /\ \A q \in DOMAIN seqs : seqs'[q] = after(q)
    BY <2>1
  <2>4. Len(seqs') = Len(seqs)
    BY <2>3, <1>type, NextInv DEF IInv, TypeOK
  <2> QED BY <2>1, <2>2, <2>3, <2>4, QuietUpgrade
<1>10. CASE \/ UNCHANGED vars \/ UseSequence \/ DropOlder
            \/ \E id \in Ids : PackArrives(id)
  BY <1>1, <1>10 DEF vars, UseSequence, DropOlder, PackArrives
<1> QED BY <1>3, <1>4, <1>5, <1>6, <1>7, <1>8, <1>9, <1>10 DEF Next, ClientStep

-----------------------------------------------------------------------------
(* Theorems.                                                               *)

\* The invariant holds in every reachable state of the buffer.
THEOREM Invariance == Spec => []IInv
BY InitInv, NextInv, PTL DEF Spec

\* The state of the buffer stays well typed.
THEOREM TypeCorrect == Spec => []TypeOK
<1>1. IInv => TypeOK
  BY DEF IInv
<1> QED BY <1>1, Invariance, PTL

\* Whatever packs, exits, cleanups and flushes do, the head id of a source is
\* the one id it has registered: Pack never panics on its registry.
THEOREM NoRegistryPanic == Spec => []HeadIsRegistered
<1>1. IInv => HeadIsRegistered
  BY DEF IInv
<1> QED BY <1>1, Invariance, PTL

\* No sequence runs that is neither registered nor cancelled.
THEOREM EveryRunnerIsReachable == Spec => []RunningIsReachable
<1>1. IInv => RunningIsReachable
  BY DEF IInv
<1> QED BY <1>1, Invariance, PTL

\* A newer sequence is in the receive callback together with an older one only
\* if the older one was replaced under its own id, in every interleaving of
\* packs, exits, cleanups and flushes.
THEOREM UpgradesWait == Spec => []UpgradeWaits
<1>1. Init => UpgradeInv
  BY DEF Init, UpgradeInv
<1>2. IInv /\ UpgradeInv => UpgradeWaits
  <2> SUFFICES ASSUME IInv, UpgradeInv, NEW p \in Delivering, NEW q \in Delivering, p < q
               PROVE  \E r \in p + 1 .. q : seqs[r].id = seqs[p].id
    BY DEF UpgradeWaits
  <2>1. /\ seqs \in Seq(SequenceType) /\ Len(seqs) \in Nat /\ DOMAIN seqs = 1 .. Len(seqs)
        /\ p \in DOMAIN seqs /\ q \in DOMAIN seqs /\ seqs[p].run = "delivering"
    BY DEF IInv, TypeOK, SequenceType, Delivering
  <2>2. seqs[p].id \in Ids /\ p # Len(seqs)
    BY <2>1, IdsOfSequences
  <2>3. receiveSequences[seqs[p].id] # p
    BY <2>1, <2>2 DEF UpgradeInv
  <2>4. seqs[p + 1].id = seqs[p].id
    BY <2>1, <2>3 DEF UpgradeInv
  <2>5. p + 1 \in p + 1 .. q
    BY <2>1
  <2> QED BY <2>4, <2>5
<1> QED BY <1>1, <1>2, NextUpgrade, Invariance, PTL DEF Spec
=============================================================================
