---------------------------- MODULE ReceiveBuffer ----------------------------
(***************************************************************************)
(* ReceiveBuffer (transfer.go) for one source: the registry of its receive *)
(* sequences, the head sequence id, the upgrade to a newer sequence id and *)
(* the goroutines that run and clean up the sequences.                     *)
(*                                                                         *)
(* Packs are handed in by the one goroutine of Client.run.  The sequence   *)
(* ids of a source are ordered by creation (ULIDs of the sender) and are   *)
(* numbers here.  A sequence object is the number of its creation.  The    *)
(* pack channel holds at most one pack; SendBuffer has the details of the  *)
(* channel and of the idle condition.                                      *)
(***************************************************************************)
EXTENDS Naturals, Sequences, FiniteSets

CONSTANTS
    MaxId,        \* bound: sequence ids the sender uses
    MaxSequences, \* bound: sequences created
    CanFlush      \* TRUE: Flush, Cancel or Close of the buffer may be called

Ids == 1 .. MaxId

ASSUME RegistryBounds == MaxId \in Nat /\ MaxSequences \in Nat /\ CanFlush \in BOOLEAN

VARIABLES
    receiveSequences, \* the sequence of each id, 0 for none
    headId,           \* headReceiveSequenceIds of the source, 0 for none
    seqs,             \* the sequences in order of creation
    client            \* [pc, id, skip, attempt] of the goroutine in Pack

vars == <<receiveSequences, headId, seqs, client>>

NewReceiveSequence(id) ==
    [id |-> id, run |-> "running", cancelled |-> FALSE, idleClosed |-> FALSE, packs |-> 0]

Idle == [pc |-> "idle", id |-> 0, skip |-> 0, attempt |-> 1]

Init ==
    /\ receiveSequences = [i \in Ids |-> 0]
    /\ headId = 0 /\ seqs = <<>> /\ client = Idle

-----------------------------------------------------------------------------
(* Pack                                                                    *)

\* A pack of sequence id arrives.
PackArrives(id) ==
    /\ client.pc = "idle"
    /\ client' = [pc |-> "init", id |-> id, skip |-> 0, attempt |-> 1]
    /\ UNCHANGED <<receiveSequences, headId, seqs>>

Create(id, registry, objects) ==
    /\ Len(objects) < MaxSequences
    /\ seqs' = Append(objects, NewReceiveSequence(id))
    /\ receiveSequences' = [registry EXCEPT ![id] = Len(objects) + 1]
    /\ headId' = id
    /\ client' = [client EXCEPT !.pc = "pack", !.skip = Len(objects) + 1]

\* initReceiveSequence when the id is registered: the sequence is used, or
\* cancelled and replaced when it is the one that has just failed.
UseSequence ==
    /\ client.pc = "init"
    /\ receiveSequences[client.id] \notin {0, client.skip}
    /\ client' = [client EXCEPT !.pc = "pack", !.skip = receiveSequences[client.id]]
    /\ UNCHANGED <<receiveSequences, headId, seqs>>

\* Fault: the sequence that is replaced is not cancelled.
ReplacedKept(objects, q) == objects

\* The sequence that is replaced is cancelled.
Replaced(objects, q) == [objects EXCEPT ![q].cancelled = TRUE]

ReplaceSequence ==
    /\ client.pc = "init"
    /\ client.skip # 0 /\ receiveSequences[client.id] = client.skip
    /\ Create(client.id, receiveSequences, Replaced(seqs, client.skip))

\* The id is not registered and the source has no head.
FirstSequence ==
    /\ client.pc = "init"
    /\ receiveSequences[client.id] = 0 /\ headId = 0
    /\ Create(client.id, receiveSequences, seqs)

\* A sequence older than the head: the pack is dropped.
DropOlder ==
    /\ client.pc = "init"
    /\ receiveSequences[client.id] = 0 /\ client.id < headId
    /\ client' = Idle
    /\ UNCHANGED <<receiveSequences, headId, seqs>>

\* A newer sequence: the head sequence is cancelled, and Pack waits for its
\* exit holding the mutex of the buffer.
UpgradeBegin ==
    /\ client.pc = "init"
    /\ receiveSequences[client.id] = 0 /\ headId # 0 /\ headId < client.id
    /\ receiveSequences[headId] # 0
    /\ seqs' = [seqs EXCEPT ![receiveSequences[headId]].cancelled = TRUE]
    /\ client' = [client EXCEPT !.pc = "waitForExit"]
    /\ UNCHANGED <<receiveSequences, headId>>

\* Fault: the upgrade does not wait.
ExitedAlways(q) == TRUE

\* Fault: the upgrade waits for the cleanup.
ExitedAndGone(q) == seqs[q].run = "gone"

\* WaitForExit returns: Run has closed the exit channel.
Exited(q) == seqs[q].run \in {"exited", "gone"}

UpgradeEnd ==
    /\ client.pc = "waitForExit"
    /\ Exited(receiveSequences[headId])
    /\ Create(client.id, [receiveSequences EXCEPT ![headId] = 0], seqs)

\* The buffer tries a second time, on another sequence.
AfterRefusal ==
    IF client.attempt = 1 THEN [client EXCEPT !.pc = "init", !.attempt = 2] ELSE Idle

\* Pack of the sequence: refused when it is cancelled or idle; the pack
\* is dropped when the channel stays full.
PackInto ==
    LET q == client.skip
        refused == seqs[q].cancelled \/ seqs[q].idleClosed
    IN  /\ client.pc = "pack"
        /\ IF refused
           THEN client' = AfterRefusal /\ UNCHANGED seqs
           ELSE /\ client' = Idle
                /\ seqs' = [seqs EXCEPT ![q].packs = 1]
        /\ UNCHANGED <<receiveSequences, headId>>

-----------------------------------------------------------------------------
(* The goroutine of a sequence                                             *)

\* Run takes a pack, also when the sequence is cancelled meanwhile, and is in
\* the receive callback.
DeliverBegin(q) ==
    /\ seqs[q].run = "running" /\ seqs[q].packs > 0
    /\ seqs' = [seqs EXCEPT ![q].run = "delivering", ![q].packs = 0]
    /\ UNCHANGED <<receiveSequences, headId, client>>

DeliverEnd(q) ==
    /\ seqs[q].run = "delivering"
    /\ seqs' = [seqs EXCEPT ![q].run = "running"]
    /\ UNCHANGED <<receiveSequences, headId, client>>

\* Run returns when it is cancelled, on a gap timeout or a bad pack, or on the
\* idle timeout with its channel empty.
Return(q, s) ==
    /\ seqs' = [seqs EXCEPT ![q] = [s EXCEPT !.run = "exited", !.cancelled = TRUE]]
    /\ UNCHANGED <<receiveSequences, headId, client>>

RunDone(q) == seqs[q].run = "running" /\ seqs[q].cancelled /\ Return(q, seqs[q])
RunError(q) ==
    /\ seqs[q].run = "running" /\ ~seqs[q].cancelled /\ ~seqs[q].idleClosed
    /\ Return(q, seqs[q])

IdleClose(q) ==
    /\ seqs[q].run = "running" /\ seqs[q].packs = 0 /\ ~seqs[q].idleClosed
    /\ seqs' = [seqs EXCEPT ![q].idleClosed = TRUE]
    /\ UNCHANGED <<receiveSequences, headId, client>>

IdleReturn(q) == seqs[q].run = "running" /\ seqs[q].idleClosed /\ Return(q, seqs[q])

\* Fault: the head id is removed also after the sequence was removed.
UnregistersMissing(q) == receiveSequences[seqs[q].id] \in {0, q}

\* The cleanup removes the sequence only if it is still the one registered.
Unregisters(q) == receiveSequences[seqs[q].id] = q

Cleanup(q) ==
    /\ seqs[q].run = "exited" /\ client.pc # "waitForExit"
    /\ seqs' = [seqs EXCEPT ![q] = [NewReceiveSequence(@.id) EXCEPT !.run = "gone",
                                                                   !.cancelled = TRUE]]
    /\ receiveSequences' = IF Unregisters(q)
                           THEN [receiveSequences EXCEPT ![seqs[q].id] = 0]
                           ELSE receiveSequences
    /\ headId' = IF Unregisters(q) THEN 0 ELSE headId
    /\ UNCHANGED client

\* Close, Cancel and Flush cancel the registered sequences.
Flush ==
    /\ CanFlush /\ client.pc # "waitForExit"
    /\ \E i \in Ids : receiveSequences[i] # 0 /\ ~seqs[receiveSequences[i]].cancelled
    /\ seqs' = [q \in DOMAIN seqs |->
                   IF receiveSequences[seqs[q].id] = q
                   THEN [seqs[q] EXCEPT !.cancelled = TRUE] ELSE seqs[q]]
    /\ UNCHANGED <<receiveSequences, headId, client>>

-----------------------------------------------------------------------------
ClientStep ==
    \/ UseSequence \/ ReplaceSequence \/ FirstSequence \/ DropOlder
    \/ UpgradeBegin \/ UpgradeEnd \/ PackInto

SequenceStep(q) ==
    \/ DeliverBegin(q) \/ DeliverEnd(q) \/ RunDone(q) \/ RunError(q)
    \/ IdleClose(q) \/ IdleReturn(q) \/ Cleanup(q)

Next ==
    \/ \E id \in Ids : PackArrives(id)
    \/ ClientStep
    \/ \E q \in DOMAIN seqs : SequenceStep(q)
    \/ Flush

Spec == Init /\ [][Next]_vars

\* The goroutines run, the receive callback returns, and a cancelled sequence
\* sees that it is done.
Fairness ==
    /\ WF_vars(ClientStep)
    /\ \A q \in 1 .. MaxSequences :
          WF_vars(q \in DOMAIN seqs /\ (DeliverEnd(q) \/ RunDone(q) \/ IdleReturn(q)
                                          \/ Cleanup(q)))

FairSpec == Spec /\ Fairness

-----------------------------------------------------------------------------
(* Properties                                                              *)

\* The registry, the fields of ReceiveSequence and the place of the goroutine
\* in Pack have the values the code gives them: Pack is tried at most twice.
TypeOK ==
    /\ receiveSequences \in [Ids -> 0 .. Len(seqs)]
    /\ headId \in 0 .. MaxId
    /\ seqs \in Seq([id : Ids, run : {"running", "delivering", "exited", "gone"},
                     cancelled : BOOLEAN, idleClosed : BOOLEAN, packs : 0 .. 1])
    /\ client \in [pc : {"idle", "init", "pack", "waitForExit"}, id : 0 .. MaxId,
                   skip : 0 .. Len(seqs), attempt : 1 .. 2]

\* The head id is the one registered id of the source, so that Pack meets
\* neither "incorrect head sequence" nor "upgrade older sequence" (the panics
\* at transfer.go 2335 and 2347) nor a missing head sequence (2350-2351).
HeadIsRegistered ==
    \A i \in Ids : receiveSequences[i] # 0 <=> (headId # 0 /\ i = headId)

\* A sequence that still runs is registered or cancelled: Close, Cancel and
\* Flush of the buffer stop every sequence.
RunningIsReachable ==
    \A q \in DOMAIN seqs :
        seqs[q].run \in {"running", "delivering"} =>
            receiveSequences[seqs[q].id] = q \/ seqs[q].cancelled

Delivering == {q \in DOMAIN seqs : seqs[q].run = "delivering"}

\* Two sequences of a source are never in the receive callback at once, so
\* that "receives are correctly ordered across sequence versions" (comment at
\* transfer.go 2352).
\* The code does not keep it: README, "Where code and comments part".
OneDelivers == Cardinality(Delivering) <= 1

\* A newer sequence is in the receive callback together with an older one
\* only if the older one was replaced under its own id: the upgrade waits
\* for the sequence that is registered, whatever Flush, an idle exit or an
\* error does to it meanwhile.
UpgradeWaits ==
    \A p, q \in Delivering : p < q => \E r \in p + 1 .. q : seqs[r].id = seqs[p].id

\* A sequence is never formed for an id older than one formed before ("drop
\* older sequences for source", comment at transfer.go 2339).
\* The code does not keep it: README, "Where code and comments part".
NoOlderSequence ==
    \A p, q \in DOMAIN seqs : p < q => seqs[p].id <= seqs[q].id

\* The client goroutine leaves Pack: the wait for the exit of the older
\* sequence ends although it holds the mutex its cleanup needs.
PackReturns == client.pc # "idle" /\ Len(seqs) + 2 <= MaxSequences ~> client.pc = "idle"
=============================================================================
