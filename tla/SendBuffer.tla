----------------------------- MODULE SendBuffer -----------------------------
(***************************************************************************)
(* SendBuffer and the life of its SendSequences (transfer.go): callers of  *)
(* Pack, the pack channel of a sequence with its packMutex and its         *)
(* IdleCondition (util.go), the Run loop as far as it takes and answers    *)
(* packs, and the goroutine that closes a sequence and removes it.         *)
(*                                                                         *)
(* Every critical section is one step, except the two that block inside:   *)
(* Pack waits for the channel holding packMutex, and the cleanup waits for *)
(* packMutex holding the mutex of the buffer.  All sequences have the same *)
(* destination; a key stands for the rest of the sendSequenceId.  A caller *)
(* makes one call of Pack, and stands for its pack.  updated stands for     *)
(* modId # checkpointId of the idle condition.                             *)
(***************************************************************************)
EXTENDS Naturals, Sequences, FiniteSets, SequencesExt

CONSTANTS
    Callers,
    NoCaller,            \* packMutex is free
    Keys,
    MaxSequences,        \* bound: sequences created; a caller creates at most 2
    SequenceBufferSize,  \* capacity of the pack channel
    ResendQueueMax,      \* packs in the resend queue of a sequence
    WaitsForever,        \* TRUE: Pack is called with a negative timeout
    Stalls,              \* TRUE: a caller may stall as long as the idle timeout
                         \* between opening its update and sending on the channel
    CallerCancels        \* TRUE: the context of a pack may be done

ASSUME BufferBounds ==
    /\ NoCaller \notin Callers
    /\ MaxSequences \in Nat /\ SequenceBufferSize \in Nat \ {0} /\ ResendQueueMax \in Nat \ {0}
    /\ WaitsForever \in BOOLEAN /\ Stalls \in BOOLEAN /\ CallerCancels \in BOOLEAN

VARIABLES
    sendSequences,  \* the current sequence of each key, 0 for none
    closing,        \* the sequence whose cleanup holds the mutex, 0 for none
    associated,     \* sendSequencesByDestination
    seqs,           \* the sequences in order of creation
    caller,         \* [pc, key, seq, attempt, result] of each caller
    callbacks       \* AckCallback calls for the pack of each caller

vars == <<sendSequences, closing, associated, seqs, caller, callbacks>>

NewSendSequence(k) ==
    [key |-> k, run |-> "loop", cancelled |-> FALSE, idleClosed |-> FALSE,
     updated |-> FALSE, packMutex |-> NoCaller,
     packs |-> <<>>, resendQueue |-> {}]

Init ==
    /\ sendSequences = [k \in Keys |-> 0]
    /\ closing = 0 /\ associated = {} /\ seqs = <<>>
    /\ caller \in [Callers -> {[pc |-> "init", key |-> k, seq |-> 0, attempt |-> 1,
                               result |-> "none"] : k \in Keys}]
    /\ callbacks = [c \in Callers |-> 0]

CalledBack(cs) == callbacks' = [c \in Callers |-> callbacks[c] + IF c \in cs THEN 1 ELSE 0]

-----------------------------------------------------------------------------
(* Pack                                                                    *)

\* initSendSequence: the current sequence of the key, unless it is the one
\* that has just failed.  That one is cancelled and replaced.
InitSendSequence(c) ==
    LET k == caller[c].key
        current == sendSequences[k]
    IN  /\ caller[c].pc = "init"
        /\ closing = 0
        /\ IF current # 0 /\ current # caller[c].seq
           THEN /\ caller' = [caller EXCEPT ![c].pc = "lock", ![c].seq = current]
                /\ UNCHANGED <<sendSequences, seqs>>
           ELSE /\ Len(seqs) < MaxSequences
                /\ seqs' = Append(IF current = 0 THEN seqs
                                  ELSE [seqs EXCEPT ![current].cancelled = TRUE],
                                  NewSendSequence(k))
                /\ sendSequences' = [sendSequences EXCEPT ![k] = Len(seqs) + 1]
                /\ caller' = [caller EXCEPT ![c].pc = "lock", ![c].seq = Len(seqs) + 1]
        /\ UNCHANGED <<closing, associated, callbacks>>

Returned(c, result) == [caller[c] EXCEPT !.pc = "done", !.seq = 0, !.result = result]

\* Pack of the sequence returns an error: the buffer tries a second time.
AfterError(c) ==
    IF caller[c].attempt = 1
    THEN [caller[c] EXCEPT !.pc = "init", !.attempt = 2]
    ELSE Returned(c, "error")

\* UpdateOpen counts the update.
Opened(s) == [s EXCEPT !.updated = TRUE]

\* Pack takes packMutex and gives up on a sequence that is cancelled or idle.
LockPack(c) ==
    LET q == caller[c].seq
    IN  /\ caller[c].pc = "lock"
        /\ seqs[q].packMutex = NoCaller
        /\ IF seqs[q].cancelled \/ seqs[q].idleClosed
           THEN caller' = [caller EXCEPT ![c] = AfterError(c)] /\ UNCHANGED seqs
           ELSE /\ caller' = [caller EXCEPT ![c].pc = "select"]
                /\ seqs' = [seqs EXCEPT ![q] = [Opened(@) EXCEPT !.packMutex = c]]
        /\ UNCHANGED <<sendSequences, closing, associated, callbacks>>

\* The context of the pack is done before Pack does anything.
CallerIsDone(c) ==
    /\ CallerCancels
    /\ caller[c].pc = "lock"
    /\ seqs[caller[c].seq].packMutex = NoCaller
    /\ caller' = [caller EXCEPT ![c] = AfterError(c)]
    /\ UNCHANGED <<sendSequences, closing, associated, seqs, callbacks>>

\* Pack releases packMutex when it returns.
Released(s) == [s EXCEPT !.packMutex = NoCaller]

\* A pack that did not fit within the timeout is refused without error.
AfterTimeout(c) == Returned(c, "false")

\* The select of Pack: the channel has room, the sequence or the context of
\* the pack is done, or the timeout has passed.
Put(c) ==
    LET q == caller[c].seq
    IN  /\ caller[c].pc = "select"
        /\ Len(seqs[q].packs) < SequenceBufferSize
        /\ seqs' = [seqs EXCEPT ![q] = [Released(@) EXCEPT !.packs = Append(seqs[q].packs, c)]]
        /\ caller' = [caller EXCEPT ![c] = Returned(c, "true")]
        /\ UNCHANGED <<sendSequences, closing, associated, callbacks>>

PackDone(c) ==
    LET q == caller[c].seq
    IN  /\ caller[c].pc = "select"
        /\ seqs[q].cancelled \/ CallerCancels
        /\ seqs' = [seqs EXCEPT ![q] = Released(@)]
        /\ caller' = [caller EXCEPT ![c] = AfterError(c)]
        /\ UNCHANGED <<sendSequences, closing, associated, callbacks>>

PackTimeout(c) ==
    LET q == caller[c].seq
    IN  /\ ~WaitsForever
        /\ caller[c].pc = "select"
        /\ seqs' = [seqs EXCEPT ![q] = Released(@)]
        /\ caller' = [caller EXCEPT ![c] = AfterTimeout(c)]
        /\ UNCHANGED <<sendSequences, closing, associated, callbacks>>

-----------------------------------------------------------------------------
(* Run                                                                     *)

CanQueue(q) == Cardinality(seqs[q].resendQueue) < ResendQueueMax
Ready(q) == CanQueue(q) /\ seqs[q].packs # <<>>

\* Run waits with a checkpoint of the idle condition when nothing is ready.
RunWait(q) ==
    /\ seqs[q].run = "loop"
    /\ ~Ready(q) /\ ~seqs[q].cancelled
    /\ seqs' = [seqs EXCEPT ![q].run = "select", ![q].updated = FALSE]
    /\ UNCHANGED <<sendSequences, closing, associated, caller, callbacks>>

\* A pack is taken from the channel and sent; the sequence is associated with
\* its destination before it writes.
RunTake(q) ==
    /\ seqs[q].run \in {"loop", "select"}
    /\ Ready(q)
    /\ seqs' = [seqs EXCEPT ![q].run = "loop", ![q].packs = Tail(@),
                            ![q].resendQueue = @ \cup {Head(seqs[q].packs)}]
    /\ associated' = associated \cup {q}
    /\ UNCHANGED <<sendSequences, closing, caller, callbacks>>

\* Run returns with s the sequence at that moment: everything in the resend
\* queue is called back.
Return(q, s, alsoBack) ==
    /\ seqs' = [seqs EXCEPT ![q] = [s EXCEPT !.run = "returned", !.cancelled = TRUE,
                                             !.resendQueue = {}]]
    /\ CalledBack(s.resendQueue \cup alsoBack)
    /\ UNCHANGED <<sendSequences, closing, associated, caller>>

RunDone(q) ==
    /\ seqs[q].run \in {"loop", "select"}
    /\ seqs[q].cancelled
    /\ Return(q, seqs[q], {})

\* No contract for the pack that was taken.
RunNoContract(q) ==
    /\ seqs[q].run \in {"loop", "select"}
    /\ Ready(q)
    /\ Return(q, [seqs[q] EXCEPT !.packs = Tail(@)], {Head(seqs[q].packs)})

\* Fault: the ack timeout is looked at only when the channel has a pack.
RunAckTimeoutOnPack(q) ==
    /\ seqs[q].run \in {"loop", "select"}
    /\ seqs[q].resendQueue # {} /\ seqs[q].packs # <<>>
    /\ Return(q, seqs[q], {})

\* The first pack was not acked within AckTimeout.
RunAckTimeout(q) ==
    /\ seqs[q].run \in {"loop", "select"}
    /\ seqs[q].resendQueue # {}
    /\ Return(q, seqs[q], {})

\* A Pack call was open at the checkpoint.  With nothing to resend the channel
\* has room for its pack, which Run takes well before the timer unless the
\* caller stalls.
OpenAtCheckpoint(s) == ~s.updated /\ (s.packMutex # NoCaller \/ s.packs # <<>>)

\* The timer of the select fires: idle when there is nothing to resend.
RunTimer(q) ==
    /\ seqs[q].run = "select"
    /\ seqs[q].resendQueue = {} /\ OpenAtCheckpoint(seqs[q]) => Stalls
    /\ seqs' = [seqs EXCEPT ![q].run = IF seqs[q].resendQueue = {} THEN "timer" ELSE "loop"]
    /\ UNCHANGED <<sendSequences, closing, associated, caller, callbacks>>

\* IdleCondition.Close: no update is open, and none since the checkpoint.
ClosesIdle(s) == s.packMutex = NoCaller /\ ~s.updated

RunIdle(q) ==
    /\ seqs[q].run = "timer"
    /\ seqs[q].packMutex = NoCaller
    /\ IF ClosesIdle(seqs[q])
       THEN Return(q, [seqs[q] EXCEPT !.idleClosed = TRUE], {})
       ELSE /\ seqs' = [seqs EXCEPT ![q].run = "loop"]
            /\ UNCHANGED <<sendSequences, closing, associated, caller, callbacks>>

-----------------------------------------------------------------------------
(* Acks, cleanup, cancellation                                             *)

\* SendBuffer.Ack hands the ack of pack c of sequence q to one sequence of
\* the destination; another one ignores it.
Ack(q, c) ==
    /\ c \in seqs[q].resendQueue
    /\ q \in associated
    /\ seqs[q].run \in {"loop", "select"} /\ ~seqs[q].cancelled
    /\ seqs' = [seqs EXCEPT ![q].run = "loop", ![q].resendQueue = @ \ {c}]
    /\ CalledBack({c})
    /\ UNCHANGED <<sendSequences, closing, associated, caller>>

\* After Run has returned, its goroutine takes the mutex of the buffer and
\* closes the sequence, which waits for packMutex.
CleanupBegin(q) ==
    /\ seqs[q].run = "returned"
    /\ closing = 0
    /\ closing' = q
    /\ UNCHANGED <<sendSequences, associated, seqs, caller, callbacks>>

\* Fault: what is left in the channel is dropped.
DrainedNone(packs) == {}

\* Close calls back what is left in the channel.
Drained(packs) == ToSet(packs)

\* Fault: the key is removed although a newer sequence has it.
RemovedAlways(q) == [sendSequences EXCEPT ![seqs[q].key] = 0]

\* The key is removed unless a newer sequence has it.
Removed(q) == [k \in Keys |-> IF sendSequences[k] = q THEN 0 ELSE sendSequences[k]]

\* Close closes the channel under packMutex.
Closable(s) == s.packMutex = NoCaller

\* Close, and the sequence leaves the buffer.  A caller that still has it sees
\* that it is cancelled, and nothing else.
CleanupEnd(q) ==
    /\ closing = q /\ Closable(seqs[q])
    /\ seqs' = [seqs EXCEPT ![q] = [NewSendSequence(seqs[q].key) EXCEPT !.run = "gone",
                                                                       !.cancelled = TRUE]]
    /\ CalledBack(Drained(seqs[q].packs))
    /\ sendSequences' = Removed(q)
    /\ associated' = associated \ {q}
    /\ closing' = 0
    /\ UNCHANGED caller

\* Close, Cancel and Flush of the buffer cancel the current sequences.
Flush ==
    /\ closing = 0
    /\ \E k \in Keys : sendSequences[k] # 0 /\ ~seqs[sendSequences[k]].cancelled
    /\ seqs' = [q \in DOMAIN seqs |->
                   IF sendSequences[seqs[q].key] = q THEN [seqs[q] EXCEPT !.cancelled = TRUE]
                                                     ELSE seqs[q]]
    /\ UNCHANGED <<sendSequences, closing, associated, caller, callbacks>>

-----------------------------------------------------------------------------
CallerStep(c) ==
    \/ InitSendSequence(c) \/ LockPack(c) \/ CallerIsDone(c)
    \/ Put(c) \/ PackDone(c) \/ PackTimeout(c)

RunStep(q) ==
    \/ RunWait(q) \/ RunTake(q) \/ RunDone(q) \/ RunNoContract(q) \/ RunAckTimeout(q)
    \/ RunTimer(q) \/ RunIdle(q)

CleanupStep(q) == CleanupBegin(q) \/ CleanupEnd(q)

Next ==
    \/ \E c \in Callers : CallerStep(c)
    \/ \E q \in DOMAIN seqs :
          RunStep(q) \/ CleanupStep(q) \/ \E c \in Callers : Ack(q, c)
    \/ Flush

Spec == Init /\ [][Next]_vars

\* Goroutines that can run do run, the timers of Pack and of Run fire.  The
\* callers take a mutex finitely often, so nobody is overtaken forever.  Nothing
\* is assumed of acks, of Flush and of the contexts of packs.
Fairness ==
    /\ \A c \in Callers :
          WF_vars(InitSendSequence(c) \/ LockPack(c) \/ Put(c) \/ PackDone(c) \/ PackTimeout(c))
    /\ \A q \in 1 .. MaxSequences :
          /\ WF_vars(q \in DOMAIN seqs /\ (RunWait(q) \/ RunTake(q) \/ RunDone(q) \/ RunTimer(q)
                                             \/ RunIdle(q) \/ CleanupStep(q)))
          /\ WF_vars(q \in DOMAIN seqs /\ RunAckTimeout(q))

FairSpec == Spec /\ Fairness

-----------------------------------------------------------------------------
(* Properties                                                              *)

SequenceType ==
    [key : Keys, run : {"loop", "select", "timer", "returned", "gone"},
     cancelled : BOOLEAN, idleClosed : BOOLEAN, updated : BOOLEAN,
     packMutex : Callers \cup {NoCaller}, packs : Seq(Callers), resendQueue : SUBSET Callers]

\* The registry, the fields of SendSequence and the place of each Pack call
\* have the values the code gives them: Pack is tried at most twice.
TypeOK ==
    /\ sendSequences \in [Keys -> 0 .. Len(seqs)]
    /\ closing \in 0 .. Len(seqs) /\ associated \subseteq DOMAIN seqs
    /\ seqs \in Seq(SequenceType)
    /\ caller \in [Callers -> [pc : {"init", "lock", "select", "done"}, key : Keys,
                               seq : 0 .. Len(seqs), attempt : 1 .. 2,
                               result : {"none", "true", "false", "error"}]]
    /\ callbacks \in [Callers -> Nat]

\* A pack that Pack accepted is in the channel or in the resend queue of its
\* sequence until it is called back, exactly once; a pack that was refused is
\* never called back.
AcceptedIsKept ==
    \A c \in Callers :
        LET places == {q \in DOMAIN seqs : c \in ToSet(seqs[q].packs) \cup seqs[q].resendQueue}
        IN  Cardinality(places) + callbacks[c] = IF caller[c].result = "true" THEN 1 ELSE 0

\* A sequence that closes for being idle has nothing in its channel and nothing
\* enters it later.
IdleIsEmpty == \A q \in DOMAIN seqs : seqs[q].idleClosed => seqs[q].packs = <<>>

\* Pack does not send on the closed channel of a sequence (a panic in Go).
NoClosedSend ==
    \A c \in Callers : caller[c].pc = "select" => seqs[caller[c].seq].run # "gone"

\* A sequence that still runs is the current one of its key or cancelled, so
\* that Close, Cancel and Flush of the buffer stop every sequence.
RunningIsReachable ==
    \A q \in DOMAIN seqs :
        seqs[q].run \in {"loop", "select", "timer"} =>
            sendSequences[seqs[q].key] = q \/ seqs[q].cancelled

\* Nobody is left with a sequence that is over: an idle close loses no pack, no
\* Pack sends on a closed channel, and every sequence can be stopped.
SequenceLifetime == IdleIsEmpty /\ NoClosedSend /\ RunningIsReachable

\* The sequence a Pack call replaces is closed ("sequence closed", comment at
\* transfer.go 1120).
\* The code does not keep it: README, "Where code and comments part".
ReplacedWasClosed ==
    [][\A k \in Keys :
          LET q == sendSequences[k]
          IN  q # 0 /\ sendSequences'[k] \notin {0, q} =>
                 seqs[q].cancelled \/ seqs[q].idleClosed]_vars

\* When an ack finds a sequence that is not its own, its own "no longer exists"
\* (comment at transfer.go 1374): while a sequence waits for acks, no other
\* sequence gets the acks of its destination.
\* The code does not keep it: README, "Where code and comments part".
AckFindsItsSequence ==
    \A q \in DOMAIN seqs : seqs[q].resendQueue # {} => associated = {q}

\* Every call of Pack returns and every pack that was accepted is called back,
\* whatever the network does: again and again no call is under way and no
\* accepted pack waits for its callback.
PackIsAnswered ==
    []<>(\A c \in Callers :
            caller[c].pc = "done" /\ (caller[c].result = "true" => callbacks[c] = 1))
=============================================================================
