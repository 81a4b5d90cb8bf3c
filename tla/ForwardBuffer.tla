--------------------------- MODULE ForwardBuffer ---------------------------
(***************************************************************************)
(* ForwardBuffer and its ForwardSequences (transfer.go) over the message   *)
(* pool: callers of Forward take a buffer, hand it to the sequence of a    *)
(* destination, whose goroutine writes it to a route, from where a         *)
(* transport takes it.                                                     *)
(*                                                                         *)
(* As in SendBuffer every critical section is one step, except that Pack   *)
(* waits for the channel holding packMutex and the cleanup waits for       *)
(* packMutex holding the mutex of the buffer.  There is one destination.   *)
(* A caller forwards one frame, with a context that is never done (the     *)
(* default).  It is not part of the repository: it owns the buffer until   *)
(* Forward accepts it, and gives it back otherwise, which is what the      *)
(* rules at the top of message_pool.go ask for.                            *)
(***************************************************************************)
EXTENDS MessagePool

LOCAL INSTANCE SequencesExt
LOCAL INSTANCE FiniteSetsExt

CONSTANTS
    Callers,
    NoCaller,            \* packMutex is free
    NoBuffer,            \* nothing is held
    MaxSequences,        \* bound: sequences created; a caller creates at most 2
    SequenceBufferSize,  \* capacity of the pack channel
    RouteSize            \* capacity of the route

ASSUME ForwardBounds ==
    /\ NoCaller \notin Callers /\ NoBuffer \notin Buffers
    /\ MaxSequences \in Nat
    /\ SequenceBufferSize \in Nat \ {0} /\ RouteSize \in Nat \ {0}

VARIABLES
    current,    \* forwardSequences of the destination, 0 for none
    closing,    \* the sequence whose cleanup holds the mutex, 0 for none
    seqs,       \* the sequences in order of creation
    caller,     \* [pc, seq, attempt, buffer, accepted] of each caller
    route,      \* the buffers in the route
    dropped     \* the buffers of which the code has dropped a reference

forwardVars == <<current, closing, seqs, caller, route, dropped>>
vars == <<poolVars, forwardVars>>

NewForwardSequence ==
    [run |-> "loop", cancelled |-> FALSE, idleClosed |-> FALSE, updated |-> FALSE,
     packMutex |-> NoCaller, packs |-> <<>>, writes |-> NoBuffer]

Init ==
    /\ PoolInit
    /\ current = 0 /\ closing = 0 /\ seqs = <<>>
    /\ caller = [c \in Callers |-> [pc |-> "get", seq |-> 0, attempt |-> 1,
                                    buffer |-> NoBuffer, accepted |-> FALSE]]
    /\ route = <<>> /\ dropped = {}

-----------------------------------------------------------------------------
(* Callers                                                                 *)

GetBuffer(c) ==
    /\ caller[c].pc = "get"
    /\ \E b \in Buffers :
          /\ Get(b)
          /\ caller' = [caller EXCEPT ![c].pc = "take", ![c].buffer = b]
    /\ UNCHANGED <<current, closing, seqs, route, dropped>>

\* The buffer is filled with a frame that Forward can route, or with one whose
\* path it cannot parse, which it refuses.
TakeBuffer(c) ==
    /\ caller[c].pc = "take"
    /\ Taken(caller[c].buffer)
    /\ \E pc \in {"init", "failed"} : caller' = [caller EXCEPT ![c].pc = pc]
    /\ UNCHANGED <<current, closing, seqs, route, dropped>>

\* A caller whose frame was not accepted gives the buffer back.
GiveBack(c) ==
    /\ caller[c].pc = "failed"
    /\ Return(caller[c].buffer)
    /\ caller' = [caller EXCEPT ![c].pc = "done", ![c].buffer = NoBuffer]
    /\ UNCHANGED <<current, closing, seqs, route, dropped>>

\* initForwardSequence: the current sequence, unless it is the one that has
\* just failed.  That one is cancelled and replaced.
InitForwardSequence(c) ==
    /\ caller[c].pc = "init"
    /\ closing = 0
    /\ IF current # 0 /\ current # caller[c].seq
       THEN /\ caller' = [caller EXCEPT ![c].pc = "lock", ![c].seq = current]
            /\ UNCHANGED <<current, seqs>>
       ELSE /\ Len(seqs) < MaxSequences
            /\ seqs' = Append(IF current = 0 THEN seqs
                              ELSE [seqs EXCEPT ![current].cancelled = TRUE],
                              NewForwardSequence)
            /\ current' = Len(seqs) + 1
            /\ caller' = [caller EXCEPT ![c].pc = "lock", ![c].seq = Len(seqs) + 1]
    /\ UNCHANGED <<poolVars, closing, route, dropped>>

Failed(c) == [caller[c] EXCEPT !.pc = "failed", !.seq = 0]

\* Pack of the sequence returns an error: the buffer tries a second time.
AfterError(c) ==
    IF caller[c].attempt = 1 THEN [caller[c] EXCEPT !.pc = "init", !.attempt = 2]
                             ELSE Failed(c)

\* Pack takes packMutex and gives up on a sequence that is cancelled or idle.
LockPack(c) ==
    LET q == caller[c].seq
    IN  /\ caller[c].pc = "lock"
        /\ seqs[q].packMutex = NoCaller
        /\ IF seqs[q].cancelled \/ seqs[q].idleClosed
           THEN caller' = [caller EXCEPT ![c] = AfterError(c)] /\ UNCHANGED seqs
           ELSE /\ caller' = [caller EXCEPT ![c].pc = "select"]
                /\ seqs' = [seqs EXCEPT ![q].packMutex = c, ![q].updated = TRUE]
        /\ UNCHANGED <<poolVars, current, closing, route, dropped>>

\* The select of Pack: the channel has room, the sequence is done, or the
\* timeout has passed.
PutPack(c) ==
    LET q == caller[c].seq
    IN  /\ caller[c].pc = "select"
        /\ Len(seqs[q].packs) < SequenceBufferSize
        /\ seqs' = [seqs EXCEPT ![q].packMutex = NoCaller,
                                ![q].packs = Append(@, caller[c].buffer)]
        /\ caller' = [caller EXCEPT ![c].pc = "done", ![c].seq = 0,
                                    ![c].buffer = NoBuffer, ![c].accepted = TRUE]
        /\ UNCHANGED <<poolVars, current, closing, route, dropped>>

PackDone(c) ==
    LET q == caller[c].seq
    IN  /\ caller[c].pc = "select"
        /\ seqs[q].cancelled
        /\ seqs' = [seqs EXCEPT ![q].packMutex = NoCaller]
        /\ caller' = [caller EXCEPT ![c] = AfterError(c)]
        /\ UNCHANGED <<poolVars, current, closing, route, dropped>>

PackTimeout(c) ==
    LET q == caller[c].seq
    IN  /\ caller[c].pc = "select"
        /\ seqs' = [seqs EXCEPT ![q].packMutex = NoCaller]
        /\ caller' = [caller EXCEPT ![c] = Failed(c)]
        /\ UNCHANGED <<poolVars, current, closing, route, dropped>>

CallerStep(c) ==
    \/ GetBuffer(c) \/ TakeBuffer(c) \/ GiveBack(c)
    \/ InitForwardSequence(c) \/ LockPack(c)
    \/ PutPack(c) \/ PackDone(c) \/ PackTimeout(c)

-----------------------------------------------------------------------------
(* Run                                                                     *)

RunCheckpoint(q) ==
    /\ seqs[q].run = "loop"
    /\ seqs' = [seqs EXCEPT ![q].run = "select", ![q].updated = FALSE]
    /\ UNCHANGED <<poolVars, current, closing, caller, route, dropped>>

\* A pack is taken and shared with the write.
RunTake(q) ==
    /\ seqs[q].run = "select"
    /\ seqs[q].packs # <<>>
    /\ seqs' = [seqs EXCEPT ![q].run = "writing", ![q].packs = Tail(@),
                            ![q].writes = Head(seqs[q].packs)]
    /\ ShareReadOnly(Head(seqs[q].packs))
    /\ UNCHANGED <<current, closing, caller, route, dropped>>

\* The route takes the reference it was given.
RunWrites(q) ==
    /\ seqs[q].run = "writing"
    /\ Len(route) < RouteSize
    /\ route' = Append(route, seqs[q].writes)
    /\ seqs' = [seqs EXCEPT ![q].run = "wrote"]
    /\ UNCHANGED <<poolVars, current, closing, caller, dropped>>

\* The write times out or the sequence is done: nobody gives back the
\* reference of the write (the returns are commented out in WriteDetailed).
RunWriteFails(q) ==
    /\ seqs[q].run = "writing"
    /\ seqs' = [seqs EXCEPT ![q].run = "wrote"]
    /\ dropped' = dropped \cup {seqs[q].writes}
    /\ UNCHANGED <<poolVars, current, closing, caller, route>>

\* The deferred return.
RunReturns(q) ==
    /\ seqs[q].run = "wrote"
    /\ Return(seqs[q].writes)
    /\ seqs' = [seqs EXCEPT ![q].run = "loop", ![q].writes = NoBuffer]
    /\ UNCHANGED <<current, closing, caller, route, dropped>>

RunDone(q) ==
    /\ seqs[q].run = "select"
    /\ seqs[q].cancelled
    /\ seqs' = [seqs EXCEPT ![q].run = "returned"]
    /\ UNCHANGED <<poolVars, current, closing, caller, route, dropped>>

\* The timer of the select.  A Pack call that was open at the checkpoint has
\* room in the channel, so its pack is taken well before the timer fires.
RunTimer(q) ==
    /\ seqs[q].run = "select"
    /\ seqs[q].updated \/ (seqs[q].packMutex = NoCaller /\ seqs[q].packs = <<>>)
    /\ seqs' = [seqs EXCEPT ![q].run = "timer"]
    /\ UNCHANGED <<poolVars, current, closing, caller, route, dropped>>

\* IdleCondition.Close with packMutex held, so that no update is open.
ClosesIdle(s) == ~s.updated

RunIdle(q) ==
    /\ seqs[q].run = "timer"
    /\ seqs[q].packMutex = NoCaller
    /\ seqs' = [seqs EXCEPT ![q] =
                   IF ClosesIdle(@)
                   THEN [@ EXCEPT !.run = "returned", !.cancelled = TRUE, !.idleClosed = TRUE]
                   ELSE [@ EXCEPT !.run = "loop"]]
    /\ UNCHANGED <<poolVars, current, closing, caller, route, dropped>>

RunStep(q) ==
    \/ RunCheckpoint(q) \/ RunTake(q) \/ RunWrites(q) \/ RunWriteFails(q) \/ RunReturns(q)
    \/ RunDone(q) \/ RunTimer(q) \/ RunIdle(q)

-----------------------------------------------------------------------------
(* Cleanup, cancellation, the transport                                    *)

\* After Run has returned, its goroutine takes the mutex of the buffer and
\* closes the sequence, which waits for packMutex.
CleanupBegin(q) ==
    /\ seqs[q].run = "returned"
    /\ closing = 0
    /\ closing' = q
    /\ UNCHANGED <<poolVars, current, seqs, caller, route, dropped>>

\* The destination is removed unless a newer sequence has it.
Removed(q) == IF current = q THEN 0 ELSE current

\* Fault: the channel is closed without packMutex.
ClosableAtOnce(s) == TRUE

\* Close closes the channel under packMutex.
Closable(s) == s.packMutex = NoCaller

\* Close, and the sequence leaves the buffer.  What is left in the channel is
\* dropped.
CleanupEnd(q) ==
    /\ closing = q /\ Closable(seqs[q])
    /\ dropped' = dropped \cup ToSet(seqs[q].packs)
    /\ seqs' = [seqs EXCEPT ![q] = [NewForwardSequence EXCEPT !.run = "gone",
                                                              !.cancelled = TRUE]]
    /\ current' = Removed(q)
    /\ closing' = 0
    /\ UNCHANGED <<poolVars, caller, route>>

\* Close, Cancel and Flush of the buffer cancel the current sequence, as does
\* the end of the client.
Flush ==
    /\ closing = 0
    /\ current # 0 /\ ~seqs[current].cancelled
    /\ seqs' = [seqs EXCEPT ![current].cancelled = TRUE]
    /\ UNCHANGED <<poolVars, current, closing, caller, route, dropped>>

\* Fault: the transport keeps the message it wrote.
TransportKeeps ==
    /\ route # <<>>
    /\ route' = Tail(route)
    /\ UNCHANGED <<poolVars, current, closing, seqs, caller, dropped>>

\* The transport writes the first message of the route and returns it.
TransportTakes ==
    /\ route # <<>>
    /\ route' = Tail(route)
    /\ Return(Head(route))
    /\ UNCHANGED <<current, closing, seqs, caller, dropped>>

-----------------------------------------------------------------------------
Next ==
    \/ \E c \in Callers : CallerStep(c)
    \/ \E q \in DOMAIN seqs : RunStep(q) \/ CleanupBegin(q) \/ CleanupEnd(q)
    \/ Flush \/ TransportTakes
    \/ PoolStep /\ UNCHANGED forwardVars

Spec == Init /\ [][Next]_vars

-----------------------------------------------------------------------------
(* Properties                                                              *)

ForwardSequenceType ==
    [run : {"loop", "select", "writing", "wrote", "timer", "returned", "gone"},
     cancelled : BOOLEAN, idleClosed : BOOLEAN, updated : BOOLEAN,
     packMutex : Callers \cup {NoCaller}, packs : Seq(Buffers),
     writes : Buffers \cup {NoBuffer}]

\* The pool, the registry and the goroutines have the values the code gives
\* them: the pool never holds more than its capacity.
TypeOK ==
    /\ PoolTypeOK
    /\ current \in 0 .. Len(seqs) /\ closing \in 0 .. Len(seqs)
    /\ seqs \in Seq(ForwardSequenceType)
    /\ caller \in [Callers -> [pc : {"get", "take", "failed", "init", "lock",
                                     "select", "done"},
                               seq : 0 .. Len(seqs), attempt : 1 .. 2,
                               buffer : Buffers \cup {NoBuffer}, accepted : BOOLEAN]]
    /\ route \in Seq(Buffers) /\ Len(route) <= RouteSize
    /\ dropped \subseteq Buffers

\* The references to b: a caller that has taken it, a pack in a channel, a
\* goroutine that writes it (its own and the one of the write), the route, and
\* a last return that is under way.
Occurrences(s, b) == Cardinality({i \in DOMAIN s : s[i] = b})
References(b) ==
    Cardinality({c \in Callers : caller[c].buffer = b /\ caller[c].pc # "take"})
    + MapThenSumSet(LAMBDA q : Occurrences(seqs[q].packs, b)
                               + (IF seqs[q].writes # b THEN 0
                                  ELSE IF seqs[q].run = "writing" THEN 2 ELSE 1),
                    DOMAIN seqs)
    + Occurrences(route, b) + returning[b]

\* The count of a buffer is the number of its references, so a buffer is put
\* back when the last one is returned and not before.  The code leaves a count
\* too high, and the buffer to the garbage collector, only where a write fails
\* and where a cancelled sequence drops its packs.
CountsReferences ==
    \A b \in Buffers :
        /\ References(b) <= count[b]
        /\ b \notin dropped => count[b] = References(b)

\* A buffer in the pool is there once and nobody has a reference to it or is
\* taking it: MessagePoolGet never finds it "already taken" (message_pool.go
\* 363).
PooledIsUnheld ==
    \A i \in DOMAIN pool :
        /\ \A j \in DOMAIN pool : pool[i] = pool[j] => i = j
        /\ ~AlreadyTaken(pool[i]) /\ References(pool[i]) = 0
        /\ \A c \in Callers : caller[c].buffer # pool[i]

\* Nobody is left with a sequence that is over.  A sequence that closes for
\* being idle drops nothing, now or later; Pack does not send on the closed
\* channel of a sequence (a panic in Go); and one that still runs is the current
\* one or cancelled, so that Close and Flush stop every sequence.
SequenceLifetime ==
    /\ \A q \in DOMAIN seqs : seqs[q].idleClosed => seqs[q].packs = <<>>
    /\ \A c \in Callers : caller[c].pc = "select" => seqs[caller[c].seq].run # "gone"
    /\ \A q \in DOMAIN seqs :
          seqs[q].run \notin {"returned", "gone"} => current = q \/ seqs[q].cancelled
=============================================================================
