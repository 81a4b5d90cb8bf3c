----------------------------- MODULE ControlSync -----------------------------
(***************************************************************************)
(* ControlSync of transfer_control.go: control messages of one scope, of   *)
(* which the latest is sent again until the platform acks it.  Message i   *)
(* is the one of the i-th Send.  Each message may have several goroutines  *)
(* in controlSync: a failed ack starts a new one while the one that sent   *)
(* the frame still returns.  Frame 0 of a message is the one of Send, the  *)
(* next ones those of updateFrame; each has a pooled buffer of its own.    *)
(***************************************************************************)
EXTENDS Integers

CONSTANTS
    MaxSends,      \* bound: calls of Send
    MaxAckErrors,  \* bound: ack callbacks with an error
    MaxRetries,    \* bound: blocking sends that fail with their handle open
    MaxUpdates,    \* bound: new frames of updateFrame, per message
    CanClose       \* ControlSync.Close may be called

ASSUME BoundsAssumption ==
    /\ {MaxSends, MaxAckErrors, MaxRetries, MaxUpdates} \subseteq Nat
    /\ CanClose \in BOOLEAN

VARIABLES
    syncCount,  \* the index of the latest Send
    sendLock,   \* the message whose blocking send holds the lock, 0 if none
    cancelled,  \* messages whose handleCtx is cancelled
    watched,    \* messages whose watcher goroutine runs
    syncing,    \* per message: goroutines at the loop of controlSync
    failed,     \* per message: goroutines whose send failed
    returning,  \* per message: goroutines before the deferred log
    logged,     \* per message: goroutines before the deferred handleCancel
    inFlight,   \* per message: copies accepted by the client and not called back
    lastSent,   \* the last message the client accepted
    acked,      \* messages called back with success
    current,    \* per message: the frame that is sent next or was sent last
    gaveUp,     \* messages given up after a failed send
    returned,   \* per message and frame: how often the bytes were returned
    leaked,     \* per message and frame: shares made for a send that failed
    closed,     \* Close was called
    ackErrors, retries

places == <<syncing, failed, returning, logged, inFlight>>
pool == <<current, gaveUp, returned, leaked>>
counters == <<ackErrors, retries>>
vars == <<syncCount, sendLock, cancelled, watched, places, lastSent, acked, pool, closed,
          counters>>

Messages == 1 .. MaxSends
Frames == 0 .. MaxUpdates
Zero == [i \in Messages |-> 0]
ZeroEach == [i \in Messages |-> [v \in Frames |-> 0]]
Plus(f, i) == [f EXCEPT ![i] = @ + 1]
Minus(f, i) == [f EXCEPT ![i] = @ - 1]
PlusEach(f, i, v) == [f EXCEPT ![i][v] = @ + 1]

Init ==
    /\ syncCount = 0 /\ sendLock = 0 /\ cancelled = {} /\ watched = {}
    /\ syncing = Zero /\ failed = Zero /\ returning = Zero /\ logged = Zero /\ inFlight = Zero
    /\ lastSent = 0 /\ acked = {}
    /\ current = Zero /\ gaveUp = {} /\ returned = ZeroEach /\ leaked = ZeroEach
    /\ closed = FALSE /\ ackErrors = 0 /\ retries = 0

\* The handle context of i is cancelled, or its parent is.
Done(i) == i \in cancelled \/ closed

\* MessagePoolReturn of frame v of i, and a share of it that nobody returns:
\* the client owns the bytes of a frame only once it accepted it.
Return(i, v) == returned' = PlusEach(returned, i, v)
Leak(i, v) == leaked' = PlusEach(leaked, i, v)

-----------------------------------------------------------------------------
\* Send: the lock is held from the count to the end of the first attempt,
\* which does not block.  The client takes the frame or controlSync starts.
Send ==
    LET i == syncCount + 1
    IN  /\ sendLock = 0 /\ syncCount < MaxSends
        /\ syncCount' = i /\ watched' = watched \cup {i}
        /\ \/ /\ ~Done(i)
              /\ inFlight' = Plus(inFlight, i) /\ lastSent' = i
              /\ UNCHANGED <<syncing, leaked>>
           \/ /\ syncing' = Plus(syncing, i) /\ Leak(i, 0)
              /\ UNCHANGED <<inFlight, lastSent>>
        /\ UNCHANGED <<sendLock, cancelled, failed, returning, logged, acked, current, gaveUp,
                       returned, closed, counters>>

\* The watcher: a newer Send cancels the handle of i, as does Close.
Watch(i) ==
    /\ i \in watched
    /\ Done(i) \/ (sendLock = 0 /\ i # syncCount)
    /\ watched' = watched \ {i} /\ cancelled' = cancelled \cup {i}
    /\ UNCHANGED <<syncCount, sendLock, places, lastSent, acked, pool, closed, counters>>

\* Fault: a message is sent again although there is a newer one.
StopsUncounted(i) == Done(i)

\* Under the lock controlSync stops for a handle that is done or not the latest.
Stops(i) == Done(i) \/ i # syncCount

Stop(i) ==
    /\ syncing[i] > 0 /\ sendLock = 0 /\ Stops(i)
    /\ syncing' = Minus(syncing, i) /\ returning' = Plus(returning, i)
    /\ Return(i, current[i])
    /\ UNCHANGED <<syncCount, sendLock, cancelled, watched, failed, logged, inFlight, lastSent,
                   acked, current, gaveUp, leaked, closed, counters>>

\* Otherwise it sends, without a timeout, and keeps the lock meanwhile.
StartSend(i) ==
    /\ syncing[i] > 0 /\ sendLock = 0 /\ ~Stops(i)
    /\ syncing' = Minus(syncing, i) /\ sendLock' = i
    /\ UNCHANGED <<syncCount, cancelled, watched, failed, returning, logged, inFlight, lastSent,
                   acked, pool, closed, counters>>

ReturnsWhenSent(i) == returning' = Plus(returning, i) /\ UNCHANGED syncing

\* The client accepts the frame.
Sent(i) ==
    /\ sendLock = i
    /\ sendLock' = 0 /\ ReturnsWhenSent(i)
    /\ inFlight' = Plus(inFlight, i) /\ lastSent' = i
    /\ UNCHANGED <<syncCount, cancelled, watched, failed, logged, acked, pool, closed, counters>>

\* The send fails, and with the lock released the goroutine looks why.
SendFails(i) ==
    /\ sendLock = i
    /\ \/ Done(i) /\ UNCHANGED retries
       \/ ~Done(i) /\ retries < MaxRetries /\ retries' = retries + 1
    /\ sendLock' = 0 /\ failed' = Plus(failed, i) /\ Leak(i, current[i])
    /\ UNCHANGED <<syncCount, cancelled, watched, syncing, returning, logged, inFlight, lastSent,
                   acked, current, gaveUp, returned, closed, ackErrors>>

\* The handle or the client is done: the message is given up, and the bytes
\* of the frame of Send are returned, whichever frame the send was of.
GiveUp(i) ==
    /\ failed[i] > 0 /\ Done(i)
    /\ failed' = Minus(failed, i) /\ returning' = Plus(returning, i)
    /\ gaveUp' = gaveUp \cup {i} /\ Return(i, 0)
    /\ UNCHANGED <<syncCount, sendLock, cancelled, watched, syncing, logged, inFlight, lastSent,
                   acked, current, leaked, closed, counters>>

\* updateFrame, if there is one, has a new frame, which takes the place of
\* the frame: the bytes of that are returned.
Update(i) ==
    \/ UNCHANGED <<current, returned>>
    \/ /\ current[i] < MaxUpdates
       /\ current' = Plus(current, i) /\ Return(i, current[i])

\* Fault: the loop ends where it tries again.
GivesUp(i) ==
    /\ failed[i] > 0 /\ ~Done(i)
    /\ failed' = Minus(failed, i) /\ returning' = Plus(returning, i)
    /\ Return(i, current[i])
    /\ UNCHANGED <<syncCount, sendLock, cancelled, watched, syncing, logged, inFlight, lastSent,
                   acked, current, gaveUp, leaked, closed, counters>>

\* Otherwise it tries again.
TryAgain(i) ==
    /\ failed[i] > 0 /\ ~Done(i)
    /\ failed' = Minus(failed, i) /\ syncing' = Plus(syncing, i) /\ Update(i)
    /\ UNCHANGED <<syncCount, sendLock, cancelled, watched, returning, logged, inFlight, lastSent,
                   acked, gaveUp, leaked, closed, counters>>

\* The deferred log takes the lock, then the handle is cancelled.
Log(i) ==
    /\ returning[i] > 0 /\ sendLock = 0
    /\ returning' = Minus(returning, i) /\ logged' = Plus(logged, i)
    /\ UNCHANGED <<syncCount, sendLock, cancelled, watched, syncing, failed, inFlight, lastSent,
                   acked, pool, closed, counters>>

HandleCancel(i) ==
    /\ logged[i] > 0
    /\ logged' = Minus(logged, i) /\ cancelled' = cancelled \cup {i}
    /\ UNCHANGED <<syncCount, sendLock, watched, syncing, failed, returning, inFlight, lastSent,
                   acked, pool, closed, counters>>

\* The ack callback of the client.
Acked(i) ==
    /\ inFlight[i] > 0
    /\ inFlight' = Minus(inFlight, i)
    /\ acked' = acked \cup {i} /\ Return(i, current[i])
    /\ UNCHANGED <<syncCount, sendLock, cancelled, watched, syncing, failed, returning, logged,
                   lastSent, current, gaveUp, leaked, closed, counters>>

\* Fault: the bytes go back to the pool although they are sent again.
AckFailedReturned(i) == Return(i, current[i])

AckFailedKept(i) == UNCHANGED returned

\* The ack callback with an error: another goroutine sends the frame again.
AckFailed(i) ==
    /\ inFlight[i] > 0 /\ ackErrors < MaxAckErrors
    /\ ackErrors' = ackErrors + 1
    /\ inFlight' = Minus(inFlight, i) /\ syncing' = Plus(syncing, i)
    /\ AckFailedKept(i)
    /\ UNCHANGED <<syncCount, sendLock, cancelled, watched, failed, returning, logged, lastSent,
                   acked, current, gaveUp, leaked, closed, retries>>

Close ==
    /\ CanClose /\ ~closed
    /\ closed' = TRUE
    /\ UNCHANGED <<syncCount, sendLock, cancelled, watched, places, lastSent, acked, pool,
                   counters>>

Goroutine(i) ==
    \/ Watch(i) \/ Stop(i) \/ StartSend(i) \/ Sent(i) \/ SendFails(i) \/ GiveUp(i) \/ TryAgain(i)
    \/ Log(i) \/ HandleCancel(i)

Next ==
    \/ Send \/ Close
    \/ \E i \in Messages : Goroutine(i) \/ Acked(i) \/ AckFailed(i)

\* The goroutines go on, the lock is fair, the client takes a frame that is
\* offered for long enough and calls back every frame it took.
Fairness ==
    \A i \in Messages :
        /\ WF_vars(Sent(i)) /\ WF_vars(Acked(i) \/ AckFailed(i))
        /\ WF_vars(GiveUp(i) \/ TryAgain(i))
        /\ SF_vars(Stop(i) \/ StartSend(i)) /\ SF_vars(Log(i)) /\ WF_vars(HandleCancel(i))

Spec == Init /\ [][Next]_vars
FairSpec == Spec /\ Fairness

-----------------------------------------------------------------------------
(* Properties.                                                             *)

\* Counts of goroutines and frames stay between zero and what Send, failed
\* acks and retries can start: none ends twice.
TypeOK ==
    LET Counts == 0 .. MaxAckErrors + MaxRetries + 2
    IN  /\ {syncCount, sendLock, lastSent} \subseteq 0 .. MaxSends
        /\ UNION {cancelled, watched, acked, gaveUp} \subseteq Messages
        /\ {syncing, failed, returning, logged, inFlight} \subseteq [Messages -> Counts]
        /\ current \in [Messages -> Frames]
        /\ {returned, leaked} \subseteq [Messages -> [Frames -> Counts]]
        /\ closed \in BOOLEAN /\ ackErrors \in 0 .. MaxAckErrors /\ retries \in 0 .. MaxRetries

\* "Control messages are sent in order": the client is never given a message
\* older than one it was given, whatever retries wait for the lock.
SentInOrder == [][lastSent' >= lastSent]_vars

Busy(i) == syncing[i] > 0 \/ failed[i] > 0 \/ inFlight[i] > 0 \/ sendLock = i
InUse(i, v) == v = current[i] /\ Busy(i)

\* Given up after a failed send of a frame of updateFrame: the code returns
\* the bytes of the first frame, a second time, for those of the last.
\* README, "Where code and comments part".
FirstForLast(i) == i \in gaveUp /\ current[i] > 0

\* The bytes of each frame are returned once, and not before nothing sends
\* them again: when it is acked, superseded, replaced, given up or closed,
\* FirstForLast apart.  Never does the pool get back more than it gave: the
\* second return takes the place of a share that a failed send left.
ReturnedOnce ==
    \A i \in 1 .. syncCount : \A v \in 0 .. current[i] :
        /\ InUse(i, v) => returned[i][v] = 0
        /\ ~InUse(i, v) => \/ returned[i][v] = 1
                           \/ FirstForLast(i) /\ v = 0 /\ returned[i][v] = 2
                           \/ FirstForLast(i) /\ v = current[i] /\ returned[i][v] = 0
        /\ returned[i][v] <= 1 + leaked[i][v]

\* The latest message is acked, unless a newer one, Close or a failed ack ends
\* it: failed sends, retries that wait for the lock and goroutines of older
\* messages do not.
AckedUnlessAckFails ==
    \A i \in Messages :
        syncCount = i ~> (i \in acked \/ syncCount # i \/ closed \/ ackErrors > 0)

\* "Keep retrying on error until the handle context or client is closed": the
\* latest message is acked, unless a newer one or Close ends it.
\* The code does not keep it: README, "Where code and comments part".
LatestIsAcked ==
    \A i \in Messages : syncCount = i ~> (i \in acked \/ syncCount # i \/ closed)
=============================================================================
