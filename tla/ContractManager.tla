--------------------------- MODULE ContractManager ---------------------------
(***************************************************************************)
(* The contract queues of transfer_contract_manager.go, for one contract   *)
(* key.  Send sequences take contracts out of the queue of their key and   *)
(* ask the platform for more; the replies are added to the queue by        *)
(* callbacks; a send sequence that exits flushes the queue and removes it. *)
(* Several send sequences share a key when one replaces another, and when  *)
(* LegacyCreateContract (the default) drops all but the destination.       *)
(*                                                                         *)
(* A queue is opened and closed by key: the count it keeps is right only   *)
(* if both find the same queue.  Each section under a mutex is a step; two *)
(* sections are one step where only the closing of the queue follows.      *)
(* The bytes of a contract are in TransferContract.                        *)
(***************************************************************************)
EXTENDS Integers, FiniteSets, FiniteSetsExt

CONSTANTS
    Senders,             \* send sequences with this contract key
    Contracts,           \* contract ids the platform can hand out
    Requests,            \* CreateContract messages that can be under way
    Settings             \* the settings and environments considered, each with
                         \*   track: TrackUsedContracts (FALSE by default)
                         \*   reoffers: the platform may offer an open contract again
                         \*   exits: send sequences may exit and flush the queue
                         \*   requests: the Requests that are sent

ASSUME ConstantsAssumption ==
    /\ IsFiniteSet(Senders) /\ IsFiniteSet(Contracts) /\ IsFiniteSet(Requests)
    /\ 0 \notin Contracts
    /\ Settings \subseteq [track : BOOLEAN, reoffers : BOOLEAN, exits : BOOLEAN,
                           requests : SUBSET Requests]

VARIABLES
    setting,   \* the one of Settings this behaviour has
    queues,    \* the contractQueue objects
    current,   \* destinationContracts[key], 0 if there is none
    sender,    \* per send sequence: its place, the queue and contract it holds
    request,   \* per CreateContract: its place, the used ids sent, the reply
    closing,   \* CloseContract messages and their callbacks
    platform,  \* what the platform knows of each contract
    openStats, \* localStats.ContractOpenByteCounts
    closed     \* contracts CloseContract was called for

vars == <<setting, queues, current, sender, request, closing, platform, openStats, closed>>

\* Enough queue objects for every actor to hold one of its own.
QueueIds == 1 .. (Cardinality(Senders) + Cardinality(Requests) + Cardinality(Contracts) + 1)

NewQueue == [openCount |-> 0, contracts |-> {}, used |-> {}]

Init ==
    /\ setting \in Settings
    /\ queues = [q \in QueueIds |-> NewQueue] /\ current = 0
    /\ sender = [s \in Senders |-> [pc |-> "take", q |-> 0, contract |-> 0]]
    /\ request = [r \in Requests |-> [pc |-> "free", used |-> {}, contract |-> 0, q |-> 0]]
    /\ closing = {} /\ platform = [c \in Contracts |-> "none"]
    /\ openStats = {} /\ closed = {}

-----------------------------------------------------------------------------
(* Queues by key: openContractQueue and closeContractQueueWithForceRemove. *)

\* How often each actor has the queue q open.
Openers(q) ==
    {<<"sender", s>> : s \in {t \in Senders : sender[t].q = q}}
        \cup {<<"request", r>> : r \in {t \in Requests : request[t].q = q}}
        \cup {<<"closing", c>> : c \in {t \in closing : t.q = q}}

\* A queue nobody refers to is collected: its id stands for a new queue.
FreeQueue == Min({q \in QueueIds : q # current /\ Openers(q) = {}})

\* The queue openContractQueue returns, and its effect.
OpenedQueue == IF current = 0 THEN FreeQueue ELSE current
OpensQueue ==
    /\ current' = OpenedQueue
    /\ queues' = [queues EXCEPT ![OpenedQueue] =
                     LET q == IF current = 0 THEN NewQueue ELSE @
                     IN  [q EXCEPT !.openCount = @ + 1]]

\* Fault: done although it is open.
IsDoneUncounted(q) == q.contracts = {} /\ q.used = {}

IsDone(q) == q.openCount <= 0 /\ q.contracts = {} /\ q.used = {}

\* The close by key, on the queues qs: it closes the queue registered now.
ClosesQueue(qs, forceRemove) ==
    LET closes == [qs EXCEPT ![current].openCount = @ - 1]
    IN  IF current = 0
        THEN queues' = qs /\ current' = 0
        ELSE /\ queues' = closes
             /\ current' = IF IsDone(closes[current]) \/ forceRemove THEN 0 ELSE current

-----------------------------------------------------------------------------
(* contractQueue.                                                          *)

Polled(q, c) == [q EXCEPT !.contracts = @ \ {c}]

\* Fault: the contract is not remembered as used.
AddedUntracked(q, c) == [q EXCEPT !.contracts = @ \cup {c}]

\* Add drops a contract that was used, and puts back one that is queued.
Added(q, c) ==
    IF c \in q.contracts \/ c \notin q.used
    THEN [q EXCEPT !.contracts = @ \cup {c},
                   !.used = IF setting.track THEN @ \cup {c} ELSE @]
    ELSE q

RemovedUsed(q, c) == [q EXCEPT !.used = @ \ {c}]

\* Flush, with removeUsedContractIds when a send sequence exits.
Flushed(q, removeUsed) ==
    [q EXCEPT !.contracts = {}, !.used = IF removeUsed THEN {} ELSE @]

-----------------------------------------------------------------------------
(* CloseContractWithCheckpoint, for each contract of cs: the local stats,  *)
(* and the message to the platform.                                        *)

ClosesContracts(cs) ==
    /\ openStats' = openStats \ cs
    /\ closed' = closed \cup cs
    /\ closing' = closing \cup
          {[contract |-> c, opened |-> c \in openStats, q |-> 0] : c \in cs}

ClosesNothing == UNCHANGED <<openStats, closed, closing>>

\* The platform has the message and the callback opens the queue: it does so
\* for a contract opened by this manager.
CloseAnswered(m) ==
    /\ m.q = 0
    /\ platform' = [platform EXCEPT ![m.contract] = "closed"]
    /\ IF m.opened
       THEN /\ closing' = (closing \ {m}) \cup {[m EXCEPT !.q = OpenedQueue]}
            /\ OpensQueue
       ELSE /\ closing' = closing \ {m}
            /\ UNCHANGED <<queues, current>>
    /\ UNCHANGED <<sender, request, openStats, closed>>

\* The callback removes the contract from the used ones and closes the queue.
CloseCallback(m) ==
    /\ m.q # 0
    /\ closing' = closing \ {m}
    /\ ClosesQueue([queues EXCEPT ![m.q] = RemovedUsed(@, m.contract)], FALSE)
    /\ UNCHANGED <<sender, request, platform, openStats, closed>>

\* The message is lost, the contract stays open on the platform.
CloseFails(m) ==
    /\ m.q = 0
    /\ closing' = closing \ {m}
    /\ UNCHANGED <<queues, current, sender, request, platform, openStats, closed>>

-----------------------------------------------------------------------------
(* A send sequence: updateContract takes a contract, with retries, and     *)
(* after each try asks for the next one.                                   *)

SenderAt(s, pc, q, c) == sender' = [sender EXCEPT ![s] = [pc |-> pc, q |-> q, contract |-> c]]

\* The contracts of a send sequence, openSendContracts.
Held(s) == {sender[s].contract} \ {0}

TakeContract(s) ==
    /\ sender[s].pc = "take"
    /\ SenderAt(s, "poll", OpenedQueue, 0)
    /\ OpensQueue
    /\ ClosesNothing /\ UNCHANGED <<request, platform>>

\* The queue polled is the one opened, registered or not; a contract that is
\* there is taken, otherwise the wait ends with the timeout or the context.
Poll(s) ==
    LET q == sender[s].q
    IN  /\ sender[s].pc = "poll"
        /\ \/ \E c \in queues[q].contracts :
                 /\ queues' = [queues EXCEPT ![q] = Polled(@, c)]
                 /\ SenderAt(s, "endTake", q, c)
           \/ /\ queues[q].contracts = {} /\ UNCHANGED queues
              /\ SenderAt(s, "endTake", q, 0)
        /\ ClosesNothing /\ UNCHANGED <<current, request, platform>>

\* The deferred close; a contract too small for the message is closed unused.
EndTake(s) ==
    LET c == sender[s].contract
    IN  /\ sender[s].pc = "endTake"
        /\ ClosesQueue(queues, FALSE)
        /\ \/ SenderAt(s, "create", 0, c) /\ ClosesNothing
           \/ /\ c # 0
              /\ SenderAt(s, "create", 0, 0) /\ ClosesContracts({c})
        /\ UNCHANGED <<request, platform>>

CreateContract(s) ==
    /\ sender[s].pc = "create"
    /\ SenderAt(s, "send", OpenedQueue, sender[s].contract)
    /\ OpensQueue
    /\ ClosesNothing /\ UNCHANGED <<request, platform>>

\* The message is sent with the used ids, or fails, and the queue is closed.
SendCreate(s) ==
    LET q == sender[s].q
        c == sender[s].contract
    IN  /\ sender[s].pc = "send"
        /\ SenderAt(s, IF c = 0 THEN "take" ELSE "use", 0, c)
        /\ ClosesQueue(queues, FALSE)
        /\ \/ \E r \in setting.requests :
                 /\ request[r].pc = "free"
                 /\ request' = [request EXCEPT ![r] =
                       [pc |-> "sent", used |-> queues[q].used, contract |-> 0, q |-> 0]]
           \/ UNCHANGED request
        /\ ClosesNothing /\ UNCHANGED platform

\* The contract is used up and acked, and the next one is taken.
Replace(s) ==
    /\ sender[s].pc = "use"
    /\ SenderAt(s, "take", 0, 0)
    /\ ClosesContracts(Held(s))
    /\ UNCHANGED <<queues, current, request, platform>>

\* Run returns: it closes its contracts, then flushes the queue of its key.
Exit(s) ==
    /\ setting.exits
    /\ sender[s].pc \in {"take", "use"} \/ (sender[s].pc = "create" /\ sender[s].contract = 0)
    /\ SenderAt(s, "flush", OpenedQueue, 0)
    /\ OpensQueue
    /\ ClosesContracts(Held(s))
    /\ UNCHANGED <<request, platform>>

\* FlushContractQueue empties the queue it opened and closes what it held.
FlushContractQueue(s) ==
    LET q == sender[s].q
    IN  /\ sender[s].pc = "flush"
        /\ SenderAt(s, "remove", q, 0)
        /\ queues' = [queues EXCEPT ![q] = Flushed(@, TRUE)]
        /\ ClosesContracts(queues[q].contracts)
        /\ UNCHANGED <<current, request, platform>>

RemoveContractQueue(s) ==
    /\ sender[s].pc = "remove"
    /\ SenderAt(s, "gone", 0, 0)
    /\ ClosesQueue(queues, TRUE)
    /\ ClosesNothing /\ UNCHANGED <<request, platform>>

\* Client.Flush: the queues are emptied, the used ids are kept.
Flush ==
    /\ current # 0 /\ queues[current].contracts # {}
    /\ queues' = [queues EXCEPT ![current] = Flushed(@, FALSE)]
    /\ ClosesContracts(queues[current].contracts)
    /\ UNCHANGED <<current, sender, request, platform>>

-----------------------------------------------------------------------------
(* The reply to CreateContract, and addContract.                           *)

\* The platform opens a contract, or offers one that is open and not among
\* the used ids of the request.
Offered(r) ==
    {c \in Contracts : \/ platform[c] = "none"
                       \/ setting.reoffers /\ platform[c] = "open" /\ c \notin request[r].used}

Answer(r) ==
    \E c \in Offered(r) :
        /\ request[r].pc = "sent"
        /\ platform' = [platform EXCEPT ![c] = "open"]
        /\ request' = [request EXCEPT ![r] = [@ EXCEPT !.pc = "answered", !.contract = c]]
        /\ ClosesNothing /\ UNCHANGED <<queues, current, sender>>

\* The request or the reply is lost, or the reply is a contract error.
AnswerFails(r) ==
    /\ request[r].pc \in {"sent", "answered"}
    /\ request' = [request EXCEPT ![r] = [pc |-> "free", used |-> {}, contract |-> 0, q |-> 0]]
    /\ ClosesNothing /\ UNCHANGED <<queues, current, sender, platform>>

AddContract(r) ==
    /\ request[r].pc = "answered"
    /\ request' = [request EXCEPT ![r] = [@ EXCEPT !.pc = "add", !.q = OpenedQueue]]
    /\ OpensQueue
    /\ ClosesNothing /\ UNCHANGED <<sender, platform>>

Add(r) ==
    LET q == request[r].q
    IN  /\ request[r].pc = "add"
        /\ request' = [request EXCEPT ![r] = [@ EXCEPT !.pc = "added", !.q = 0]]
        /\ ClosesQueue([queues EXCEPT ![q] = Added(@, request[r].contract)], FALSE)
        /\ ClosesNothing /\ UNCHANGED <<sender, platform>>

\* The local stats are updated after the contract can be taken.
AddStats(r) ==
    /\ request[r].pc = "added"
    /\ openStats' = openStats \cup {request[r].contract}
    /\ request' = [request EXCEPT ![r] = [pc |-> "free", used |-> {}, contract |-> 0, q |-> 0]]
    /\ UNCHANGED <<queues, current, sender, platform, closing, closed>>

Next ==
    \/ \E s \in Senders :
          \/ TakeContract(s) \/ Poll(s) \/ EndTake(s) \/ CreateContract(s) \/ SendCreate(s)
          \/ Replace(s) \/ Exit(s) \/ FlushContractQueue(s) \/ RemoveContractQueue(s)
    \/ \E r \in Requests :
          Answer(r) \/ AnswerFails(r) \/ AddContract(r) \/ Add(r) \/ AddStats(r)
    \/ \E m \in closing : CloseAnswered(m) \/ CloseCallback(m) \/ CloseFails(m)
    \/ Flush

Spec == Init /\ [][Next /\ UNCHANGED setting]_vars

-----------------------------------------------------------------------------
(* Properties.                                                             *)

\* The queues, the places of send sequences, requests and closes have the
\* values the code gives them: what is held or under way is a contract.
TypeOK ==
    /\ setting \in Settings
    /\ queues \in [QueueIds -> [openCount : Int, contracts : SUBSET Contracts,
                                used : SUBSET Contracts]]
    /\ current \in QueueIds \cup {0}
    /\ sender \in [Senders -> [pc : {"take", "poll", "endTake", "create", "send", "use",
                                     "flush", "remove", "gone"},
                               q : QueueIds \cup {0}, contract : Contracts \cup {0}]]
    /\ request \in [Requests -> [pc : {"free", "sent", "answered", "add", "added"},
                                 used : SUBSET Contracts, contract : Contracts \cup {0},
                                 q : QueueIds \cup {0}]]
    /\ closing \subseteq [contract : Contracts, opened : BOOLEAN, q : QueueIds \cup {0}]
    /\ platform \in [Contracts -> {"none", "open", "closed"}]
    /\ openStats \subseteq Contracts /\ closed \subseteq Contracts

\* "All the contracts are accounted for" (TestTakeContract), part one: no
\* contract is at two places at a time, a send sequence that pays with it, a
\* queue it can be taken from, closed.  Takers, flushes, replies and
\* callbacks race for it on queues that are removed under them.
OneOwner ==
    \A c \in Contracts :
        Cardinality({s \in Senders : sender[s].contract = c})
            + (IF \E q \in QueueIds : c \in queues[q].contracts /\ (q = current \/ Openers(q) # {})
               THEN 1 ELSE 0)
            + (IF c \in closed THEN 1 ELSE 0) <= 1

\* No send sequence has begun to remove the queue of the key.
NoneExited == \A s \in Senders : sender[s].pc \notin {"flush", "remove", "gone"}

\* Part two, until a send sequence exits: a contract that was added is held,
\* closed, or in a queue that a send sequence or Flush can still reach; and
\* whoever has a queue open has that queue, the registered one, so that closing
\* by key closes what was opened, and openCount counts who has it open.
NoContractLost ==
    NoneExited =>
        /\ \A c \in openStats :
              \/ c \in closed
              \/ \E s \in Senders : sender[s].contract = c
              \/ current # 0 /\ c \in queues[current].contracts
        /\ \A q \in QueueIds : Openers(q) # {} =>
              q = current /\ queues[q].openCount = Cardinality(Openers(q))

\* A close by key finds the queue that was opened, or none when it "was
\* already force removed": the queue registered has not been opened by fewer.
\* The code does not keep it: README, "Where code and comments part".
ClosesItsQueue == current # 0 => queues[current].openCount >= 0

\* A contract closed is not counted as open once its reply is handled.
\* The code does not keep it: README, "Where code and comments part".
ClosedIsNotOpen == closed \cap openStats = {}
=============================================================================
