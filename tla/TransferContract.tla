-------------------------- MODULE TransferContract --------------------------
(***************************************************************************)
(* The contracts of a transfer sequence (transfer.go): what the            *)
(* SendSequence debits, acks and closes, and what the ReceiveSequence      *)
(* registers, debits, closes and checkpoints.                              *)
(*                                                                         *)
(* Below the contracts, acked frames behave as FrameChannel says: they are *)
(* received in order and acked as a prefix.  TransferSequence_proofs shows *)
(* that the sequences implement it, so this module has no queues.  A       *)
(* receive sequence that is formed again starts over at a pack that was    *)
(* sent as head.  Nacks travel on their own, are lost and reordered.       *)
(*                                                                         *)
(* A contract is the number of its take, 0 stands for no contract; a frame *)
(* is its position in items.                                               *)
(***************************************************************************)
EXTENDS Integers, Sequences, SequencesExt

CONSTANTS
    MaxContracts,             \* bound: contracts taken
    MaxNacks,                 \* bound: nacks written
    MaxGen,                   \* bound: receive sequences formed
    Sizes,                    \* messageByteCount of a frame
    TransferByteCounts,       \* sizes of the contracts the platform grants
    MinMessageByteCount,
    Settings                  \* the settings and environments considered, each with
                              \*   maxItems: bound, acked frames
                              \*   maxOpenReceiveContract: the setting
                              \*   nackWriteFails: the write of a nack may fail
                              \*   peerConfigChanges: AddNoContractPeer may be called

Contracts == 1 .. MaxContracts

ASSUME ContractBounds ==
    /\ MaxContracts \in Nat /\ MaxNacks \in Nat /\ MaxGen \in Nat
    /\ Sizes \subseteq Nat /\ TransferByteCounts \subseteq Nat
    /\ MinMessageByteCount \in Nat
    /\ Settings \subseteq [maxItems : Nat, maxOpenReceiveContract : Nat \ {0},
                           nackWriteFails : BOOLEAN, peerConfigChanges : BOOLEAN]

VARIABLES
    setting,       \* the one of Settings this behaviour has
    sOpen,         \* SendSequence.Run has not returned
    noContract,    \* the sides that require no contract from the other
    taken,         \* number of contracts taken from the contract manager
    granted,       \* transferByteCount of each contract
    sendContract,  \* the current contract
    contractAcked, \* sendContractAcked
    openSend,      \* openSendContracts
    sAcked,        \* ackedByteCount of the sender, per contract
    sUnacked,      \* unackedByteCount of the sender
    sClosed,       \* CloseContract calls of the sender, per contract
    items,         \* acked frames sent
    ackedTo,       \* frames acked
    heads,         \* frames encoded again as head, with their contract frame
    nackNet,       \* nacks in flight
    nacks,         \* number of nacks written
    badAccounting, \* a sequenceContract.ack has panicked
    rNext,         \* next frame of the receive sequence
    receiveContract,
    openReceive,   \* openReceiveContracts in order of localId
    rAcked,        \* ackedByteCount of the receiver, per open contract
    receivedTo,    \* frames received by some receive sequence
    rClosed,       \* CloseContract calls of the receiver, per contract
    gen            \* receive sequences formed

sVars == <<sOpen, noContract, taken, granted, sendContract, contractAcked,
           openSend, sAcked, sUnacked, sClosed, items, ackedTo, heads, nacks,
           badAccounting>>
rVars == <<rNext, receiveContract, openReceive, rAcked, receivedTo, rClosed, gen>>
vars == <<setting, sVars, nackNet, rVars>>

Zero == [c \in Contracts |-> 0]

Init ==
    /\ setting \in Settings
    /\ sOpen = TRUE /\ noContract = {}
    /\ taken = 0 /\ granted = Zero /\ sendContract = 0 /\ contractAcked = FALSE
    /\ openSend = {} /\ sAcked = Zero /\ sUnacked = Zero /\ sClosed = Zero
    /\ items = <<>> /\ ackedTo = 0 /\ heads = {}
    /\ nackNet = {} /\ nacks = 0 /\ badAccounting = FALSE
    /\ rNext = 1 /\ receiveContract = 0 /\ openReceive = <<>>
    /\ rAcked = Zero /\ receivedTo = 0 /\ rClosed = Zero /\ gen = 1

-----------------------------------------------------------------------------
(* sequenceContract                                                        *)

\* Small messages count as the minimum.
Effective(b) == IF b < MinMessageByteCount THEN MinMessageByteCount ELSE b

\* The sender fills half of a contract (ContractFillFraction), the receiver
\* accepts all of it.
SenderLimit(c) == granted[c] \div 2
ReceiverLimit(c) == granted[c]

\* update, for the sender's contract c.
SendFits(c, b) == c # 0 /\ sAcked[c] + sUnacked[c] + Effective(b) <= SenderLimit(c)

-----------------------------------------------------------------------------
(* SendSequence                                                            *)

\* Fault: a nack does not wait for its contract to be acked.
AsAckAsAsked(ack, c, acked) == ack

\* A nack is sent as ack until the contract it is accounted to is acked.
AsAck(ack, c, acked) == ack \/ (c # 0 /\ ~acked)

\* sendWithSetContract for an acked frame after the frames s: with nothing
\* pending it is a head.  A head and a contract pack carry the contract frame.
Item(s, c, b, setContract) ==
    [contract |-> c, bytes |-> b, setContract |-> setContract,
     head |-> Len(s) = ackedTo,
     hasContractFrame |-> c # 0 /\ (setContract \/ Len(s) = ackedTo)]

SendItem(s, c, b, setContract) == Append(s, Item(s, c, b, setContract))

\* Fault: the last bytes of a contract cannot be acked.
AckBytesOffByOne(c, b, unacked) ==
    /\ badAccounting' = (badAccounting \/ (c \in openSend /\ unacked[c] <= Effective(b)))
    /\ sUnacked' = IF c \in openSend THEN [unacked EXCEPT ![c] = @ - Effective(b)]
                                      ELSE unacked
    /\ sAcked' = IF c \in openSend THEN [sAcked EXCEPT ![c] = @ + Effective(b)] ELSE sAcked

\* Fault: what is acked is no longer debited.
AckBytesReleased(c, b, unacked) ==
    /\ sUnacked' = IF c \in openSend THEN [unacked EXCEPT ![c] = @ - Effective(b)]
                                      ELSE unacked
    /\ UNCHANGED <<sAcked, badAccounting>>

\* sequenceContract.ack for a frame of the sender, with unacked the debits.
AckBytes(c, b, unacked) ==
    IF c \notin openSend THEN UNCHANGED <<sAcked, badAccounting>> /\ sUnacked' = unacked
    ELSE IF unacked[c] < Effective(b)
    THEN badAccounting' = TRUE /\ UNCHANGED sAcked /\ sUnacked' = unacked
    ELSE /\ sUnacked' = [unacked EXCEPT ![c] = @ - Effective(b)]
         /\ sAcked' = [sAcked EXCEPT ![c] = @ + Effective(b)]
         /\ UNCHANGED badAccounting

\* A nack is acked by its successful write; a failed one is called back with
\* an error and stays debited.
SendNack(c, b, unacked) ==
    /\ nacks < MaxNacks
    /\ nacks' = nacks + 1
    /\ \/ /\ nackNet' = nackNet \cup {[id |-> nacks, contract |-> c, bytes |-> b]}
          /\ AckBytes(c, b, unacked)
       \/ /\ setting.nackWriteFails
          /\ sUnacked' = unacked
          /\ UNCHANGED <<nackNet, sAcked, badAccounting>>
    /\ UNCHANGED items

SendNoContract == "s" \in noContract
ReceiveNoContract == "r" \in noContract

\* updateContract leaves the contract alone: the frame needs none, or it fits
\* the current one and is debited.
Send(b, ack) ==
    /\ sOpen /\ ~badAccounting
    /\ SendNoContract \/ SendFits(sendContract, b)
    /\ LET c == sendContract
           debited == IF SendNoContract THEN sUnacked
                      ELSE [sUnacked EXCEPT ![c] = @ + Effective(b)]
       IN  IF AsAck(ack, c, contractAcked)
           THEN /\ Len(items) < setting.maxItems
                /\ items' = SendItem(items, c, b, FALSE)
                /\ sUnacked' = debited
                /\ UNCHANGED <<sAcked, badAccounting, nackNet, nacks>>
           ELSE SendNack(c, b, debited)
    /\ UNCHANGED <<sOpen, noContract, taken, granted, sendContract, contractAcked,
                   openSend, sClosed, ackedTo, heads, rVars>>

\* setContract closes the current contract when nothing of it is pending.
ClosesWhenReplaced(c) == c # 0 /\ sUnacked[c] = 0

\* A new contract is debited for its own pack and for the frame.
DebitOfNew(b) == Effective(0) + Effective(b)

\* updateContract takes contract c of t bytes, which becomes current; its pack is
\* sent before the frame.
SendOnNewContract(b, t) ==
    /\ sOpen /\ ~badAccounting
    /\ ~SendNoContract /\ ~SendFits(sendContract, b)
    /\ taken < MaxContracts /\ Len(items) + 2 <= setting.maxItems
    /\ DebitOfNew(b) <= t \div 2
    /\ LET c == taken + 1
           old == sendContract
       IN  /\ taken' = c
           /\ granted' = [granted EXCEPT ![c] = t]
           /\ sUnacked' = [sUnacked EXCEPT ![c] = DebitOfNew(b)]
           /\ openSend' = (openSend \cup {c}) \ IF ClosesWhenReplaced(old) THEN {old} ELSE {}
           /\ sClosed' = IF ClosesWhenReplaced(old) THEN [sClosed EXCEPT ![old] = @ + 1]
                                                    ELSE sClosed
           /\ sendContract' = c
           /\ items' = SendItem(SendItem(items, c, 0, TRUE), c, b, FALSE)
    /\ contractAcked' = FALSE
    /\ UNCHANGED <<sOpen, noContract, sAcked, ackedTo, heads, nackNet, nacks, badAccounting,
                   rVars>>

\* A contract the frame does not fit is closed unused, and the wait goes on.
ContractTooSmall(b, t) ==
    /\ sOpen /\ ~badAccounting
    /\ ~SendNoContract /\ ~SendFits(sendContract, b)
    /\ taken < MaxContracts
    /\ DebitOfNew(b) > t \div 2
    /\ taken' = taken + 1
    /\ granted' = [granted EXCEPT ![taken + 1] = t]
    /\ sClosed' = [sClosed EXCEPT ![taken + 1] = @ + 1]
    /\ UNCHANGED <<sOpen, noContract, sendContract, contractAcked, openSend, sAcked,
                   sUnacked, items, ackedTo, heads, nackNet, nacks, badAccounting, rVars>>

\* ackItem closes a contract that is not current and has nothing pending.
ClosesOnAck(c) == c \in openSend /\ c # sendContract /\ sUnacked'[c] = 0

\* receiveAck for the first pending frame.  A cumulative ack is several of
\* these.
AckNext ==
    /\ sOpen /\ ~badAccounting
    /\ ackedTo < receivedTo
    /\ ackedTo' = ackedTo + 1
    /\ LET i == items[ackedTo + 1]
           c == i.contract
       IN  /\ AckBytes(c, i.bytes, sUnacked)
           /\ openSend' = openSend \ IF ClosesOnAck(c) THEN {c} ELSE {}
           /\ sClosed' = IF ClosesOnAck(c) THEN [sClosed EXCEPT ![c] = @ + 1] ELSE sClosed
           /\ contractAcked' = (contractAcked \/ (i.setContract /\ c = sendContract))
    /\ UNCHANGED <<sOpen, noContract, taken, granted, sendContract, items, heads,
                   nackNet, nacks, rVars>>

\* The resend loop encodes the first pending frame as head, with the contract
\* frame of the contract it was sent under.
SetHead ==
    /\ sOpen /\ ~badAccounting
    /\ ackedTo < Len(items)
    /\ heads' = heads \cup {ackedTo + 1}
    /\ UNCHANGED <<sOpen, noContract, taken, granted, sendContract, contractAcked,
                   openSend, sAcked, sUnacked, sClosed, items, ackedTo, nacks,
                   badAccounting, nackNet, rVars>>

\* Fault: only contracts with nothing pending are closed at the end.
ClosedAtExitSettled == {c \in openSend : sUnacked[c] = 0}

\* Run closes every open contract when it returns.
ClosedAtExit == openSend

SenderExit ==
    /\ sOpen
    /\ sOpen' = FALSE
    /\ openSend' = openSend \ ClosedAtExit
    /\ sClosed' = [c \in Contracts |-> sClosed[c] + IF c \in ClosedAtExit THEN 1 ELSE 0]
    /\ UNCHANGED <<noContract, taken, granted, sendContract, contractAcked, sAcked,
                   sUnacked, items, ackedTo, heads, nackNet, nacks, badAccounting, rVars>>

-----------------------------------------------------------------------------
(* ReceiveSequence                                                         *)

\* registerContracts and setContract for contract c: an open contract becomes
\* current, a new one may push the earliest ones out.
Registered(c) ==
    LET opened == IF Contains(openReceive, c) THEN openReceive ELSE Append(openReceive, c)
        excess == Len(opened) - setting.maxOpenReceiveContract
    IN  IF excess <= 0 THEN opened ELSE SubSeq(opened, excess + 1, Len(opened))

Evicted(before, after) == {c \in ToSet(before) : ~Contains(after, c)}

\* Fault: the receiver accepts as little as the sender fills.
ReceiveFitsHalf(c, b, acked) == c # 0 /\ acked[c] + Effective(b) <= SenderLimit(c) - 1

\* update, for the receiver's contract c with counts acked.
ReceiveFits(c, b, acked) == c # 0 /\ acked[c] + Effective(b) <= ReceiverLimit(c)

\* Pack i is next at the receive sequence: it is the next frame in order, or
\* a head past it.  The packs of one frame differ in the contract frame.
IsHead(i) == i \in heads \/ items[i].head
AtFront(i) == i = rNext \/ (rNext < i /\ IsHead(i))
Encodings(i) ==
    (IF i = rNext THEN {items[i].hasContractFrame} ELSE {})
        \cup (IF IsHead(i) THEN {items[i].contract # 0} ELSE {})

\* The state of the receive sequence after the contract frame of pack i, if
\* it has one: the current contract, the open ones, the counts.
AfterFrame(i, with) ==
    LET c == items[i].contract
        opened == IF with THEN Registered(c) ELSE openReceive
    IN  [current |-> IF with THEN c ELSE receiveContract,
         open |-> opened,
         acked |-> [k \in Contracts |-> IF Contains(opened, k) THEN rAcked[k] ELSE 0]]

Accepts(i, with) ==
    LET r == AfterFrame(i, with)
    IN  ReceiveFits(r.current, items[i].bytes, r.acked) \/ ReceiveNoContract

\* The head of the sequence is received and accounted to the current contract.
ReceiveNext(i, with) ==
    /\ AtFront(i) /\ with \in Encodings(i)
    /\ Accepts(i, with)
    /\ LET r == AfterFrame(i, with)
           fits == ReceiveFits(r.current, items[i].bytes, r.acked)
       IN  /\ receiveContract' = r.current
           /\ openReceive' = r.open
           /\ rAcked' = IF fits
                        THEN [r.acked EXCEPT ![r.current] = @ + Effective(items[i].bytes)]
                        ELSE r.acked
           /\ rClosed' = [c \in Contracts |->
                             rClosed[c] + IF c \in Evicted(openReceive, r.open) THEN 1 ELSE 0]
    /\ rNext' = i + 1
    /\ receivedTo' = IF receivedTo < i THEN i ELSE receivedTo
    /\ UNCHANGED <<sVars, nackNet, gen>>

\* When Run of a receive sequence returns, previous contracts are closed and
\* the current one is checkpointed.
ClosedByReceiverExit(current, opened) == ToSet(opened) \ {current}

\* A receive sequence that has dropped the contracts in evicted ends, and the
\* next pack forms a new one.
StartOver(current, opened, evicted) ==
    /\ gen < MaxGen
    /\ gen' = gen + 1
    /\ rClosed' = [c \in Contracts |-> rClosed[c]
                      + IF c \in evicted \cup ClosedByReceiverExit(current, opened) THEN 1 ELSE 0]
    /\ rNext' = 1 /\ receiveContract' = 0 /\ openReceive' = <<>> /\ rAcked' = Zero
    /\ UNCHANGED <<receivedTo, sVars, nackNet>>

\* The sequence was idle or cancelled.
ReceiverExit == StartOver(receiveContract, openReceive, {})

\* The sequence ends at a pack it has no contract for.
RejectNext(i, with) ==
    /\ AtFront(i) /\ with \in Encodings(i)
    /\ ~Accepts(i, with)
    /\ LET r == AfterFrame(i, with)
       IN  StartOver(r.current, r.open, Evicted(openReceive, r.open))

\* receiveNack: a nack is accounted to its own contract, or without one to the
\* current contract.  It is dropped when its contract is not open or is full;
\* with no contract required, a full one is acked without being debited.
ReceiveNack(m) ==
    /\ ~badAccounting
    /\ m \in nackNet
    /\ nackNet' = nackNet \ {m}
    /\ LET c == IF m.contract = 0 THEN receiveContract ELSE m.contract
           known == m.contract = 0 \/ Contains(openReceive, m.contract)
           fits == known /\ ReceiveFits(c, m.bytes, rAcked)
       IN  /\ rAcked' = IF fits THEN [rAcked EXCEPT ![c] = @ + Effective(m.bytes)]
                                ELSE rAcked
           /\ badAccounting' = (known /\ ~fits /\ ReceiveNoContract /\ m.contract # 0
                                  /\ Effective(m.bytes) > 0)
    /\ UNCHANGED <<sOpen, noContract, taken, granted, sendContract, contractAcked,
                   openSend, sAcked, sUnacked, sClosed, items, ackedTo, heads, nacks,
                   rNext, receiveContract, openReceive, receivedTo, rClosed, gen>>

LoseNack ==
    /\ \E m \in nackNet : nackNet' = nackNet \ {m}
    /\ UNCHANGED <<sVars, rVars>>

\* AddNoContractPeer for the other side, at any time.
AddNoContractPeer(side) ==
    /\ setting.peerConfigChanges /\ side \notin noContract
    /\ noContract' = noContract \cup {side}
    /\ UNCHANGED <<sOpen, taken, granted, sendContract, contractAcked, openSend, sAcked,
                   sUnacked, sClosed, items, ackedTo, heads, nacks, badAccounting,
                   nackNet, rVars>>

-----------------------------------------------------------------------------
Next ==
    \/ \E b \in Sizes, ack \in BOOLEAN : Send(b, ack)
    \/ \E b \in Sizes, t \in TransferByteCounts :
          SendOnNewContract(b, t) \/ ContractTooSmall(b, t)
    \/ AckNext \/ SetHead \/ SenderExit
    \/ \E i \in 1 .. Len(items), with \in BOOLEAN :
          ReceiveNext(i, with) \/ RejectNext(i, with)
    \/ ReceiverExit
    \/ \E side \in {"s", "r"} : AddNoContractPeer(side)
    \/ \E m \in nackNet : ReceiveNack(m)
    \/ LoseNack

Spec == Init /\ [][Next /\ UNCHANGED setting]_vars

-----------------------------------------------------------------------------
(* Properties                                                              *)

\* Byte counts stay natural numbers, positions in the stream stay within what
\* was sent, contracts are ones that were taken.
TypeOK ==
    /\ setting \in Settings
    /\ sOpen \in BOOLEAN /\ noContract \subseteq {"s", "r"}
    /\ taken \in 0 .. MaxContracts /\ granted \in [Contracts -> Nat]
    /\ sendContract \in 0 .. MaxContracts /\ contractAcked \in BOOLEAN
    /\ openSend \subseteq Contracts
    /\ sAcked \in [Contracts -> Nat] /\ sUnacked \in [Contracts -> Nat]
    /\ sClosed \in [Contracts -> Nat] /\ rClosed \in [Contracts -> Nat]
    /\ items \in Seq([contract : 0 .. MaxContracts, bytes : Sizes \cup {0},
                      setContract : BOOLEAN, head : BOOLEAN, hasContractFrame : BOOLEAN])
    /\ ackedTo \in 0 .. Len(items) /\ receivedTo \in 0 .. Len(items)
    /\ heads \subseteq 1 .. Len(items) /\ rNext \in 1 .. Len(items) + 1
    /\ nackNet \subseteq [id : Nat, contract : 0 .. MaxContracts, bytes : Sizes]
    /\ nacks \in 0 .. MaxNacks /\ badAccounting \in BOOLEAN
    /\ receiveContract \in 0 .. MaxContracts /\ openReceive \in Seq(Contracts)
    /\ rAcked \in [Contracts -> Nat] /\ gen \in Nat

Pending == ackedTo + 1 .. Len(items)

\* sequenceContract.ack never panics with "Bad accounting": what is acked on a
\* contract was debited from it and is acked once (transfer.go 3440-3450), as
\* long as no peer is made no-contract while the sequence runs.
NoBadAccounting == noContract = {} => ~badAccounting

\* Without the exception: the panic asserts it in every case.
\* The code does not keep it: README, "Where code and comments part".
NeverBadAccounting == ~badAccounting

\* What the receiver has counted on a contract never exceeds what the sender
\* has debited from it, whatever is lost, resent as head or received again by
\* a sequence formed later; the two sides then report compatible usage.
ReceiverWithinSender ==
    noContract = {} => \A c \in Contracts : rAcked[c] <= sAcked[c] + sUnacked[c]

\* Pending frames have a contract at both ends.  At the sender it is still open,
\* so setHead finds the contract to attach (transfer.go 2010-2012 dereferences
\* it).  At the receiver, while both sides require contracts, a pack in front
\* of the sequence finds a contract with room, so "drop head no contract"
\* (transfer.go 2758, 2930) ends no sequence.
PendingHasContract ==
    /\ sOpen => \A i \in Pending : items[i].contract \in openSend \cup {0}
    /\ noContract = {} =>
          \A i \in 1 .. Len(items), with \in BOOLEAN :
              AtFront(i) /\ with \in Encodings(i) => Accepts(i, with)

\* Every contract taken is closed exactly once by the sender: when it did not
\* fit, when it was replaced, on its last ack or at the end, never twice.  An
\* open contract that is not current has frames pending, and so "will be closed
\* on ack" (comment at transfer.go 1808-1809); only a nack that could not be
\* written stays debited, and keeps its contract open until the end.
SenderClosesOnce ==
    /\ \A c \in 1 .. taken : sClosed[c] <= 1 /\ (~sOpen => sClosed[c] = 1)
    /\ sOpen /\ ~badAccounting /\ ~setting.nackWriteFails =>
          \A c \in openSend \ {sendContract} : \E i \in Pending : items[i].contract = c

\* A nack finds its contract at the receiver, or it was closed there to make
\* room for later ones, since nacks are sent as ack until the contract is acked
\* (comment at transfer.go 53-58).  This holds of the first receive sequence: one
\* that is formed again has lost the contracts, as has a receiver that stops
\* requiring them.
NackContractKnown ==
    gen = 1 /\ noContract = {} =>
        \A m \in nackNet : \/ m.contract = 0 \/ Contains(openReceive, m.contract)
                           \/ rClosed[m.contract] > 0

\* The receiver keeps a contract open that the sender may send on again (set
\* as head), as the comment at transfer.go 2581-2582 has it.
\* The code does not keep it: README, "Where code and comments part".
PendingNotClosed == \A i \in Pending : items[i].contract # 0 => rClosed[items[i].contract] = 0
=============================================================================
