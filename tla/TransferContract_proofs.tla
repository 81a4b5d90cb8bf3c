---------------------- MODULE TransferContract_proofs ----------------------
(***************************************************************************)
(* Proofs about TransferContract, for any number of contracts, frames,     *)
(* nacks and receive sequences, any sizes of frames and contracts, and     *)
(* every setting: the two ends of a sequence account compatibly for what   *)
(* is sent under a contract, and the sender closes each contract once.     *)
(*                                                                         *)
(* The accounting is about sums over the frames and nacks of a contract.   *)
(* The invariant has them as functions of which it only says how they grow *)
(* from one frame to the next, so no sum is ever computed.                 *)
(***************************************************************************)
EXTENDS TransferContract, TLAPS

-----------------------------------------------------------------------------
(* The inductive invariant.                                                *)

\* What contract c was debited and what was acked on it is within what the
\* sender fills of it; it is open or was closed once; if it is open and not
\* current, it has bytes unacked.
ContractOK(c) ==
    /\ sAcked[c] + sUnacked[c] <= SenderLimit(c)
    /\ taken < c => sAcked[c] = 0 /\ sUnacked[c] = 0
    /\ sClosed[c] = IF c <= taken /\ c \notin openSend THEN 1 ELSE 0
    /\ c \in openSend /\ c # sendContract => sUnacked[c] > 0

\* The contracts in use were taken, and the current one is open.
SenderInv ==
    /\ sendContract <= taken
    /\ openSend \subseteq 1 .. taken
    /\ sOpen => sendContract \in openSend \cup {0}
    /\ ~sOpen => openSend = {}
    /\ \A i \in DOMAIN items : items[i].contract <= taken
    /\ \A c \in Contracts : ContractOK(c)

\* Frames were acked after they were received, and a frame is a head only if
\* all before it were acked.  The contract frame of the current contract was
\* acked if contractAcked says so.
StreamInv ==
    /\ ackedTo <= receivedTo
    /\ gen >= 1
    /\ gen = 1 => receivedTo = rNext - 1
    /\ heads \subseteq 1 .. ackedTo + 1
    /\ \A i \in DOMAIN items : /\ items[i].head => i <= ackedTo + 1
                               /\ items[i].hasContractFrame => items[i].contract # 0
    /\ contractAcked => \E i \in 1 .. ackedTo : items[i].contract = sendContract

\* While both sides require contracts, every frame has one, and a frame
\* without a contract frame has the contract of the frame before it.
RunInv ==
    noContract = {} =>
        /\ \A i \in DOMAIN items :
              /\ items[i].contract # 0
              /\ items[i].hasContractFrame \/ (i > 1 /\ items[i].contract = items[i - 1].contract)
        /\ sendContract = IF items = <<>> THEN 0 ELSE items[Len(items)].contract
        /\ rNext > 1 => receiveContract = items[rNext - 1].contract

\* The current contract of the receiver is open, as are no more than may be.
OpenBound ==
    /\ Len(openReceive) <= setting.maxOpenReceiveContract
    /\ receiveContract # 0 => Contains(openReceive, receiveContract)

\* The first receive sequence has the contracts of the frames it has passed,
\* unless it closed them.
Known(c) == Contains(openReceive, c) \/ rClosed[c] > 0
OpenInv ==
    /\ OpenBound
    /\ gen = 1 /\ noContract = {} => \A i \in 1 .. rNext - 1 : Known(items[i].contract)

\* Each nack has an id of its own and, while both sides require contracts, a
\* contract, which the receiver was told.
NackInv ==
    /\ \A m \in nackNet : m.id < nacks
    /\ \A m, n \in nackNet : m.id = n.id => m = n
    /\ noContract = {} => \A m \in nackNet : m.contract # 0
    /\ NackContractKnown

\* What x counts on contract c.
Counts(c, x) == IF x.contract = c THEN Effective(x.bytes) ELSE 0

\* f[k] is what the first k frames count on contract c.
Sums(f, c, s) ==
    /\ f \in [0 .. Len(s) -> Nat] /\ f[0] = 0
    /\ \A k \in DOMAIN s : f[k] = f[k - 1] + Counts(c, s[k])
    /\ \A j, k \in 0 .. Len(s) : j <= k => f[j] <= f[k]
    /\ \A j, k \in 0 .. Len(s) : j <= k /\ f[j] < f[k] =>
          \E i \in j + 1 .. k : s[i].contract = c

\* g[k] is at least what the first k nacks, those in flight, count on c.
NackSums(g, c, net, n) ==
    /\ g \in [0 .. n -> Nat]
    /\ \A j, k \in 0 .. n : j <= k => g[j] <= g[k]
    /\ \A m \in net : g[m.id] + Counts(c, m) <= g[m.id + 1]

\* The receiver can count no more than the sender has debited: what it has
\* yet to receive is debited, as is all that a sequence formed again receives.
ReceiverLedger(c, f, g) ==
    noContract = {} =>
        /\ g[nacks] + f[Len(items)] <= sAcked[c] + sUnacked[c]
        /\ rAcked[c] + g[nacks] + f[Len(items)] <= f[rNext - 1] + sAcked[c] + sUnacked[c]

\* What is pending on an open contract is debited, except frames sent while
\* no contract was required, and nothing else is, except nacks that could not
\* be written.
SenderLedger(c, f) ==
    c \in openSend =>
        /\ "s" \notin noContract \/ c # sendContract =>
              f[Len(items)] <= f[ackedTo] + sUnacked[c]
        /\ ~badAccounting /\ ~setting.nackWriteFails =>
              f[ackedTo] + sUnacked[c] <= f[Len(items)]

Ledger(c) ==
    \E f, g : /\ Sums(f, c, items) /\ NackSums(g, c, nackNet, nacks)
              /\ ReceiverLedger(c, f, g) /\ SenderLedger(c, f)

LedgerInv == \A c \in Contracts : Ledger(c)

\* A frame that is pending has its contract open, where every frame counts.
PendingInv ==
    MinMessageByteCount > 0 /\ sOpen =>
        \A i \in Pending : items[i].contract \in openSend \cup {0}

IInv ==
    /\ TypeOK /\ SenderInv /\ StreamInv /\ RunInv /\ OpenInv /\ NackInv /\ LedgerInv
    /\ PendingInv /\ NoBadAccounting

-----------------------------------------------------------------------------
(* Constants and operators.                                                *)

ItemType == [contract : 0 .. MaxContracts, bytes : Sizes \cup {0},
             setContract : BOOLEAN, head : BOOLEAN, hasContractFrame : BOOLEAN]

LEMMA Bounds ==
    ASSUME setting \in Settings
    PROVE  /\ MaxContracts \in Nat /\ MaxNacks \in Nat /\ MaxGen \in Nat
           /\ Sizes \subseteq Nat /\ TransferByteCounts \subseteq Nat
           /\ MinMessageByteCount \in Nat
           /\ setting.maxItems \in Nat /\ setting.maxOpenReceiveContract \in Nat \ {0}
  BY ContractBounds

LEMMA EffectiveNat ==
    ASSUME NEW b \in Nat
    PROVE  /\ Effective(b) \in Nat
           /\ MinMessageByteCount > 0 => Effective(b) > 0
  BY ContractBounds DEF Effective

LEMMA CountsNat ==
    ASSUME NEW c, NEW x, x.bytes \in Nat
    PROVE  /\ Counts(c, x) \in Nat
           /\ x.contract = c => Counts(c, x) = Effective(x.bytes)
           /\ x.contract # c => Counts(c, x) = 0
  BY EffectiveNat DEF Counts

LEMMA InContracts ==
    ASSUME NEW c
    PROVE  c \in Contracts <=> c \in 0 .. MaxContracts /\ c # 0
  BY ContractBounds DEF Contracts

LEMMA AppendIs ==
    ASSUME NEW S, NEW s \in Seq(S), NEW x \in S
    PROVE  /\ Append(s, x) \in Seq(S) /\ Len(Append(s, x)) = Len(s) + 1
           /\ \A k \in 1 .. Len(s) : Append(s, x)[k] = s[k]
           /\ Append(s, x)[Len(s) + 1] = x
           /\ Len(s) \in Nat
  OBVIOUS

LEMMA ItemsAre ==
    ASSUME TypeOK
    PROVE  /\ items \in Seq(ItemType) /\ Len(items) \in Nat /\ DOMAIN items = 1 .. Len(items)
           /\ \A i \in 1 .. Len(items) :
                 /\ items[i] \in ItemType /\ items[i].contract \in 0 .. MaxContracts
                 /\ items[i].bytes \in Sizes \cup {0} /\ items[i].bytes \in Nat
                 /\ Effective(items[i].bytes) \in Nat
  <1>1. items \in Seq(ItemType) /\ Sizes \subseteq Nat
    BY Bounds DEF TypeOK, ItemType
  <1>2. /\ Len(items) \in Nat /\ DOMAIN items = 1 .. Len(items)
        /\ \A i \in 1 .. Len(items) : items[i] \in ItemType
    BY <1>1
  <1>3. \A x \in ItemType : x.contract \in 0 .. MaxContracts /\ x.bytes \in Sizes \cup {0}
    BY DEF ItemType
  <1>4. Sizes \cup {0} \subseteq Nat
    BY <1>1
  <1> QED BY <1>1, <1>2, <1>3, <1>4, EffectiveNat

\* Registering contract c: it is open, and nothing new but it.
LEMMA RegisteredIs ==
    ASSUME TypeOK, Len(openReceive) <= setting.maxOpenReceiveContract, NEW c \in Contracts
    PROVE  /\ Registered(c) \in Seq(Contracts) /\ Contains(Registered(c), c)
           /\ Len(Registered(c)) <= setting.maxOpenReceiveContract
  <1> DEFINE opened == IF Contains(openReceive, c) THEN openReceive ELSE Append(openReceive, c)
             excess == Len(opened) - setting.maxOpenReceiveContract
  <1>1. /\ setting.maxOpenReceiveContract \in Nat \ {0} /\ openReceive \in Seq(Contracts)
        /\ Len(openReceive) \in Nat
    BY Bounds DEF TypeOK
  <1>2. CASE Contains(openReceive, c)
    <2>1. opened = openReceive /\ excess <= 0
      BY <1>1, <1>2
    <2>2. Registered(c) = openReceive
      BY <2>1 DEF Registered
    <2> QED BY <1>1, <1>2, <2>2
  <1>3. CASE ~Contains(openReceive, c)
    <2>1. /\ opened = Append(openReceive, c) /\ opened \in Seq(Contracts)
          /\ Len(opened) = Len(openReceive) + 1 /\ opened[Len(opened)] = c
      BY <1>1, <1>3
    <2>2. excess \in Int /\ excess <= 1
      BY <1>1, <2>1
    <2> HIDE DEF opened
    <2>3. CASE excess <= 0
      <3>1. Registered(c) = opened
        BY <2>3 DEF Registered, opened
      <3> QED BY <1>1, <2>1, <2>2, <2>3, <3>1 DEF Contains
    <2>4. CASE ~(excess <= 0)
      <3>1. excess = 1
        BY <2>2, <2>4
      <3>2. Registered(c) = SubSeq(opened, 2, Len(opened))
        BY <2>4, <3>1 DEF Registered, opened
      <3>3. /\ Registered(c) \in Seq(Contracts) /\ Len(Registered(c)) = Len(opened) - 1
            /\ \A k \in 1 .. Len(opened) - 1 : Registered(c)[k] = opened[k + 1]
        BY <1>1, <2>1, <3>2
      <3>4. Len(opened) - 1 \in 1 .. Len(opened) - 1
        BY <1>1, <2>1, <3>1
      <3>5. Registered(c)[Len(opened) - 1] = c
        BY <1>1, <2>1, <3>3, <3>4
      <3> QED BY <1>1, <2>1, <3>1, <3>3, <3>4, <3>5 DEF Contains
    <2> QED BY <2>3, <2>4
  <1> QED BY <1>2, <1>3

-----------------------------------------------------------------------------
(* What the steps of the sender do, contract by contract.                  *)

Debited(b) == IF SendNoContract THEN sUnacked
              ELSE [sUnacked EXCEPT ![sendContract] = @ + Effective(b)]

\* Send in its two cases: a frame is sent, or a nack.
SendBase(b) ==
    /\ sOpen /\ ~badAccounting
    /\ SendNoContract \/ SendFits(sendContract, b)
    /\ UNCHANGED <<sOpen, noContract, taken, granted, sendContract, contractAcked,
                   openSend, sClosed, ackedTo, heads, rVars>>
SendsFrame(b) ==
    /\ SendBase(b)
    /\ Len(items) < setting.maxItems
    /\ items' = Append(items, Item(items, sendContract, b, FALSE))
    /\ sUnacked' = Debited(b)
    /\ UNCHANGED <<sAcked, badAccounting, nackNet, nacks>>
SendsNack(b) ==
    /\ SendBase(b)
    /\ sendContract = 0 \/ contractAcked
    /\ SendNack(sendContract, b, Debited(b))

LEMMA SendIs ==
    ASSUME NEW b \in Sizes, NEW ack \in BOOLEAN, Send(b, ack)
    PROVE  SendsFrame(b) \/ SendsNack(b)
  BY DEF Send, SendsFrame, SendsNack, SendBase, Debited, SendItem, AsAck

LEMMA DebitedIs ==
    ASSUME TypeOK, NEW b \in Nat, SendNoContract \/ SendFits(sendContract, b)
    PROVE  /\ Debited(b) \in [Contracts -> Nat]
           /\ \A c \in Contracts :
                 Debited(b)[c] = IF ~SendNoContract /\ c = sendContract
                                 THEN sUnacked[c] + Effective(b) ELSE sUnacked[c]
           /\ ~SendNoContract => sendContract \in Contracts
  <1>1. /\ sUnacked \in [Contracts -> Nat] /\ sendContract \in 0 .. MaxContracts
        /\ Effective(b) \in Nat
    BY EffectiveNat DEF TypeOK
  <1>2. ~SendNoContract => sendContract \in Contracts
    BY <1>1, InContracts DEF SendFits
  <1> QED BY <1>1, <1>2 DEF Debited

LEMMA AckBytesIs ==
    ASSUME TypeOK, NEW c \in 0 .. MaxContracts, NEW b \in Nat,
           NEW unacked \in [Contracts -> Nat], AckBytes(c, b, unacked)
    PROVE  /\ sAcked' \in [Contracts -> Nat] /\ sUnacked' \in [Contracts -> Nat]
           /\ badAccounting' \in BOOLEAN
           /\ \A k \in Contracts :
                 /\ sAcked'[k] + sUnacked'[k] = sAcked[k] + unacked[k]
                 /\ sAcked[k] <= sAcked'[k]
                 /\ k # c \/ k \notin openSend =>
                       sAcked'[k] = sAcked[k] /\ sUnacked'[k] = unacked[k]
           /\ c \notin openSend => badAccounting' = badAccounting
           /\ c \in openSend =>
                 /\ Effective(b) <= unacked[c] => /\ sUnacked'[c] = unacked[c] - Effective(b)
                                                 /\ badAccounting' = badAccounting
                 /\ unacked[c] < Effective(b) => /\ sUnacked'[c] = unacked[c]
                                                 /\ badAccounting'
  <1>1. /\ sAcked \in [Contracts -> Nat] /\ openSend \subseteq Contracts
        /\ badAccounting \in BOOLEAN /\ Effective(b) \in Nat
    BY EffectiveNat DEF TypeOK
  <1>2. CASE c \notin openSend
    <2>1. UNCHANGED <<sAcked, badAccounting>> /\ sUnacked' = unacked
      BY <1>2 DEF AckBytes
    <2> QED BY <1>1, <1>2, <2>1
  <1>3. CASE c \in openSend /\ unacked[c] < Effective(b)
    <2>1. badAccounting' = TRUE /\ sAcked' = sAcked /\ sUnacked' = unacked
      BY <1>3 DEF AckBytes
    <2>2. \A k \in Contracts : sAcked[k] \in Nat /\ unacked[k] \in Nat
      BY <1>1
    <2>3. badAccounting' /\ badAccounting' \in BOOLEAN
      BY <2>1
    <2>4. \A k \in Contracts :
                 /\ sAcked'[k] + sUnacked'[k] = sAcked[k] + unacked[k]
                 /\ sAcked[k] <= sAcked'[k]
                 /\ sAcked'[k] = sAcked[k] /\ sUnacked'[k] = unacked[k]
      BY <2>1, <2>2
    <2>5. sAcked' \in [Contracts -> Nat] /\ sUnacked' \in [Contracts -> Nat]
      BY <1>1, <2>1
    <2>6. unacked[c] \in Nat /\ sUnacked'[c] = unacked[c]
      BY <1>1, <1>3, <2>2, <2>4
    <2>7. ~(Effective(b) <= unacked[c])
      BY <1>1, <1>3, <2>6
    <2>8. /\ c \notin openSend => badAccounting' = badAccounting
          /\ c \in openSend =>
                 /\ Effective(b) <= unacked[c] => /\ sUnacked'[c] = unacked[c] - Effective(b)
                                                 /\ badAccounting' = badAccounting
                 /\ unacked[c] < Effective(b) => /\ sUnacked'[c] = unacked[c]
                                                 /\ badAccounting'
      BY ONLY <1>3, <2>3, <2>6, <2>7, Zenon
    <2> QED BY ONLY <2>3, <2>4, <2>5, <2>8
  <1>4. CASE c \in openSend /\ ~(unacked[c] < Effective(b))
    <2>1. /\ sUnacked' = [unacked EXCEPT ![c] = @ - Effective(b)]
          /\ sAcked' = [sAcked EXCEPT ![c] = @ + Effective(b)]
          /\ UNCHANGED badAccounting
      BY <1>4 DEF AckBytes
    <2>2. c \in Contracts /\ unacked[c] - Effective(b) \in Nat /\ sAcked[c] + Effective(b) \in Nat
      BY <1>1, <1>4
    <2>3. /\ sAcked' \in [Contracts -> Nat] /\ sUnacked' \in [Contracts -> Nat]
          /\ \A k \in Contracts : k # c => sAcked'[k] = sAcked[k] /\ sUnacked'[k] = unacked[k]
          /\ sUnacked'[c] = unacked[c] - Effective(b) /\ sAcked'[c] = sAcked[c] + Effective(b)
      BY <1>1, <2>1, <2>2
    <2>4. \A k \in Contracts : sAcked[k] \in Nat /\ unacked[k] \in Nat
      BY <1>1
    <2>5. badAccounting' = badAccounting
      BY <2>1
    <2> HIDE DEF AckBytes
    <2>6. \A k \in Contracts :
                 /\ sAcked'[k] + sUnacked'[k] = sAcked[k] + unacked[k]
                 /\ sAcked[k] <= sAcked'[k]
      BY <1>1, <2>2, <2>3, <2>4
    <2> QED BY ONLY <1>1, <1>4, <2>2, <2>3, <2>4, <2>5, <2>6
  <1> QED BY <1>2, <1>3, <1>4

\* The step of a nack: its debit, and whether it was written.
LEMMA SendsNackIs ==
    ASSUME TypeOK, NEW b \in Sizes, SendsNack(b)
    PROVE  LET m == [id |-> nacks, contract |-> sendContract, bytes |-> b]
           IN  /\ nacks < MaxNacks /\ nacks' = nacks + 1 /\ items' = items
               /\ sAcked' \in [Contracts -> Nat] /\ sUnacked' \in [Contracts -> Nat]
               /\ badAccounting' \in BOOLEAN
               /\ m \in [id : Nat, contract : 0 .. MaxContracts, bytes : Sizes]
               /\ \A k \in Contracts :
                     sAcked'[k] + sUnacked'[k] = sAcked[k] + Debited(b)[k]
               /\ \/ nackNet' = nackNet \cup {m} /\ AckBytes(sendContract, b, Debited(b))
                  \/ /\ setting.nackWriteFails /\ nackNet' = nackNet
                     /\ sUnacked' = Debited(b) /\ sAcked' = sAcked
                     /\ badAccounting' = badAccounting
  <1> DEFINE m == [id |-> nacks, contract |-> sendContract, bytes |-> b]
  <1>1. /\ SendNoContract \/ SendFits(sendContract, b)
        /\ SendNack(sendContract, b, Debited(b))
    BY DEF SendsNack, SendBase
  <1>2. b \in Nat /\ MaxNacks \in Nat
    BY Bounds DEF TypeOK
  <1>3. /\ Debited(b) \in [Contracts -> Nat]
        /\ sAcked \in [Contracts -> Nat] /\ badAccounting \in BOOLEAN /\ nacks \in 0 .. MaxNacks
        /\ sendContract \in 0 .. MaxContracts
    BY <1>1, <1>2, DebitedIs DEF TypeOK
  <1>4. nacks < MaxNacks /\ nacks' = nacks + 1 /\ items' = items
    BY <1>1 DEF SendNack
  <1>5. m \in [id : Nat, contract : 0 .. MaxContracts, bytes : Sizes]
    BY <1>2, <1>3
  <1>6. \/ nackNet' = nackNet \cup {m} /\ AckBytes(sendContract, b, Debited(b))
        \/ /\ setting.nackWriteFails /\ nackNet' = nackNet
           /\ sUnacked' = Debited(b) /\ sAcked' = sAcked
           /\ badAccounting' = badAccounting
    BY <1>1 DEF SendNack
  <1>7. CASE AckBytes(sendContract, b, Debited(b))
    BY <1>2, <1>3, <1>4, <1>5, <1>6, <1>7, AckBytesIs
  <1>8. CASE sUnacked' = Debited(b) /\ sAcked' = sAcked /\ badAccounting' = badAccounting
    BY <1>3, <1>4, <1>5, <1>6, <1>8
  <1> QED BY <1>6, <1>7, <1>8

\* The two frames on a new contract.
LEMMA NewContractItems ==
    ASSUME TypeOK, NEW b \in Sizes, NEW t \in TransferByteCounts, SendOnNewContract(b, t)
    PROVE  LET c == taken + 1
               n == Len(items)
           IN  /\ c \in Contracts
               /\ items' \in Seq(ItemType) /\ Len(items') = n + 2 /\ DOMAIN items' = 1 .. n + 2
               /\ \A i \in 1 .. n : items'[i] = items[i]
               /\ items'[n + 1].contract = c /\ items'[n + 1].bytes = 0
               /\ items'[n + 1].hasContractFrame /\ items'[n + 1].setContract
               /\ items'[n + 1].head <=> n = ackedTo
               /\ items'[n + 2].contract = c /\ items'[n + 2].bytes = b
               /\ ~items'[n + 2].head /\ ~items'[n + 2].setContract
  <1> DEFINE c == taken + 1
             x == Item(items, c, 0, TRUE)
             s == Append(items, x)
             y == Item(s, c, b, FALSE)
  <1>1. /\ taken < MaxContracts /\ taken \in 0 .. MaxContracts /\ MaxContracts \in Nat
        /\ ackedTo \in 0 .. Len(items)
    BY Bounds DEF TypeOK, SendOnNewContract
  <1>2. c \in Contracts /\ c \in 0 .. MaxContracts /\ c # 0
    BY <1>1 DEF Contracts
  <1>3. items' = Append(s, y)
    BY DEF SendOnNewContract, SendItem
  <1>4. /\ x \in ItemType /\ x.contract = c /\ x.bytes = 0 /\ x.setContract
        /\ x.head <=> Len(items) = ackedTo
        /\ x.hasContractFrame
    <2> HIDE DEF c
    <2> QED BY <1>2 DEF Item, ItemType
  <1>5. items \in Seq(ItemType) /\ Len(items) \in Nat
    BY ItemsAre
  <1>6. /\ s \in Seq(ItemType) /\ Len(s) = Len(items) + 1
        /\ \A k \in 1 .. Len(items) : s[k] = items[k]
        /\ s[Len(items) + 1] = x
    <2> HIDE DEF x
    <2> QED BY <1>4, <1>5, AppendIs
  <1>7. /\ y \in ItemType /\ y.contract = c /\ y.bytes = b /\ ~y.setContract
        /\ y.head <=> Len(s) = ackedTo
    <2> HIDE DEF c, s
    <2> QED BY <1>2 DEF Item, ItemType
  <1>8. ~y.head
    <2>1. Len(s) # ackedTo
      <3> HIDE DEF s, x, y
      <3> QED BY <1>1, <1>5, <1>6
    <2> QED BY <1>7, <2>1
  <1>9. /\ items' \in Seq(ItemType) /\ Len(items') = Len(s) + 1
        /\ \A k \in 1 .. Len(s) : items'[k] = s[k]
        /\ items'[Len(s) + 1] = y
    <2> HIDE DEF s, y
    <2> QED BY <1>3, <1>6, <1>7, AppendIs
  <1>10. items'[Len(items) + 1] = x /\ items'[Len(items) + 2] = y /\ Len(items') = Len(items) + 2
    <2> HIDE DEF s, x, y
    <2> QED BY <1>5, <1>6, <1>9
  <1>11. \A i \in 1 .. Len(items) : items'[i] = items[i]
    <2> HIDE DEF s, x, y
    <2> QED BY <1>5, <1>6, <1>9
  <1>12. DOMAIN items' = 1 .. Len(items) + 2
    <2> HIDE DEF s, x, y
    <2> QED BY <1>9, <1>10
  <1> HIDE DEF s, x, y, c
  <1>13. /\ c \in Contracts
         /\ items' \in Seq(ItemType) /\ Len(items') = Len(items) + 2
         /\ items'[Len(items) + 1].contract = c /\ items'[Len(items) + 1].bytes = 0
         /\ items'[Len(items) + 1].hasContractFrame /\ items'[Len(items) + 1].setContract
         /\ items'[Len(items) + 1].head <=> Len(items) = ackedTo
         /\ items'[Len(items) + 2].contract = c /\ items'[Len(items) + 2].bytes = b
         /\ ~items'[Len(items) + 2].head /\ ~items'[Len(items) + 2].setContract
    BY <1>2, <1>4, <1>7, <1>8, <1>9, <1>10
  <1> QED BY <1>11, <1>12, <1>13 DEF c

\* The frame that Send appends.
LEMMA SendsFrameItems ==
    ASSUME TypeOK, NEW b \in Sizes, SendsFrame(b)
    PROVE  LET n == Len(items)
           IN  /\ items' \in Seq(ItemType) /\ Len(items') = n + 1 /\ DOMAIN items' = 1 .. n + 1
               /\ \A i \in 1 .. n : items'[i] = items[i]
               /\ items'[n + 1].contract = sendContract /\ items'[n + 1].bytes = b
               /\ items'[n + 1].hasContractFrame => sendContract # 0
               /\ ~items'[n + 1].setContract
               /\ items'[n + 1].head <=> n = ackedTo
  <1> DEFINE x == Item(items, sendContract, b, FALSE)
  <1>1. sendContract \in 0 .. MaxContracts /\ items' = Append(items, x)
    BY DEF TypeOK, SendsFrame
  <1>2. /\ x \in ItemType /\ x.contract = sendContract /\ x.bytes = b /\ ~x.setContract
        /\ x.head <=> Len(items) = ackedTo
        /\ x.hasContractFrame => sendContract # 0
    BY <1>1 DEF Item, ItemType
  <1>3. items \in Seq(ItemType) /\ Len(items) \in Nat
    BY ItemsAre
  <1> HIDE DEF x
  <1>4. /\ items' \in Seq(ItemType) /\ Len(items') = Len(items) + 1
        /\ \A k \in 1 .. Len(items) : items'[k] = items[k]
        /\ items'[Len(items) + 1] = x
    BY <1>1, <1>2, <1>3, AppendIs
  <1>5. DOMAIN items' = 1 .. Len(items) + 1
    BY <1>4
  <1> QED BY <1>2, <1>4, <1>5

-----------------------------------------------------------------------------
(* What the receiver does with a pack.                                     *)

LEMMA AfterFrameIs ==
    ASSUME TypeOK, OpenBound, NEW i \in 1 .. Len(items), NEW with \in BOOLEAN,
           with => items[i].contract # 0, NEW r, r = AfterFrame(i, with)
    PROVE  /\ r.open \in Seq(Contracts) /\ Len(r.open) <= setting.maxOpenReceiveContract
           /\ r.current \in 0 .. MaxContracts
           /\ r.current # 0 => Contains(r.open, r.current)
           /\ r.acked \in [Contracts -> Nat]
           /\ \A k \in Contracts : r.acked[k] <= rAcked[k]
           /\ r.current = IF with THEN items[i].contract ELSE receiveContract
  <1>1. /\ receiveContract \in 0 .. MaxContracts /\ openReceive \in Seq(Contracts)
        /\ rAcked \in [Contracts -> Nat] /\ items[i].contract \in 0 .. MaxContracts
    BY ItemsAre DEF TypeOK
  <1>2. /\ r.current = IF with THEN items[i].contract ELSE receiveContract
        /\ r.open = IF with THEN Registered(items[i].contract) ELSE openReceive
        /\ r.acked = [k \in Contracts |-> IF Contains(r.open, k) THEN rAcked[k] ELSE 0]
    BY DEF AfterFrame
  <1>3. /\ r.acked \in [Contracts -> Nat]
        /\ \A k \in Contracts : r.acked[k] <= rAcked[k]
    BY <1>1, <1>2
  <1>4. CASE with
    <2>1. items[i].contract \in Contracts
      BY <1>1, <1>4, InContracts
    <2>2. /\ Registered(items[i].contract) \in Seq(Contracts)
          /\ Contains(Registered(items[i].contract), items[i].contract)
          /\ Len(Registered(items[i].contract)) <= setting.maxOpenReceiveContract
      BY <2>1, RegisteredIs DEF OpenBound
    <2> QED BY <1>1, <1>2, <1>3, <1>4, <2>2
  <1>5. CASE ~with
    BY <1>1, <1>2, <1>3, <1>5 DEF OpenBound
  <1> QED BY <1>4, <1>5

\* A contract frame is of a contract; without one, the frame in front is of
\* the current contract.
LEMMA EncodingsAre ==
    ASSUME TypeOK, StreamInv, RunInv, NEW i \in 1 .. Len(items), NEW with \in BOOLEAN,
           AtFront(i), with \in Encodings(i)
    PROVE  /\ with => items[i].contract # 0
           /\ noContract = {} =>
                 items[i].contract = IF with THEN items[i].contract ELSE receiveContract
  <1>1. /\ i \in DOMAIN items /\ i \in Nat /\ DOMAIN items = 1 .. Len(items)
        /\ rNext \in 1 .. Len(items) + 1
    BY ItemsAre DEF TypeOK
  <1>2. \/ i = rNext /\ with = items[i].hasContractFrame
        \/ with = (items[i].contract # 0)
    BY DEF Encodings
  <1>3. CASE i = rNext /\ with = items[i].hasContractFrame
    <2>1. with => items[i].contract # 0
      BY <1>1, <1>3 DEF StreamInv
    <2>2. ASSUME noContract = {}, ~with PROVE items[i].contract = receiveContract
      <3>1. ~items[i].hasContractFrame
        BY <1>3, <2>2
      <3>2. i > 1 /\ items[i].contract = items[i - 1].contract
        BY <1>1, <2>2, <3>1 DEF RunInv
      <3>3. receiveContract = items[i - 1].contract
        BY <1>3, <2>2, <3>2 DEF RunInv
      <3> QED BY <3>2, <3>3
    <2> QED BY <2>1, <2>2
  <1>4. CASE with = (items[i].contract # 0)
    BY <1>1, <1>4 DEF RunInv
  <1> QED BY <1>2, <1>3, <1>4

-----------------------------------------------------------------------------
(* Types.                                                                  *)

LEMMA InitInv == Init => IInv
  <1> SUFFICES ASSUME Init PROVE IInv
    OBVIOUS
  <1>1. /\ setting \in Settings /\ MaxContracts \in Nat /\ MaxNacks \in Nat
        /\ setting.maxOpenReceiveContract \in Nat \ {0}
    <2>1. setting \in Settings
      BY DEF Init
    <2> QED BY <2>1, Bounds
  <1>2. /\ Zero \in [Contracts -> Nat] /\ \A c \in Contracts : Zero[c] = 0
    BY DEF Zero
  <1>3. TypeOK
    <2>1. /\ items = <<>> /\ openReceive = <<>> /\ nackNet = {} /\ heads = {} /\ noContract = {}
          /\ openSend = {} /\ Len(items) = 0
      BY DEF Init
    <2>2. /\ items \in Seq([contract : 0 .. MaxContracts, bytes : Sizes \cup {0},
                      setContract : BOOLEAN, head : BOOLEAN, hasContractFrame : BOOLEAN])
          /\ openReceive \in Seq(Contracts)
      BY <2>1
    <2>3. /\ granted \in [Contracts -> Nat] /\ rAcked \in [Contracts -> Nat]
          /\ sAcked \in [Contracts -> Nat] /\ sUnacked \in [Contracts -> Nat]
          /\ sClosed \in [Contracts -> Nat] /\ rClosed \in [Contracts -> Nat]
      BY <1>2 DEF Init
    <2>4. /\ sOpen = TRUE /\ taken = 0 /\ sendContract = 0 /\ contractAcked = FALSE
          /\ ackedTo = 0 /\ nacks = 0 /\ badAccounting = FALSE /\ rNext = 1
          /\ receiveContract = 0 /\ receivedTo = 0 /\ gen = 1
      BY DEF Init
    <2>5. /\ ackedTo \in 0 .. Len(items) /\ receivedTo \in 0 .. Len(items)
          /\ rNext \in 1 .. Len(items) + 1 /\ gen \in Nat
      BY <2>1, <2>4
    <2>6. /\ taken \in 0 .. MaxContracts /\ sendContract \in 0 .. MaxContracts
          /\ nacks \in 0 .. MaxNacks /\ receiveContract \in 0 .. MaxContracts
      BY <1>1, <2>4
    <2> QED BY ONLY <1>1, <2>1, <2>2, <2>3, <2>4, <2>5, <2>6 DEF TypeOK
  <1>4. SenderInv
    <2>1. \A c \in Contracts : c > 0
      BY DEF Contracts
    <2> QED BY <1>2, <2>1 DEF Init, SenderInv, ContractOK, SenderLimit
  <1>5. StreamInv /\ RunInv /\ OpenInv /\ NackInv
    BY <1>1 DEF Init, StreamInv, RunInv, OpenInv, OpenBound, NackInv, NackContractKnown
  <1>6. LedgerInv
    <2> SUFFICES ASSUME NEW c \in Contracts PROVE Ledger(c)
      BY DEF LedgerInv
    <2> DEFINE f == [k \in 0 .. 0 |-> 0]
    <2>1. Sums(f, c, items) /\ NackSums(f, c, nackNet, nacks)
      BY DEF Init, Sums, NackSums
    <2>2. ReceiverLedger(c, f, f) /\ SenderLedger(c, f)
      BY <1>2 DEF Init, ReceiverLedger, SenderLedger
    <2> QED BY <2>1, <2>2 DEF Ledger
  <1>7. PendingInv /\ NoBadAccounting
    BY DEF Init, PendingInv, NoBadAccounting, Pending
  <1> QED BY <1>3, <1>4, <1>5, <1>6, <1>7 DEF IInv

-----------------------------------------------------------------------------
(* Types.  Frames are only ever added.                                     *)

LEMMA ExceptIs ==
    ASSUME NEW S, NEW T, NEW f \in [S -> T], NEW x, NEW v, x \in S => v \in T
    PROVE  [f EXCEPT ![x] = v] \in [S -> T]
  OBVIOUS

LEMMA IncrementIs ==
    ASSUME NEW S, NEW f \in [S -> Nat], NEW x
    PROVE  [f EXCEPT ![x] = @ + 1] \in [S -> Nat]
  <1>1. x \in S => f[x] + 1 \in Nat
    OBVIOUS
  <1> QED BY <1>1, ExceptIs

LEMMA MoreItems ==
    ASSUME TypeOK, NEW n \in Nat, items' \in Seq(ItemType), Len(items') = Len(items) + n,
           UNCHANGED <<heads, receivedTo, rNext>>, ackedTo' \in 0 .. Len(items)
    PROVE  /\ items' \in Seq([contract : 0 .. MaxContracts, bytes : Sizes \cup {0},
                              setContract : BOOLEAN, head : BOOLEAN, hasContractFrame : BOOLEAN])
           /\ ackedTo' \in 0 .. Len(items') /\ receivedTo' \in 0 .. Len(items')
           /\ heads' \subseteq 1 .. Len(items') /\ rNext' \in 1 .. Len(items') + 1
  <1>1. /\ Len(items) \in Nat /\ receivedTo \in 0 .. Len(items) /\ ackedTo \in 0 .. Len(items)
        /\ heads \subseteq 1 .. Len(items) /\ rNext \in 1 .. Len(items) + 1
    BY ItemsAre DEF TypeOK
  <1>2. 1 .. Len(items) \subseteq 1 .. Len(items')
    BY <1>1
  <1>3. heads' \subseteq 1 .. Len(items')
    BY <1>1, <1>2
  <1>4. /\ ackedTo' \in 0 .. Len(items') /\ receivedTo' \in 0 .. Len(items')
        /\ rNext' \in 1 .. Len(items') + 1
    BY <1>1
  <1> QED BY <1>3, <1>4 DEF ItemType

LEMMA SendTypes ==
    ASSUME TypeOK, NEW b \in Sizes, SendsFrame(b) \/ SendsNack(b), setting' = setting
    PROVE  TypeOK'
  <1>1. /\ UNCHANGED <<sOpen, noContract, taken, granted, sendContract, contractAcked,
                       openSend, sClosed, ackedTo, heads>>
        /\ UNCHANGED <<rNext, receiveContract, openReceive, rAcked, receivedTo, rClosed, gen>>
        /\ SendNoContract \/ SendFits(sendContract, b)
    BY DEF SendsFrame, SendsNack, SendBase, rVars
  <1>2. ackedTo' \in 0 .. Len(items) /\ b \in Nat
    BY <1>1, Bounds DEF TypeOK
  <1>3. CASE SendsFrame(b)
    <2>1. items' \in Seq(ItemType) /\ Len(items') = Len(items) + 1
      BY <1>3, SendsFrameItems
    <2>2. UNCHANGED <<sAcked, badAccounting, nackNet, nacks>> /\ sUnacked' = Debited(b)
      BY <1>3 DEF SendsFrame
    <2>3. sUnacked' \in [Contracts -> Nat]
      BY <1>1, <1>2, <2>2, DebitedIs
    <2>4. /\ items' \in Seq([contract : 0 .. MaxContracts, bytes : Sizes \cup {0},
                              setContract : BOOLEAN, head : BOOLEAN, hasContractFrame : BOOLEAN])
          /\ ackedTo' \in 0 .. Len(items') /\ receivedTo' \in 0 .. Len(items')
          /\ heads' \subseteq 1 .. Len(items') /\ rNext' \in 1 .. Len(items') + 1
      BY <1>1, <1>2, <2>1, MoreItems
    <2> QED BY <1>1, <2>2, <2>3, <2>4 DEF TypeOK
  <1>4. CASE SendsNack(b)
    <2> DEFINE m == [id |-> nacks, contract |-> sendContract, bytes |-> b]
    <2>1. /\ nacks < MaxNacks /\ nacks' = nacks + 1 /\ items' = items
          /\ sAcked' \in [Contracts -> Nat] /\ sUnacked' \in [Contracts -> Nat]
          /\ badAccounting' \in BOOLEAN
          /\ m \in [id : Nat, contract : 0 .. MaxContracts, bytes : Sizes]
          /\ nackNet' = nackNet \/ nackNet' = nackNet \cup {m}
      BY <1>4, SendsNackIs
    <2>2. /\ nacks' \in 0 .. MaxNacks
          /\ nackNet' \subseteq [id : Nat, contract : 0 .. MaxContracts, bytes : Sizes]
      <3> HIDE DEF m
      <3>1. /\ nacks \in 0 .. MaxNacks /\ MaxNacks \in Nat
            /\ nackNet \subseteq [id : Nat, contract : 0 .. MaxContracts, bytes : Sizes]
        BY Bounds DEF TypeOK
      <3> QED BY <2>1, <3>1
    <2> QED BY <1>1, <2>1, <2>2 DEF TypeOK
  <1> QED BY <1>3, <1>4

LEMMA SendOnNewContractTypes ==
    ASSUME TypeOK, NEW b \in Sizes, NEW t \in TransferByteCounts, SendOnNewContract(b, t),
           setting' = setting
    PROVE  TypeOK'
  <1> DEFINE c == taken + 1
  <1>1. /\ c \in Contracts /\ items' \in Seq(ItemType) /\ Len(items') = Len(items) + 2
    BY NewContractItems
  <1>2. /\ UNCHANGED <<sOpen, noContract, sAcked, ackedTo, heads, nackNet, nacks, badAccounting>>
        /\ UNCHANGED <<rNext, receiveContract, openReceive, rAcked, receivedTo, rClosed, gen>>
        /\ contractAcked' = FALSE /\ taken' = c /\ sendContract' = c
        /\ granted' = [granted EXCEPT ![c] = t]
        /\ sUnacked' = [sUnacked EXCEPT ![c] = DebitOfNew(b)]
        /\ openSend' \subseteq openSend \cup {c}
    BY DEF SendOnNewContract, rVars
  <1>3. sClosed' = sClosed \/ sClosed' = [sClosed EXCEPT ![sendContract] = @ + 1]
    BY DEF SendOnNewContract
  <1>4. t \in Nat /\ b \in Nat /\ DebitOfNew(b) \in Nat
    <2>1. t \in Nat /\ b \in Nat
      BY Bounds DEF TypeOK
    <2>2. Effective(0) \in Nat /\ Effective(b) \in Nat
      BY <2>1, EffectiveNat
    <2> QED BY <2>1, <2>2 DEF DebitOfNew
  <1>5. c \in 0 .. MaxContracts
    BY <1>1, InContracts
  <1>6. /\ items' \in Seq([contract : 0 .. MaxContracts, bytes : Sizes \cup {0},
                              setContract : BOOLEAN, head : BOOLEAN, hasContractFrame : BOOLEAN])
        /\ ackedTo' \in 0 .. Len(items') /\ receivedTo' \in 0 .. Len(items')
        /\ heads' \subseteq 1 .. Len(items') /\ rNext' \in 1 .. Len(items') + 1
    <2>1. ackedTo' \in 0 .. Len(items)
      BY <1>2 DEF TypeOK
    <2> QED BY <1>1, <1>2, <2>1, MoreItems
  <1> HIDE DEF c
  <1>7. /\ granted' \in [Contracts -> Nat] /\ sUnacked' \in [Contracts -> Nat]
        /\ sClosed' \in [Contracts -> Nat] /\ openSend' \subseteq Contracts
    <2>1. /\ granted \in [Contracts -> Nat] /\ sUnacked \in [Contracts -> Nat]
          /\ sClosed \in [Contracts -> Nat] /\ openSend \subseteq Contracts
      BY DEF TypeOK
    <2>2. [sClosed EXCEPT ![sendContract] = @ + 1] \in [Contracts -> Nat]
      BY <2>1, IncrementIs
    <2> QED BY <1>1, <1>2, <1>3, <1>4, <2>1, <2>2, ExceptIs
  <1> QED BY <1>2, <1>5, <1>6, <1>7 DEF TypeOK

LEMMA ContractTooSmallTypes ==
    ASSUME TypeOK, NEW b \in Sizes, NEW t \in TransferByteCounts, ContractTooSmall(b, t),
           setting' = setting
    PROVE  TypeOK'
  <1>1. /\ taken < MaxContracts /\ taken' = taken + 1
        /\ granted' = [granted EXCEPT ![taken + 1] = t]
        /\ sClosed' = [sClosed EXCEPT ![taken + 1] = @ + 1]
        /\ UNCHANGED <<sOpen, noContract, sendContract, contractAcked, openSend, sAcked,
                   sUnacked, items, ackedTo, heads, nackNet, nacks, badAccounting>>
        /\ UNCHANGED <<rNext, receiveContract, openReceive, rAcked, receivedTo, rClosed, gen>>
    BY DEF ContractTooSmall, rVars
  <1>2. t \in Nat /\ MaxContracts \in Nat
    BY Bounds DEF TypeOK
  <1>3. /\ taken' \in 0 .. MaxContracts
        /\ granted' \in [Contracts -> Nat] /\ sClosed' \in [Contracts -> Nat]
    <2>1. /\ granted \in [Contracts -> Nat] /\ sClosed \in [Contracts -> Nat]
          /\ taken \in 0 .. MaxContracts
      BY DEF TypeOK
    <2>2. [sClosed EXCEPT ![taken + 1] = @ + 1] \in [Contracts -> Nat]
      BY <2>1, IncrementIs
    <2>3. [granted EXCEPT ![taken + 1] = t] \in [Contracts -> Nat]
      BY <1>2, <2>1
    <2>4. taken' \in 0 .. MaxContracts
      BY <1>1, <1>2, <2>1
    <2> QED BY <1>1, <2>2, <2>3, <2>4
  <1> QED BY <1>1, <1>3 DEF TypeOK

LEMMA AckNextTypes ==
    ASSUME TypeOK, AckNext, setting' = setting
    PROVE  TypeOK'
  <1> DEFINE i == items[ackedTo + 1]
             c == i.contract
  <1>1. /\ ackedTo < receivedTo /\ ackedTo' = ackedTo + 1
        /\ AckBytes(c, i.bytes, sUnacked)
        /\ openSend' \subseteq openSend
        /\ sClosed' = sClosed \/ sClosed' = [sClosed EXCEPT ![c] = @ + 1]
        /\ contractAcked' = (contractAcked \/ (i.setContract /\ c = sendContract))
        /\ UNCHANGED <<sOpen, noContract, taken, granted, sendContract, items, heads,
                       nackNet, nacks>>
        /\ UNCHANGED <<rNext, receiveContract, openReceive, rAcked, receivedTo, rClosed, gen>>
    BY DEF AckNext, rVars
  <1>2. ackedTo + 1 \in 1 .. Len(items) /\ ackedTo' \in 0 .. Len(items)
    BY <1>1, ItemsAre DEF TypeOK
  <1>3. /\ c \in 0 .. MaxContracts /\ i.bytes \in Nat /\ i.setContract \in BOOLEAN
    BY <1>2, ItemsAre DEF ItemType
  <1> HIDE DEF i, c
  <1>4. /\ sAcked' \in [Contracts -> Nat] /\ sUnacked' \in [Contracts -> Nat]
        /\ badAccounting' \in BOOLEAN
    BY <1>1, <1>3, AckBytesIs DEF TypeOK
  <1>5. sClosed' \in [Contracts -> Nat] /\ openSend' \subseteq Contracts
        /\ contractAcked' \in BOOLEAN
    <2>1. /\ sClosed \in [Contracts -> Nat] /\ openSend \subseteq Contracts
      BY DEF TypeOK
    <2>2. [sClosed EXCEPT ![c] = @ + 1] \in [Contracts -> Nat]
      BY <2>1, IncrementIs
    <2>3. contractAcked' \in BOOLEAN
      BY <1>1, Zenon
    <2> QED BY <1>1, <2>1, <2>2, <2>3
  <1> QED BY <1>1, <1>2, <1>4, <1>5 DEF TypeOK

LEMMA SenderExitTypes ==
    ASSUME TypeOK, SenderExit, setting' = setting
    PROVE  TypeOK'
  <1>1. /\ sOpen' = FALSE /\ openSend' \subseteq openSend
        /\ sClosed' = [c \in Contracts |-> sClosed[c] + IF c \in openSend THEN 1 ELSE 0]
        /\ UNCHANGED <<noContract, taken, granted, sendContract, contractAcked, sAcked,
                   sUnacked, items, ackedTo, heads, nackNet, nacks, badAccounting>>
        /\ UNCHANGED <<rNext, receiveContract, openReceive, rAcked, receivedTo, rClosed, gen>>
    BY DEF SenderExit, ClosedAtExit, rVars
  <1>2. sClosed' \in [Contracts -> Nat]
    BY <1>1 DEF TypeOK
  <1> QED BY <1>1, <1>2 DEF TypeOK

\* SetHead, LoseNack and AddNoContractPeer.
LEMMA SmallTypes ==
    ASSUME TypeOK, setting' = setting,
           SetHead \/ LoseNack \/ \E side \in {"s", "r"} : AddNoContractPeer(side)
    PROVE  TypeOK'
  <1>1. CASE SetHead
    <2>1. /\ ackedTo < Len(items) /\ heads' = heads \cup {ackedTo + 1}
          /\ UNCHANGED <<sOpen, noContract, taken, granted, sendContract, contractAcked,
                         openSend, sAcked, sUnacked, sClosed, items, ackedTo, nacks,
                         badAccounting, nackNet>>
          /\ UNCHANGED <<rNext, receiveContract, openReceive, rAcked, receivedTo, rClosed, gen>>
      BY <1>1 DEF SetHead, rVars
    <2>2. heads' \subseteq 1 .. Len(items)
      BY <2>1, ItemsAre DEF TypeOK
    <2> QED BY <2>1, <2>2 DEF TypeOK
  <1>2. CASE LoseNack
    BY <1>2 DEF LoseNack, TypeOK, sVars, rVars
  <1>3. CASE \E side \in {"s", "r"} : AddNoContractPeer(side)
    BY <1>3 DEF AddNoContractPeer, TypeOK, rVars
  <1> QED BY <1>1, <1>2, <1>3

LEMMA ReceiveNextIs ==
    ASSUME TypeOK, StreamInv, RunInv, OpenBound, NEW i \in 1 .. Len(items), NEW with \in BOOLEAN,
           ReceiveNext(i, with)
    PROVE  \E r :
           /\ r = AfterFrame(i, with)
           /\ r.open \in Seq(Contracts) /\ Len(r.open) <= setting.maxOpenReceiveContract
           /\ r.current \in 0 .. MaxContracts
           /\ r.current # 0 => Contains(r.open, r.current)
           /\ receiveContract' = r.current /\ openReceive' = r.open
           /\ noContract = {} => r.current = items[i].contract
           /\ rAcked' \in [Contracts -> Nat] /\ rClosed' \in [Contracts -> Nat]
           /\ \A k \in Contracts :
                 /\ rAcked'[k] <= rAcked[k] + IF k = r.current THEN Effective(items[i].bytes) ELSE 0
                 /\ rClosed'[k] = rClosed[k] + IF k \in Evicted(openReceive, r.open) THEN 1 ELSE 0
           /\ AtFront(i) /\ rNext' = i + 1
           /\ receivedTo' = IF receivedTo < i THEN i ELSE receivedTo
           /\ UNCHANGED <<sOpen, noContract, taken, granted, sendContract, contractAcked,
                          openSend, sAcked, sUnacked, sClosed, items, ackedTo, heads, nacks,
                          badAccounting, nackNet, gen>>
  <1>1. PICK r : r = AfterFrame(i, with)
    OBVIOUS
  <1> DEFINE e == Effective(items[i].bytes)
             fits == ReceiveFits(r.current, items[i].bytes, r.acked)
  <1>2. /\ AtFront(i) /\ with \in Encodings(i)
        /\ receiveContract' = r.current /\ openReceive' = r.open
        /\ rAcked' = IF fits THEN [r.acked EXCEPT ![r.current] = @ + e] ELSE r.acked
        /\ rClosed' = [c \in Contracts |->
                             rClosed[c] + IF c \in Evicted(openReceive, r.open) THEN 1 ELSE 0]
        /\ rNext' = i + 1
        /\ receivedTo' = IF receivedTo < i THEN i ELSE receivedTo
        /\ UNCHANGED <<sOpen, noContract, taken, granted, sendContract, contractAcked,
                          openSend, sAcked, sUnacked, sClosed, items, ackedTo, heads, nacks,
                          badAccounting, nackNet, gen>>
    BY <1>1 DEF ReceiveNext, sVars
  <1>3. /\ with => items[i].contract # 0
        /\ noContract = {} => items[i].contract = IF with THEN items[i].contract ELSE receiveContract
    BY <1>2, EncodingsAre
  <1>4. /\ r.open \in Seq(Contracts) /\ Len(r.open) <= setting.maxOpenReceiveContract
        /\ r.current \in 0 .. MaxContracts
        /\ r.current # 0 => Contains(r.open, r.current)
        /\ r.acked \in [Contracts -> Nat]
        /\ \A k \in Contracts : r.acked[k] <= rAcked[k]
        /\ r.current = IF with THEN items[i].contract ELSE receiveContract
    BY <1>1, <1>3, AfterFrameIs
  <1>5. e \in Nat /\ rAcked \in [Contracts -> Nat] /\ rClosed \in [Contracts -> Nat]
    BY ItemsAre DEF TypeOK
  <1>6. fits => r.current \in Contracts
    BY <1>4, InContracts DEF ReceiveFits
  <1> HIDE DEF e, fits
  <1>7. /\ rAcked' \in [Contracts -> Nat]
        /\ \A k \in Contracts : rAcked'[k] <= rAcked[k] + IF k = r.current THEN e ELSE 0
    <2>1. CASE fits
      <3>1. rAcked' = [r.acked EXCEPT ![r.current] = @ + e]
        BY <1>2, <2>1
      <3> QED BY <1>4, <1>5, <1>6, <2>1, <3>1
    <2>2. CASE ~fits
      <3>1. rAcked' = r.acked
        BY <1>2, <2>2
      <3> QED BY <1>4, <1>5, <3>1
    <2> QED BY <2>1, <2>2
  <1>8. /\ rClosed' \in [Contracts -> Nat]
        /\ \A k \in Contracts :
              rClosed'[k] = rClosed[k] + IF k \in Evicted(openReceive, r.open) THEN 1 ELSE 0
    BY <1>2, <1>5
  <1>9. noContract = {} => r.current = items[i].contract
    BY <1>3, <1>4
  <1> QED BY <1>1, <1>2, <1>4, <1>7, <1>8, <1>9 DEF e

LEMMA ReceiveNextTypes ==
    ASSUME TypeOK, StreamInv, RunInv, OpenBound, NEW i \in 1 .. Len(items), NEW with \in BOOLEAN,
           ReceiveNext(i, with), setting' = setting
    PROVE  TypeOK'
  <1>1. /\ rAcked' \in [Contracts -> Nat] /\ rClosed' \in [Contracts -> Nat]
        /\ openReceive' \in Seq(Contracts) /\ receiveContract' \in 0 .. MaxContracts
        /\ rNext' = i + 1
        /\ receivedTo' = IF receivedTo < i THEN i ELSE receivedTo
        /\ UNCHANGED <<sOpen, noContract, taken, granted, sendContract, contractAcked,
                          openSend, sAcked, sUnacked, sClosed, items, ackedTo, heads, nacks,
                          badAccounting, nackNet, gen>>
    BY ReceiveNextIs
  <1>2. receivedTo' \in 0 .. Len(items) /\ rNext' \in 1 .. Len(items) + 1
    <2>1. receivedTo \in 0 .. Len(items) /\ Len(items) \in Nat
      BY ItemsAre DEF TypeOK
    <2> QED BY <1>1, <2>1
  <1> QED BY <1>1, <1>2 DEF TypeOK

\* A receive sequence ends, by itself or at a pack it has no contract for.
LEMMA StartsOverIs ==
    ASSUME TypeOK,
           ReceiverExit \/ \E i \in 1 .. Len(items), with \in BOOLEAN : RejectNext(i, with)
    PROVE  /\ gen' = gen + 1 /\ rNext' = 1 /\ receiveContract' = 0 /\ openReceive' = <<>>
           /\ rAcked' = Zero /\ rClosed' \in [Contracts -> Nat]
           /\ UNCHANGED <<sOpen, noContract, taken, granted, sendContract, contractAcked,
                          openSend, sAcked, sUnacked, sClosed, items, ackedTo, heads, nacks,
                          badAccounting, nackNet, receivedTo>>
  <1>1. \E current, opened, evicted : StartOver(current, opened, evicted)
    BY DEF ReceiverExit, RejectNext
  <1>2. PICK current, opened, evicted : StartOver(current, opened, evicted)
    BY <1>1
  <1>3. rClosed \in [Contracts -> Nat]
    BY DEF TypeOK
  <1>4. rClosed' \in [Contracts -> Nat]
    BY <1>2, <1>3 DEF StartOver
  <1> QED BY <1>2, <1>4 DEF StartOver, sVars

LEMMA StartsOverTypes ==
    ASSUME TypeOK, setting' = setting,
           ReceiverExit \/ \E i \in 1 .. Len(items), with \in BOOLEAN : RejectNext(i, with)
    PROVE  TypeOK'
  <1>1. /\ gen' = gen + 1 /\ rNext' = 1 /\ receiveContract' = 0 /\ openReceive' = <<>>
        /\ rAcked' = Zero /\ rClosed' \in [Contracts -> Nat]
        /\ UNCHANGED <<sOpen, noContract, taken, granted, sendContract, contractAcked,
                          openSend, sAcked, sUnacked, sClosed, items, ackedTo, heads, nacks,
                          badAccounting, nackNet, receivedTo>>
    BY StartsOverIs
  <1>2. /\ rNext' \in 1 .. Len(items) + 1 /\ receiveContract' \in 0 .. MaxContracts
        /\ openReceive' \in Seq(Contracts) /\ rAcked' \in [Contracts -> Nat] /\ gen' \in Nat
    BY <1>1, ItemsAre, Bounds DEF TypeOK, Zero
  <1> QED BY <1>1, <1>2 DEF TypeOK

LEMMA ReceiveNackIs ==
    ASSUME TypeOK, NEW m \in nackNet, ReceiveNack(m)
    PROVE  /\ nackNet' = nackNet \ {m} /\ rAcked' \in [Contracts -> Nat]
           /\ badAccounting' \in BOOLEAN
           /\ ~ReceiveNoContract => ~badAccounting'
           /\ ~badAccounting
           /\ \A k \in Contracts : rAcked'[k] <=
                 rAcked[k] + IF m.contract = k \/ (m.contract = 0 /\ receiveContract = k)
                             THEN Effective(m.bytes) ELSE 0
           /\ UNCHANGED <<sOpen, noContract, taken, granted, sendContract, contractAcked,
                          openSend, sAcked, sUnacked, sClosed, items, ackedTo, heads, nacks,
                          rNext, receiveContract, openReceive, receivedTo, rClosed, gen>>
  <1> DEFINE c == IF m.contract = 0 THEN receiveContract ELSE m.contract
             known == m.contract = 0 \/ Contains(openReceive, m.contract)
             fits == known /\ ReceiveFits(c, m.bytes, rAcked)
             e == Effective(m.bytes)
  <1>1. /\ ~badAccounting /\ nackNet' = nackNet \ {m}
        /\ rAcked' = IF fits THEN [rAcked EXCEPT ![c] = @ + e] ELSE rAcked
        /\ badAccounting' = (known /\ ~fits /\ ReceiveNoContract /\ m.contract # 0 /\ e > 0)
        /\ UNCHANGED <<sOpen, noContract, taken, granted, sendContract, contractAcked,
                          openSend, sAcked, sUnacked, sClosed, items, ackedTo, heads, nacks,
                          rNext, receiveContract, openReceive, receivedTo, rClosed, gen>>
    BY DEF ReceiveNack
  <1>2. /\ m.contract \in 0 .. MaxContracts /\ m.bytes \in Nat /\ rAcked \in [Contracts -> Nat]
        /\ receiveContract \in 0 .. MaxContracts
    BY Bounds DEF TypeOK
  <1>3. e \in Nat /\ c \in 0 .. MaxContracts
    BY <1>2, EffectiveNat
  <1>4. fits => c \in Contracts
    BY <1>3, InContracts DEF ReceiveFits
  <1>5. badAccounting' \in BOOLEAN /\ (~ReceiveNoContract => ~badAccounting')
    BY <1>1
  <1>6. \A k \in Contracts : k = c => m.contract = k \/ (m.contract = 0 /\ receiveContract = k)
    OBVIOUS
  <1> HIDE DEF c, fits, known, e
  <1>7. /\ rAcked' \in [Contracts -> Nat]
        /\ \A k \in Contracts : rAcked'[k] <= rAcked[k] + IF k = c THEN e ELSE 0
    BY <1>1, <1>2, <1>3, <1>4
  <1>8. \A k \in Contracts : rAcked'[k] <=
                 rAcked[k] + IF m.contract = k \/ (m.contract = 0 /\ receiveContract = k)
                             THEN e ELSE 0
    BY <1>2, <1>3, <1>6, <1>7
  <1> QED BY <1>1, <1>5, <1>7, <1>8 DEF e

LEMMA ReceiveNackTypes ==
    ASSUME TypeOK, NEW m \in nackNet, ReceiveNack(m), setting' = setting
    PROVE  TypeOK'
  <1>1. /\ nackNet' \subseteq nackNet /\ rAcked' \in [Contracts -> Nat]
        /\ badAccounting' \in BOOLEAN
        /\ UNCHANGED <<sOpen, noContract, taken, granted, sendContract, contractAcked,
                          openSend, sAcked, sUnacked, sClosed, items, ackedTo, heads, nacks,
                          rNext, receiveContract, openReceive, receivedTo, rClosed, gen>>
    BY ReceiveNackIs
  <1> QED BY <1>1 DEF TypeOK

-----------------------------------------------------------------------------
(* The sender's contracts.                                                 *)

LEMMA SenderNats ==
    ASSUME TypeOK
    PROVE  /\ taken \in Nat /\ taken <= MaxContracts /\ MaxContracts \in Nat
           /\ sendContract \in Nat /\ Contracts = 1 .. MaxContracts
           /\ \A c \in Contracts : /\ sAcked[c] \in Nat /\ sUnacked[c] \in Nat
                                   /\ sClosed[c] \in Nat /\ granted[c] \in Nat
                                   /\ SenderLimit(c) \in Nat
           /\ openSend \subseteq Contracts
           /\ granted \in [Contracts -> Nat] /\ sClosed \in [Contracts -> Nat]
           /\ sAcked \in [Contracts -> Nat] /\ sUnacked \in [Contracts -> Nat]
  <1>1. /\ taken \in 0 .. MaxContracts /\ MaxContracts \in Nat /\ sendContract \in 0 .. MaxContracts
    BY Bounds DEF TypeOK
  <1>2. \A c \in Contracts : /\ sAcked[c] \in Nat /\ sUnacked[c] \in Nat
                             /\ sClosed[c] \in Nat /\ granted[c] \in Nat
    BY DEF TypeOK
  <1>3. \A c \in Contracts : SenderLimit(c) \in Nat
    <2>1. \A n \in Nat : n \div 2 \in Nat
      OBVIOUS
    <2> QED BY <1>2, <2>1 DEF SenderLimit
  <1>4. /\ openSend \subseteq Contracts
        /\ granted \in [Contracts -> Nat] /\ sClosed \in [Contracts -> Nat]
        /\ sAcked \in [Contracts -> Nat] /\ sUnacked \in [Contracts -> Nat]
    BY DEF TypeOK
  <1>5. Contracts = 1 .. MaxContracts
    BY DEF Contracts
  <1>6. taken \in Nat /\ taken <= MaxContracts /\ MaxContracts \in Nat /\ sendContract \in Nat
    BY <1>1
  <1> QED BY <1>2, <1>3, <1>4, <1>5, <1>6, Zenon

LEMMA SendSender ==
    ASSUME TypeOK, SenderInv, NEW b \in Sizes, SendsFrame(b) \/ SendsNack(b)
    PROVE  SenderInv'
  <1>1. /\ UNCHANGED <<sOpen, taken, granted, sendContract, openSend, sClosed, noContract>>
        /\ sOpen
        /\ SendNoContract \/ SendFits(sendContract, b)
    BY DEF SendsFrame, SendsNack, SendBase
  <1>2. b \in Nat /\ Effective(b) \in Nat
    BY Bounds, EffectiveNat DEF TypeOK
  <1>3. /\ Debited(b) \in [Contracts -> Nat]
        /\ \A c \in Contracts :
              Debited(b)[c] = IF ~SendNoContract /\ c = sendContract
                              THEN sUnacked[c] + Effective(b) ELSE sUnacked[c]
        /\ ~SendNoContract => sendContract \in Contracts
    BY <1>1, <1>2, DebitedIs
  <1>4. ~SendNoContract =>
            sAcked[sendContract] + sUnacked[sendContract] + Effective(b) <= SenderLimit(sendContract)
    BY <1>1 DEF SendFits
  <1>5. /\ \A c \in Contracts : sAcked'[c] + sUnacked'[c] = sAcked[c] + Debited(b)[c]
        /\ \A c \in Contracts : c # sendContract => /\ sAcked'[c] = sAcked[c]
                                                    /\ sUnacked'[c] = sUnacked[c]
        /\ sAcked' \in [Contracts -> Nat] /\ sUnacked' \in [Contracts -> Nat]
    <2>1. CASE SendsFrame(b)
      <3>1. sAcked' = sAcked /\ sUnacked' = Debited(b)
        BY <2>1 DEF SendsFrame
      <3> QED BY <1>3, <3>1 DEF TypeOK
    <2>2. CASE SendsNack(b)
      <3>1. /\ \A c \in Contracts : sAcked'[c] + sUnacked'[c] = sAcked[c] + Debited(b)[c]
            /\ sAcked' \in [Contracts -> Nat] /\ sUnacked' \in [Contracts -> Nat]
            /\ \/ AckBytes(sendContract, b, Debited(b))
               \/ sUnacked' = Debited(b) /\ sAcked' = sAcked
        BY <2>2, SendsNackIs
      <3>2. sendContract \in 0 .. MaxContracts
        BY DEF TypeOK
      <3>3. CASE AckBytes(sendContract, b, Debited(b))
        <4>1. \A c \in Contracts : c # sendContract => /\ sAcked'[c] = sAcked[c]
                                                       /\ sUnacked'[c] = Debited(b)[c]
          BY <1>2, <1>3, <3>2, <3>3, AckBytesIs
        <4> QED BY <1>3, <3>1, <4>1
      <3>4. CASE sUnacked' = Debited(b) /\ sAcked' = sAcked
        BY <1>3, <3>1, <3>4
      <3> QED BY <3>1, <3>3, <3>4
    <2> QED BY <2>1, <2>2
  <1>6. \A i \in DOMAIN items' : items'[i].contract <= taken'
    <2>1. CASE SendsFrame(b)
      <3>1. /\ DOMAIN items' = 1 .. Len(items) + 1
            /\ \A i \in 1 .. Len(items) : items'[i] = items[i]
            /\ items'[Len(items) + 1].contract = sendContract
        BY <2>1, SendsFrameItems
      <3> QED BY <1>1, <3>1, ItemsAre DEF SenderInv
    <2>2. CASE SendsNack(b)
      <3>1. items' = items
        BY <2>2, SendsNackIs
      <3> QED BY <1>1, <3>1 DEF SenderInv
    <2> QED BY <2>1, <2>2
  <1>7. ASSUME NEW c \in Contracts PROVE ContractOK(c)'
    <2>1. /\ ContractOK(c) /\ c \in Nat /\ sendContract <= taken
          /\ sAcked[c] \in Nat /\ sUnacked[c] \in Nat /\ SenderLimit(c) \in Nat
          /\ taken \in Nat /\ sendContract \in Nat
          /\ sAcked'[c] \in Nat /\ sUnacked'[c] \in Nat
      BY <1>5, SenderNats DEF SenderInv
    <2>2. SenderLimit(c)' = SenderLimit(c)
      BY <1>1 DEF SenderLimit
    <2>3. sAcked'[c] + sUnacked'[c] <= SenderLimit(c)
      BY <1>2, <1>3, <1>4, <1>5, <2>1 DEF ContractOK
    <2>4. taken < c => c # sendContract
      BY <2>1
    <2> QED BY <1>1, <1>5, <2>1, <2>2, <2>3, <2>4 DEF ContractOK
  <1> QED BY <1>1, <1>6, <1>7 DEF SenderInv

LEMMA SendOnNewContractSender ==
    ASSUME TypeOK, SenderInv, NEW b \in Sizes, NEW t \in TransferByteCounts,
           SendOnNewContract(b, t), setting' = setting
    PROVE  SenderInv'
  <1> DEFINE c == taken + 1
             old == sendContract
  <1>1. /\ c \in Contracts
        /\ DOMAIN items' = 1 .. Len(items) + 2
        /\ \A i \in 1 .. Len(items) : items'[i] = items[i]
        /\ items'[Len(items) + 1].contract = c /\ items'[Len(items) + 2].contract = c
    BY NewContractItems
  <1>2. /\ sOpen /\ UNCHANGED <<sOpen, sAcked>>
        /\ taken' = c /\ sendContract' = c /\ DebitOfNew(b) <= t \div 2
        /\ granted' = [granted EXCEPT ![c] = t]
        /\ sUnacked' = [sUnacked EXCEPT ![c] = DebitOfNew(b)]
        /\ openSend' = (openSend \cup {c}) \ IF ClosesWhenReplaced(old) THEN {old} ELSE {}
        /\ sClosed' = IF ClosesWhenReplaced(old) THEN [sClosed EXCEPT ![old] = @ + 1]
                                                 ELSE sClosed
    BY DEF SendOnNewContract
  <1>3. TypeOK'
    BY SendOnNewContractTypes
  <1>4. /\ taken \in Nat /\ old \in Nat /\ old <= taken /\ openSend \subseteq 1 .. taken
        /\ sOpen => old \in openSend \cup {0}
    BY SenderNats DEF SenderInv
  <1>5. c # old
    BY <1>4
  <1>6. openSend' \subseteq 1 .. taken' /\ sendContract' \in openSend'
    BY <1>2, <1>4, <1>5
  <1>7. \A i \in DOMAIN items' : items'[i].contract <= taken'
    <2>1. \A i \in 1 .. Len(items) : items[i].contract \in Nat /\ items[i].contract <= taken
      BY ItemsAre DEF SenderInv
    <2> QED BY <1>1, <1>2, <1>4, <2>1, ItemsAre
  <1>8. ASSUME NEW k \in Contracts PROVE ContractOK(k)'
    <2>1. /\ ContractOK(k) /\ k \in Nat
          /\ sAcked[k] \in Nat /\ sUnacked[k] \in Nat /\ sClosed[k] \in Nat
          /\ granted \in [Contracts -> Nat] /\ sUnacked \in [Contracts -> Nat]
          /\ sClosed \in [Contracts -> Nat]
      BY SenderNats DEF SenderInv
    <2>2. CASE k = c
      <3>1. /\ sUnacked'[k] = DebitOfNew(b) /\ granted'[k] = t /\ sAcked'[k] = 0
            /\ sClosed'[k] = sClosed[k]
        BY <1>1, <1>2, <1>4, <1>5, <2>1, <2>2 DEF ContractOK
      <3>2. sUnacked'[k] \in Nat
        BY <1>3, SenderNats DEF TypeOK
      <3>3. SenderLimit(k)' = t \div 2
        BY <3>1 DEF SenderLimit
      <3>4. k \in openSend' /\ sendContract' = k /\ taken' = k /\ ~(k <= taken)
        BY <1>2, <1>4, <1>5, <2>2
      <3>5. sClosed'[k] = 0
        BY <2>1, <3>1, <3>4 DEF ContractOK
      <3>6. sAcked'[k] + sUnacked'[k] <= SenderLimit(k)'
        BY <1>2, <3>1, <3>2, <3>3
      <3> QED BY <2>1, <3>4, <3>5, <3>6 DEF ContractOK
    <2>3. CASE k # c
      <3>1. /\ sUnacked'[k] = sUnacked[k] /\ granted'[k] = granted[k] /\ sAcked'[k] = sAcked[k]
        BY <1>1, <1>2, <2>1, <2>3
      <3>2. SenderLimit(k)' = SenderLimit(k)
        BY <3>1 DEF SenderLimit
      <3>3. taken < k <=> taken' < k
        BY <1>2, <1>4, <2>1, <2>3
      <3>4. k <= taken <=> k <= taken'
        BY <1>2, <1>4, <2>1, <2>3
      <3>5. CASE k # old
        <4>1. sClosed'[k] = sClosed[k] /\ (k \in openSend' <=> k \in openSend)
          BY <1>2, <2>1, <2>3, <3>5
        <4> QED BY <2>1, <3>1, <3>2, <3>3, <3>4, <3>5, <4>1 DEF ContractOK
      <3>6. CASE k = old
        <4>1. k \in openSend /\ k <= taken
          <5>1. k # 0
            BY InContracts
          <5> QED BY <1>2, <1>4, <3>6, <5>1
        <4>2. sClosed[k] = 0
          BY <2>1, <4>1 DEF ContractOK
        <4>3. CASE ClosesWhenReplaced(old)
          <5>1. sClosed'[k] = 1 /\ k \notin openSend'
            BY <1>2, <2>1, <3>6, <4>2, <4>3
          <5> QED BY <2>1, <3>1, <3>2, <3>3, <3>4, <4>1, <5>1 DEF ContractOK
        <4>4. CASE ~ClosesWhenReplaced(old)
          <5>1. sClosed'[k] = 0 /\ k \in openSend'
            BY <1>2, <3>6, <4>1, <4>2, <4>4
          <5>2. sUnacked[k] > 0
            <6>1. k # 0
              BY InContracts
            <6> QED BY <2>1, <3>6, <4>4, <6>1 DEF ClosesWhenReplaced
          <5> QED BY <2>1, <3>1, <3>2, <3>3, <3>4, <4>1, <5>1, <5>2 DEF ContractOK
        <4> QED BY <4>3, <4>4
      <3> QED BY <3>5, <3>6
    <2> QED BY <2>2, <2>3
  <1>9. sendContract' <= taken' /\ sOpen'
    BY <1>2, <1>4
  <1> QED BY <1>6, <1>7, <1>8, <1>9 DEF SenderInv

LEMMA ContractTooSmallSender ==
    ASSUME TypeOK, SenderInv, NEW b \in Sizes, NEW t \in TransferByteCounts,
           ContractTooSmall(b, t)
    PROVE  SenderInv'
  <1> DEFINE c == taken + 1
  <1>1. /\ taken < MaxContracts /\ taken' = c
        /\ granted' = [granted EXCEPT ![c] = t]
        /\ sClosed' = [sClosed EXCEPT ![c] = @ + 1]
        /\ UNCHANGED <<sOpen, sendContract, openSend, sAcked, sUnacked, items>>
    BY DEF ContractTooSmall
  <1>2. /\ taken \in Nat /\ c \in Contracts /\ t \in Nat /\ sendContract \in Nat
        /\ openSend \subseteq 1 .. taken /\ sendContract <= taken
    <2>1. t \in Nat
      BY Bounds DEF TypeOK
    <2> QED BY <1>1, <2>1, SenderNats DEF SenderInv
  <1>3. \A i \in DOMAIN items' : items'[i].contract <= taken'
    BY <1>1, <1>2, ItemsAre DEF SenderInv
  <1>4. ASSUME NEW k \in Contracts PROVE ContractOK(k)'
    <2>1. /\ ContractOK(k) /\ k \in Nat
          /\ sAcked[k] \in Nat /\ sUnacked[k] \in Nat /\ sClosed[k] \in Nat
          /\ granted \in [Contracts -> Nat]
          /\ sClosed \in [Contracts -> Nat]
      BY SenderNats DEF SenderInv
    <2>2. CASE k = c
      <3>1. /\ granted'[k] = t /\ sAcked[k] = 0 /\ sUnacked[k] = 0 /\ sClosed[k] = 0
            /\ sClosed'[k] = 1 /\ k \notin openSend
        BY <1>1, <1>2, <2>1, <2>2 DEF ContractOK
      <3>2. SenderLimit(k)' \in Nat
        <4>1. \A n \in Nat : n \div 2 \in Nat
          OBVIOUS
        <4> QED BY <1>2, <3>1, <4>1 DEF SenderLimit
      <3> QED BY <1>1, <1>2, <2>2, <3>1, <3>2 DEF ContractOK
    <2>3. CASE k # c
      <3>1. granted'[k] = granted[k] /\ sClosed'[k] = sClosed[k]
        BY <1>1, <2>1, <2>3
      <3>2. SenderLimit(k)' = SenderLimit(k)
        BY <3>1 DEF SenderLimit
      <3>3. (taken < k <=> taken' < k) /\ (k <= taken <=> k <= taken')
        BY <1>1, <1>2, <2>1, <2>3
      <3> QED BY <1>1, <2>1, <3>1, <3>2, <3>3 DEF ContractOK
    <2> QED BY <2>2, <2>3
  <1> QED BY <1>1, <1>2, <1>3, <1>4 DEF SenderInv

LEMMA AckNextSender ==
    ASSUME TypeOK, SenderInv, AckNext, setting' = setting
    PROVE  SenderInv'
  <1> DEFINE i == items[ackedTo + 1]
             c == i.contract
  <1>1. /\ ackedTo < receivedTo
        /\ AckBytes(c, i.bytes, sUnacked)
        /\ openSend' = openSend \ IF ClosesOnAck(c) THEN {c} ELSE {}
        /\ sClosed' = IF ClosesOnAck(c) THEN [sClosed EXCEPT ![c] = @ + 1] ELSE sClosed
        /\ UNCHANGED <<sOpen, taken, granted, sendContract, items>>
    BY DEF AckNext
  <1>2. ackedTo + 1 \in 1 .. Len(items)
    BY <1>1, ItemsAre DEF TypeOK
  <1>3. c \in 0 .. MaxContracts /\ i.bytes \in Nat
    BY <1>2, ItemsAre
  <1>4. TypeOK'
    BY AckNextTypes
  <1> HIDE DEF i, c
  <1>5. \A k \in Contracts :
                 /\ sAcked'[k] + sUnacked'[k] = sAcked[k] + sUnacked[k]
                 /\ k # c \/ k \notin openSend =>
                       sAcked'[k] = sAcked[k] /\ sUnacked'[k] = sUnacked[k]
    <2>1. sUnacked \in [Contracts -> Nat]
      BY DEF TypeOK
    <2> QED BY <1>1, <1>3, <2>1, AckBytesIs
  <1>6. ASSUME NEW k \in Contracts PROVE ContractOK(k)'
    <2>1. /\ ContractOK(k) /\ k \in Nat /\ taken \in Nat /\ openSend \subseteq 1 .. taken
          /\ sAcked[k] \in Nat /\ sUnacked[k] \in Nat /\ sClosed[k] \in Nat
          /\ sClosed \in [Contracts -> Nat] /\ sUnacked'[k] \in Nat
      <3>1. sUnacked'[k] \in Nat
        BY <1>4 DEF TypeOK
      <3> QED BY <3>1, SenderNats DEF SenderInv
    <2>2. SenderLimit(k)' = SenderLimit(k)
      BY <1>1 DEF SenderLimit
    <2>3. CASE k = c /\ k \in openSend
      <3>1. taken < k => FALSE
        BY <2>1, <2>3
      <3>2. sClosed[k] = 0
        BY <2>1, <2>3 DEF ContractOK
      <3>3. CASE ClosesOnAck(c)
        <4>1. sClosed'[k] = 1 /\ k \notin openSend'
          BY <1>1, <2>1, <2>3, <3>2, <3>3
        <4>2. k <= taken'
          BY <1>1, <2>1, <2>3
        <4> QED BY <1>1, <1>5, <2>1, <2>2, <3>1, <4>1, <4>2 DEF ContractOK
      <3>4. CASE ~ClosesOnAck(c)
        <4>1. sClosed'[k] = 0 /\ k \in openSend'
          BY <1>1, <2>1, <2>3, <3>2, <3>4
        <4>2. k # sendContract => sUnacked'[k] > 0
          BY <2>1, <2>3, <3>4 DEF ClosesOnAck
        <4> QED BY <1>1, <1>5, <2>1, <2>2, <3>1, <4>1, <4>2 DEF ContractOK
      <3> QED BY <3>3, <3>4
    <2>4. CASE ~(k = c /\ k \in openSend)
      <3>1. sAcked'[k] = sAcked[k] /\ sUnacked'[k] = sUnacked[k]
        BY <1>5, <2>4
      <3>2. sClosed'[k] = sClosed[k] /\ (k \in openSend' <=> k \in openSend)
        BY <1>1, <2>1, <2>4 DEF ClosesOnAck
      <3> QED BY <1>1, <2>1, <2>2, <3>1, <3>2 DEF ContractOK
    <2> QED BY <2>3, <2>4
  <1>7. sendContract \in openSend => sendContract \in openSend'
    BY <1>1 DEF ClosesOnAck
  <1>8. /\ openSend' \subseteq openSend
        /\ openSend = {} => openSend' = {}
    BY <1>1
  <1> QED BY <1>1, <1>6, <1>7, <1>8 DEF SenderInv

LEMMA SenderExitSender ==
    ASSUME TypeOK, SenderInv, SenderExit
    PROVE  SenderInv'
  <1>1. /\ sOpen' = FALSE /\ openSend' = {}
        /\ sClosed' = [c \in Contracts |-> sClosed[c] + IF c \in openSend THEN 1 ELSE 0]
        /\ UNCHANGED <<taken, granted, sendContract, sAcked, sUnacked, items>>
    BY DEF SenderExit, ClosedAtExit
  <1>2. ASSUME NEW k \in Contracts PROVE ContractOK(k)'
    <2>1. /\ ContractOK(k) /\ sClosed'[k] = sClosed[k] + IF k \in openSend THEN 1 ELSE 0
          /\ openSend \subseteq 1 .. taken /\ k \in Nat /\ taken \in Nat
      BY <1>1, SenderNats DEF SenderInv
    <2>2. SenderLimit(k)' = SenderLimit(k)
      BY <1>1 DEF SenderLimit
    <2>3. sClosed'[k] = IF k <= taken THEN 1 ELSE 0
      BY <2>1 DEF ContractOK
    <2> QED BY <1>1, <2>1, <2>2, <2>3 DEF ContractOK
  <1> QED BY <1>1, <1>2 DEF SenderInv

LEMMA SameSender ==
    ASSUME SenderInv,
           UNCHANGED <<sOpen, taken, granted, sendContract, openSend, sAcked, sUnacked, sClosed,
                       items>>
    PROVE  SenderInv'
  <1>1. \A c \in Contracts : ContractOK(c)' <=> ContractOK(c)
    BY DEF ContractOK, SenderLimit
  <1> QED BY <1>1 DEF SenderInv

-----------------------------------------------------------------------------
(* The stream of frames, and the contracts the receiver knows.             *)

LEMMA StreamNats ==
    ASSUME TypeOK
    PROVE  /\ ackedTo \in Nat /\ receivedTo \in Nat /\ rNext \in Nat /\ rNext >= 1
           /\ Len(items) \in Nat /\ DOMAIN items = 1 .. Len(items)
           /\ ackedTo <= Len(items) /\ receivedTo <= Len(items) /\ rNext <= Len(items) + 1
           /\ gen \in Nat /\ nacks \in Nat /\ heads \subseteq 1 .. Len(items)
  <1>1. /\ ackedTo \in 0 .. Len(items) /\ receivedTo \in 0 .. Len(items)
        /\ rNext \in 1 .. Len(items) + 1 /\ gen \in Nat /\ nacks \in 0 .. MaxNacks
        /\ heads \subseteq 1 .. Len(items) /\ MaxNacks \in Nat
    BY Bounds DEF TypeOK
  <1> QED BY <1>1, ItemsAre

LEMMA SendStream ==
    ASSUME TypeOK, StreamInv, NEW b \in Sizes, SendsFrame(b) \/ SendsNack(b)
    PROVE  StreamInv'
  <1>1. UNCHANGED <<ackedTo, receivedTo, gen, rNext, heads, contractAcked, sendContract>>
    BY DEF SendsFrame, SendsNack, SendBase, rVars
  <1>2. CASE SendsFrame(b)
    <2>1. /\ DOMAIN items' = 1 .. Len(items) + 1
          /\ \A i \in 1 .. Len(items) : items'[i] = items[i]
          /\ items'[Len(items) + 1].contract = sendContract
          /\ items'[Len(items) + 1].hasContractFrame => sendContract # 0
          /\ items'[Len(items) + 1].head <=> Len(items) = ackedTo
      BY <1>2, SendsFrameItems
    <2>2. ASSUME NEW i \in 1 .. Len(items) + 1
          PROVE  /\ items'[i].head => i <= ackedTo + 1
                 /\ items'[i].hasContractFrame => items'[i].contract # 0
      <3>1. CASE i \in 1 .. Len(items)
        BY <2>1, <3>1, StreamNats DEF StreamInv
      <3>2. CASE i = Len(items) + 1
        BY <2>1, <3>2, StreamNats
      <3> QED BY <3>1, <3>2, StreamNats
    <2>3. contractAcked => \E i \in 1 .. ackedTo : items'[i].contract = sendContract
      BY <2>1, StreamNats DEF StreamInv
    <2> QED BY <1>1, <2>1, <2>2, <2>3 DEF StreamInv
  <1>3. CASE SendsNack(b)
    <2>1. items' = items
      BY <1>3, SendsNackIs
    <2> QED BY <1>1, <2>1 DEF StreamInv
  <1> QED BY <1>2, <1>3

LEMMA SendRun ==
    ASSUME TypeOK, RunInv, NEW b \in Sizes, SendsFrame(b) \/ SendsNack(b)
    PROVE  RunInv'
  <1>1. /\ UNCHANGED <<noContract, sendContract, receiveContract, rNext>>
        /\ SendNoContract \/ SendFits(sendContract, b)
    BY DEF SendsFrame, SendsNack, SendBase, rVars
  <1>2. CASE SendsFrame(b)
    <2> SUFFICES ASSUME noContract = {} PROVE RunInv'
      BY <1>1 DEF RunInv
    <2> DEFINE n == Len(items)
    <2>1. /\ DOMAIN items' = 1 .. n + 1 /\ Len(items') = n + 1
          /\ \A i \in 1 .. n : items'[i] = items[i]
          /\ items'[n + 1].contract = sendContract
      BY <1>2, SendsFrameItems
    <2>2. sendContract # 0
      BY <1>1 DEF SendNoContract, SendFits
    <2>3. n \in Nat /\ n > 0 /\ items[n].contract = sendContract
      BY <2>2, ItemsAre DEF RunInv
    <2>4. ASSUME NEW i \in 1 .. n + 1
          PROVE  /\ items'[i].contract # 0
                 /\ items'[i].hasContractFrame
                       \/ (i > 1 /\ items'[i].contract = items'[i - 1].contract)
      <3>1. CASE i \in 1 .. n
        <4>1. items'[i] = items[i] /\ (i - 1 \in 1 .. n \/ i = 1)
          BY <2>1, <2>3, <3>1
        <4>2. /\ items[i].contract # 0
              /\ items[i].hasContractFrame
                       \/ (i > 1 /\ items[i].contract = items[i - 1].contract)
          BY <3>1, StreamNats DEF RunInv
        <4> QED BY <2>1, <3>1, <4>1, <4>2
      <3>2. CASE i = n + 1
        BY <2>1, <2>2, <2>3, <3>2
      <3> QED BY <2>3, <3>1, <3>2
    <2>5. items' # <<>> /\ sendContract = items'[Len(items')].contract
      BY <2>1, <2>3
    <2>6. rNext > 1 => items'[rNext - 1] = items[rNext - 1]
      BY <2>1, StreamNats
    <2> QED BY <1>1, <2>1, <2>4, <2>5, <2>6 DEF RunInv
  <1>3. CASE SendsNack(b)
    <2>1. items' = items
      BY <1>3, SendsNackIs
    <2> QED BY <1>1, <2>1 DEF RunInv
  <1> QED BY <1>2, <1>3

LEMMA NewContractStream ==
    ASSUME TypeOK, StreamInv, NEW b \in Sizes, NEW t \in TransferByteCounts,
           SendOnNewContract(b, t)
    PROVE  StreamInv'
  <1> DEFINE n == Len(items)
  <1>1. /\ UNCHANGED <<ackedTo, receivedTo, gen, rNext, heads>> /\ contractAcked' = FALSE
    BY DEF SendOnNewContract, rVars
  <1>2. /\ DOMAIN items' = 1 .. n + 2
        /\ \A i \in 1 .. n : items'[i] = items[i]
        /\ items'[n + 1].contract = taken + 1 /\ items'[n + 2].contract = taken + 1
        /\ items'[n + 1].head <=> n = ackedTo
        /\ ~items'[n + 2].head
    BY NewContractItems
  <1>3. n \in Nat /\ taken \in Nat
    BY StreamNats, SenderNats
  <1>4. ASSUME NEW i \in 1 .. n + 2
        PROVE  /\ items'[i].head => i <= ackedTo + 1
               /\ items'[i].hasContractFrame => items'[i].contract # 0
    <2>1. CASE i \in 1 .. n
      BY <1>2, <2>1, StreamNats DEF StreamInv
    <2>2. CASE i = n + 1
      BY <1>2, <1>3, <2>2
    <2>3. CASE i = n + 2
      BY <1>2, <1>3, <2>3
    <2> QED BY <1>3, <2>1, <2>2, <2>3
  <1> QED BY <1>1, <1>2, <1>4 DEF StreamInv

LEMMA NewContractRun ==
    ASSUME TypeOK, RunInv, NEW b \in Sizes, NEW t \in TransferByteCounts,
           SendOnNewContract(b, t)
    PROVE  RunInv'
  <1> DEFINE n == Len(items)
  <1>1. UNCHANGED <<noContract, receiveContract, rNext>> /\ sendContract' = taken + 1
    BY DEF SendOnNewContract, rVars
  <1> SUFFICES ASSUME noContract = {} PROVE RunInv'
    BY <1>1 DEF RunInv
  <1>2. /\ DOMAIN items' = 1 .. n + 2 /\ Len(items') = n + 2
        /\ \A i \in 1 .. n : items'[i] = items[i]
        /\ items'[n + 1].contract = taken + 1 /\ items'[n + 2].contract = taken + 1
        /\ items'[n + 1].hasContractFrame
    BY NewContractItems
  <1>3. n \in Nat /\ taken \in Nat
    BY StreamNats, SenderNats
  <1>4. ASSUME NEW i \in 1 .. n + 2
        PROVE  /\ items'[i].contract # 0
               /\ items'[i].hasContractFrame
                     \/ (i > 1 /\ items'[i].contract = items'[i - 1].contract)
    <2>1. CASE i \in 1 .. n
      <3>1. items'[i] = items[i] /\ (i - 1 \in 1 .. n \/ i = 1)
        BY <1>2, <1>3, <2>1
      <3>2. /\ items[i].contract # 0
            /\ items[i].hasContractFrame
                     \/ (i > 1 /\ items[i].contract = items[i - 1].contract)
        BY <2>1, StreamNats DEF RunInv
      <3> QED BY <1>2, <2>1, <3>1, <3>2
    <2>2. CASE i = n + 1
      BY <1>2, <1>3, <2>2
    <2>3. CASE i = n + 2
      <3>1. i - 1 = n + 1 /\ i > 1
        BY <1>3, <2>3
      <3> QED BY <1>2, <1>3, <2>3, <3>1
    <2> QED BY <1>3, <2>1, <2>2, <2>3
  <1>5. items' # <<>> /\ sendContract' = items'[Len(items')].contract
    BY <1>1, <1>2, <1>3
  <1>6. rNext > 1 => items'[rNext - 1] = items[rNext - 1]
    BY <1>2, StreamNats
  <1> QED BY <1>1, <1>2, <1>4, <1>5, <1>6 DEF RunInv

LEMMA AckNextStream ==
    ASSUME TypeOK, StreamInv, AckNext
    PROVE  StreamInv'
  <1>1. /\ ackedTo < receivedTo /\ ackedTo' = ackedTo + 1
        /\ contractAcked' = (contractAcked \/ (items[ackedTo + 1].setContract
                                                /\ items[ackedTo + 1].contract = sendContract))
        /\ UNCHANGED <<sendContract, items, heads, rNext, receivedTo, gen>>
    BY DEF AckNext, rVars
  <1>2. ackedTo' <= receivedTo' /\ heads' \subseteq 1 .. ackedTo' + 1
    BY <1>1, StreamNats DEF StreamInv
  <1>3. \A i \in DOMAIN items' : /\ items'[i].head => i <= ackedTo' + 1
                                 /\ items'[i].hasContractFrame => items'[i].contract # 0
    BY <1>1, StreamNats DEF StreamInv
  <1>4. contractAcked' => \E i \in 1 .. ackedTo' : items'[i].contract = sendContract'
    <2>1. CASE contractAcked
      BY <1>1, <2>1, StreamNats DEF StreamInv
    <2>2. CASE items[ackedTo + 1].setContract /\ items[ackedTo + 1].contract = sendContract
      BY <1>1, <2>2, StreamNats
    <2> QED BY <1>1, <2>1, <2>2
  <1> QED BY <1>1, <1>2, <1>3, <1>4 DEF StreamInv

\* The first receive sequence takes the frames one by one.
LEMMA FirstInOrder ==
    ASSUME TypeOK, StreamInv, gen = 1, NEW i \in 1 .. Len(items), AtFront(i)
    PROVE  i = rNext
  <1>1. ASSUME IsHead(i) PROVE i <= ackedTo + 1
    BY <1>1, StreamNats DEF IsHead, StreamInv
  <1> QED BY <1>1, StreamNats DEF AtFront, StreamInv

LEMMA ReceiveNextStream ==
    ASSUME TypeOK, StreamInv, RunInv, OpenInv, NEW i \in 1 .. Len(items), NEW with \in BOOLEAN,
           ReceiveNext(i, with)
    PROVE  StreamInv' /\ RunInv'
  <1>1. /\ AtFront(i) /\ rNext' = i + 1
        /\ noContract = {} => receiveContract' = items[i].contract
        /\ receivedTo' = IF receivedTo < i THEN i ELSE receivedTo
        /\ UNCHANGED <<noContract, sendContract, items, ackedTo, heads, contractAcked, gen>>
    BY ReceiveNextIs DEF OpenInv
  <1>2. i \in Nat /\ ackedTo' <= receivedTo'
    BY <1>1, StreamNats DEF StreamInv
  <1>3. gen = 1 => receivedTo' = rNext' - 1
    BY <1>1, <1>2, FirstInOrder, StreamNats DEF StreamInv
  <1>4. StreamInv'
    BY <1>1, <1>2, <1>3 DEF StreamInv
  <1>5. RunInv'
    <2>1. rNext' - 1 = i
      BY <1>1, <1>2
    <2> QED BY <1>1, <2>1 DEF RunInv
  <1> QED BY <1>4, <1>5

LEMMA KnownStays ==
    ASSUME TypeOK, StreamInv, RunInv, OpenBound, NEW i \in 1 .. Len(items), NEW with \in BOOLEAN,
           ReceiveNext(i, with), NEW c \in Contracts, Known(c)
    PROVE  Known(c)'
  <1>1. PICK r : /\ openReceive' = r.open
                 /\ rClosed'[c] = rClosed[c]
                                    + IF c \in Evicted(openReceive, r.open) THEN 1 ELSE 0
    BY ReceiveNextIs
  <1>2. rClosed[c] \in Nat
    BY DEF TypeOK
  <1>3. CASE rClosed[c] > 0
    BY <1>1, <1>2, <1>3 DEF Known
  <1>4. CASE Contains(openReceive, c) /\ ~Contains(r.open, c)
    <2>1. c \in Evicted(openReceive, r.open)
      <3>1. \E k \in 1 .. Len(openReceive) : openReceive[k] = c
        BY <1>4 DEF Contains
      <3>2. DOMAIN openReceive = 1 .. Len(openReceive)
        <4>1. openReceive \in Seq(Contracts)
          BY DEF TypeOK
        <4> QED BY <4>1
      <3>3. c \in ToSet(openReceive)
        BY <3>1, <3>2 DEF ToSet
      <3> QED BY <1>4, <3>3 DEF Evicted
    <2> QED BY <1>1, <1>2, <2>1 DEF Known
  <1>5. CASE Contains(r.open, c)
    BY <1>1, <1>5 DEF Known
  <1> QED BY <1>3, <1>4, <1>5 DEF Known

LEMMA ReceiveNextOpen ==
    ASSUME TypeOK, StreamInv, RunInv, OpenInv, NEW i \in 1 .. Len(items), NEW with \in BOOLEAN,
           ReceiveNext(i, with), setting' = setting
    PROVE  OpenInv'
  <1>1. PICK r : /\ openReceive' = r.open /\ receiveContract' = r.current
                 /\ Len(r.open) <= setting.maxOpenReceiveContract
                 /\ r.current # 0 => Contains(r.open, r.current)
                 /\ noContract = {} => r.current = items[i].contract
                 /\ AtFront(i) /\ rNext' = i + 1
                 /\ UNCHANGED <<noContract, items, gen>>
    BY ReceiveNextIs DEF OpenInv
  <1>2. OpenBound'
    BY <1>1 DEF OpenBound
  <1>3. ASSUME gen = 1, noContract = {}, NEW j \in 1 .. rNext' - 1
        PROVE  Known(items[j].contract)'
    <2>1. i = rNext /\ i \in Nat
      BY <1>1, <1>3, FirstInOrder
    <2>2. items[j].contract # 0 /\ items[j].contract \in Contracts
      <3>1. j \in 1 .. i /\ j \in 1 .. Len(items)
        BY <1>1, <2>1, StreamNats
      <3>2. items[j].contract \in 0 .. MaxContracts /\ j \in DOMAIN items
        BY <3>1, ItemsAre
      <3>3. items[j].contract # 0
        BY <1>3, <3>2 DEF RunInv
      <3> QED BY <3>2, <3>3, InContracts
    <2>3. CASE j = i
      BY <1>1, <1>3, <2>2, <2>3 DEF Known
    <2>4. CASE j # i
      <3>1. j \in 1 .. rNext - 1
        BY <1>1, <2>1, <2>4
      <3>2. Known(items[j].contract)
        BY <1>3, <3>1 DEF OpenInv
      <3>3. OpenBound
        BY DEF OpenInv
      <3>4. items' = items
        BY <1>1
      <3> HIDE DEF Known
      <3>5. \A c \in Contracts : Known(c) => Known(c)'
        BY <3>3, KnownStays
      <3>6. Known(items[j].contract)'
        BY <2>2, <3>2, <3>4, <3>5 DEF Known
      <3> QED BY <3>6
    <2> QED BY <2>3, <2>4
  <1> QED BY <1>1, <1>2, <1>3 DEF OpenInv, Known

LEMMA StartsOverStream ==
    ASSUME TypeOK, StreamInv, RunInv, OpenInv, NackInv, setting' = setting,
           ReceiverExit \/ \E i \in 1 .. Len(items), with \in BOOLEAN : RejectNext(i, with)
    PROVE  StreamInv' /\ RunInv' /\ OpenInv' /\ NackInv'
  <1>1. /\ gen' = gen + 1 /\ rNext' = 1 /\ receiveContract' = 0 /\ openReceive' = <<>>
        /\ UNCHANGED <<noContract, sendContract, contractAcked, items, ackedTo, heads, nacks,
                       nackNet, receivedTo>>
    BY StartsOverIs
  <1>2. gen' >= 1 /\ gen' # 1
    BY <1>1, StreamNats DEF StreamInv
  <1>3. StreamInv' /\ RunInv'
    BY <1>1, <1>2 DEF StreamInv, RunInv
  <1>4. OpenInv'
    <2>1. Len(openReceive') <= setting'.maxOpenReceiveContract
      <3>1. setting.maxOpenReceiveContract \in Nat
        BY Bounds DEF TypeOK
      <3> QED BY <1>1, <3>1
    <2> QED BY <1>1, <1>2, <2>1 DEF OpenInv, OpenBound
  <1>5. NackInv'
    BY <1>1, <1>2 DEF NackInv, NackContractKnown
  <1> QED BY <1>3, <1>4, <1>5

\* The steps of the sender leave what the receiver knows.
LEMMA SenderKeepsOpen ==
    ASSUME TypeOK, OpenInv, UNCHANGED <<setting, noContract, openReceive, receiveContract, gen,
                                        rNext, rClosed>>,
           \A i \in 1 .. Len(items) : items'[i] = items[i]
    PROVE  OpenInv'
  <1>1. \A i \in 1 .. rNext - 1 : items'[i] = items[i]
    BY StreamNats
  <1> QED BY <1>1 DEF OpenInv, OpenBound, Known

LEMMA SendNacks ==
    ASSUME TypeOK, StreamInv, RunInv, OpenInv, NackInv, NEW b \in Sizes,
           SendsFrame(b) \/ SendsNack(b)
    PROVE  NackInv'
  <1>1. /\ UNCHANGED <<noContract, openReceive, rClosed, gen>>
        /\ SendNoContract \/ SendFits(sendContract, b)
    BY DEF SendsFrame, SendsNack, SendBase, rVars
  <1>2. CASE SendsFrame(b)
    BY <1>1, <1>2 DEF SendsFrame, NackInv, NackContractKnown
  <1>3. CASE SendsNack(b)
    <2> DEFINE m == [id |-> nacks, contract |-> sendContract, bytes |-> b]
    <2>1. nacks' = nacks + 1 /\ (nackNet' = nackNet \/ nackNet' = nackNet \cup {m})
      BY <1>3, SendsNackIs
    <2>2. nackNet \subseteq [id : Nat, contract : 0 .. MaxContracts, bytes : Sizes]
      BY DEF TypeOK
    <2>3. ASSUME noContract = {} PROVE sendContract # 0
      BY <1>1, <2>3 DEF SendNoContract, SendFits
    <2>4. ASSUME noContract = {}, gen = 1 PROVE Known(sendContract)
      <3>1. contractAcked
        BY <1>3, <2>3, <2>4 DEF SendsNack
      <3>2. PICK i \in 1 .. ackedTo : items[i].contract = sendContract
        BY <3>1 DEF StreamInv
      <3>3. i \in 1 .. rNext - 1
        BY <2>4, StreamNats DEF StreamInv
      <3> QED BY <2>4, <3>2, <3>3 DEF OpenInv
    <2>5. m.id = nacks /\ m.contract = sendContract
      OBVIOUS
    <2> HIDE DEF m
    <2>6. \A k \in nackNet' : k \in nackNet \/ k = m
      BY <2>1
    <2>7. \A k \in nackNet : k.id < nacks /\ k.id \in Nat
      BY <2>2 DEF NackInv
    <2>8. /\ \A k \in nackNet' : k.id < nacks'
          /\ \A k, n \in nackNet' : k.id = n.id => k = n
      <3>1. nacks \in Nat
        BY StreamNats
      <3>2. ASSUME NEW k \in nackNet', NEW n \in nackNet', k.id = n.id PROVE k = n
        <4>1. CASE k \in nackNet /\ n \in nackNet
          BY <3>2, <4>1 DEF NackInv
        <4>2. k = m => n = m
          BY <2>5, <2>6, <2>7, <3>1, <3>2
        <4>3. n = m => k = m
          BY <2>5, <2>6, <2>7, <3>1, <3>2
        <4> QED BY <2>6, <4>1, <4>2, <4>3
      <3>3. \A k \in nackNet' : k.id < nacks'
        BY <2>1, <2>5, <2>6, <2>7, <3>1
      <3> QED BY <3>2, <3>3
    <2>9. noContract' = {} => \A k \in nackNet' : k.contract # 0
      BY <1>1, <2>3, <2>5, <2>6 DEF NackInv
    <2>10. NackContractKnown'
      BY <1>1, <2>4, <2>5, <2>6 DEF NackInv, NackContractKnown, Known
    <2> QED BY <2>8, <2>9, <2>10 DEF NackInv
  <1> QED BY <1>2, <1>3

LEMMA ReceiveNextNacks ==
    ASSUME TypeOK, StreamInv, RunInv, OpenInv, NackInv, NEW i \in 1 .. Len(items),
           NEW with \in BOOLEAN, ReceiveNext(i, with)
    PROVE  NackInv'
  <1>1. UNCHANGED <<noContract, nacks, nackNet, gen>>
    BY ReceiveNextIs DEF OpenInv
  <1>2. ASSUME gen = 1, noContract = {}, NEW m \in nackNet
        PROVE  m.contract # 0 /\ Known(m.contract)'
    <2>1. m.contract # 0 /\ Known(m.contract)
      BY <1>2 DEF NackInv, NackContractKnown, Known
    <2>2. m.contract \in Contracts
      BY <2>1, InContracts DEF TypeOK
    <2> QED BY <2>1, <2>2, KnownStays DEF OpenInv
  <1> QED BY <1>1, <1>2 DEF NackInv, NackContractKnown, Known

\* Nacks are only taken away, or nothing happens to them.
LEMMA FewerNacks ==
    ASSUME NackInv, nackNet' \subseteq nackNet, nacks' = nacks,
           UNCHANGED <<openReceive, rClosed, gen>>,
           noContract' = {} => noContract = {}
    PROVE  NackInv'
  BY DEF NackInv, NackContractKnown

\* Steps that leave the stream and what the receiver knows alone.
LEMMA QuietStream ==
    ASSUME StreamInv, RunInv, OpenInv, NackInv, nackNet' \subseteq nackNet,
           heads' \subseteq 1 .. ackedTo + 1, noContract' = {} => noContract = {},
           UNCHANGED <<setting, items, ackedTo, receivedTo, gen, rNext, contractAcked, sendContract,
                       receiveContract, openReceive, rClosed, nacks>>
    PROVE  StreamInv' /\ RunInv' /\ OpenInv' /\ NackInv'
  <1>1. StreamInv'
    BY DEF StreamInv
  <1>2. RunInv'
    BY DEF RunInv
  <1>3. OpenInv'
    BY DEF OpenInv, OpenBound, Known
  <1>4. NackInv'
    BY FewerNacks
  <1> QED BY <1>1, <1>2, <1>3, <1>4

-----------------------------------------------------------------------------
(* The sums of the ledger.                                                 *)

\* One more frame is counted after the others.
LEMMA SumsExtend ==
    ASSUME NEW c, NEW s, NEW t, NEW f, Sums(f, c, s), Len(s) \in Nat,
           DOMAIN s = 1 .. Len(s), DOMAIN t = 1 .. Len(s) + 1, Len(t) = Len(s) + 1,
           \A i \in 1 .. Len(s) : t[i] = s[i],
           t[Len(s) + 1].bytes \in Nat
    PROVE  \E g : /\ Sums(g, c, t)
                  /\ g[Len(s) + 1] = f[Len(s)] + Counts(c, t[Len(s) + 1])
                  /\ \A k \in 0 .. Len(s) : g[k] = f[k]
  <1> DEFINE n == Len(s)
             e == Counts(c, t[n + 1])
             g == [k \in 0 .. n + 1 |-> IF k <= n THEN f[k] ELSE f[n] + e]
  <1>1. /\ e \in Nat
        /\ t[n + 1].contract # c => e = 0
    BY CountsNat
  <1>2. /\ f \in [0 .. n -> Nat] /\ f[0] = 0 /\ n \in Nat
        /\ \A k \in 1 .. n : f[k] = f[k - 1] + Counts(c, s[k])
        /\ \A j, k \in 0 .. n : j <= k => f[j] <= f[k]
        /\ \A j, k \in 0 .. n : j <= k /\ f[j] < f[k] =>
              \E i \in j + 1 .. k : s[i].contract = c
    BY DEF Sums
  <1> HIDE DEF e
  <1>3. /\ g \in [0 .. n + 1 -> Nat] /\ g[n + 1] = f[n] + e
        /\ \A k \in 0 .. n : g[k] = f[k] /\ f[k] \in Nat
    BY <1>1, <1>2
  <1> HIDE DEF g
  <1>4. g[0] = 0
    BY <1>2, <1>3
  <1>5. ASSUME NEW k \in 1 .. n + 1 PROVE g[k] = g[k - 1] + Counts(c, t[k])
    <2>1. CASE k \in 1 .. n
      <3>1. k \in 0 .. n /\ k - 1 \in 0 .. n /\ t[k] = s[k]
        BY <1>2, <2>1
      <3> QED BY <1>2, <1>3, <2>1, <3>1
    <2>2. CASE k = n + 1
      <3>1. k - 1 = n /\ n \in 0 .. n
        BY <1>2, <2>2
      <3> QED BY <1>3, <2>2, <3>1 DEF e
    <2> QED BY <1>2, <2>1, <2>2
  <1>6. ASSUME NEW j \in 0 .. n + 1, NEW k \in 0 .. n + 1, j <= k
        PROVE  /\ g[j] <= g[k]
               /\ g[j] < g[k] => \E i \in j + 1 .. k : t[i].contract = c
    <2>1. CASE k \in 0 .. n
      <3>1. j \in 0 .. n /\ g[j] = f[j] /\ g[k] = f[k]
        BY <1>2, <1>3, <1>6, <2>1
      <3>2. g[j] < g[k] => \E i \in j + 1 .. k : s[i].contract = c /\ t[i] = s[i]
        BY <1>2, <1>6, <2>1, <3>1
      <3> QED BY <1>2, <1>6, <2>1, <3>1, <3>2
    <2>2. CASE k = n + 1 /\ j \in 0 .. n
      <3>1. /\ g[j] = f[j] /\ g[k] = f[n] + e /\ f[j] \in Nat /\ f[n] \in Nat /\ f[j] <= f[n]
        BY <1>2, <1>3, <2>2
      <3>2. CASE t[n + 1].contract = c
        BY <1>1, <1>2, <2>2, <3>1, <3>2
      <3>3. CASE t[n + 1].contract # c
        <4>1. g[k] = f[n]
          BY <1>1, <3>1, <3>3
        <4>2. g[j] < g[k] => \E i \in j + 1 .. n : s[i].contract = c /\ t[i] = s[i]
          BY <1>2, <2>2, <3>1, <4>1
        <4>3. j + 1 .. n \subseteq j + 1 .. k
          BY <1>2, <2>2
        <4> QED BY <3>1, <4>1, <4>2, <4>3
      <3> QED BY <3>2, <3>3
    <2>3. CASE k = n + 1 /\ j = n + 1
      BY <1>1, <1>2, <1>3, <2>3
    <2> QED BY <1>2, <1>6, <2>1, <2>2, <2>3
  <1>7. Sums(g, c, t)
    BY <1>2, <1>3, <1>4, <1>5, <1>6 DEF Sums
  <1> QED BY <1>3, <1>7 DEF e

\* A nack that counts at most v is written after the others.
LEMMA NackSumsExtend ==
    ASSUME NEW c, NEW net, NEW n \in Nat, NEW g, NackSums(g, c, net, n), NEW v \in Nat,
           \A m \in net : m.id \in Nat /\ m.id < n
    PROVE  \E h : /\ NackSums(h, c, net, n + 1)
                  /\ h[n + 1] = g[n] + v
                  /\ \A m : m.id = n /\ Counts(c, m) <= v /\ Counts(c, m) \in Nat =>
                               NackSums(h, c, net \cup {m}, n + 1)
  <1> DEFINE h == [k \in 0 .. n + 1 |-> IF k <= n THEN g[k] ELSE g[n] + v]
  <1>1. /\ g \in [0 .. n -> Nat]
        /\ \A j, k \in 0 .. n : j <= k => g[j] <= g[k]
        /\ \A m \in net : g[m.id] + Counts(c, m) <= g[m.id + 1]
    BY DEF NackSums
  <1>2. /\ h \in [0 .. n + 1 -> Nat] /\ h[n + 1] = g[n] + v
        /\ \A k \in 0 .. n : h[k] = g[k] /\ g[k] \in Nat
    BY <1>1
  <1> HIDE DEF h
  <1>3. ASSUME NEW j \in 0 .. n + 1, NEW k \in 0 .. n + 1, j <= k PROVE h[j] <= h[k]
    <2>1. CASE k \in 0 .. n
      <3>1. j \in 0 .. n
        BY <1>3, <2>1
      <3> QED BY <1>1, <1>2, <1>3, <2>1, <3>1
    <2>2. CASE k = n + 1 /\ j \in 0 .. n
      <3>1. g[j] <= g[n] /\ g[j] \in Nat /\ g[n] \in Nat
        BY <1>1, <1>2, <2>2
      <3> QED BY <1>2, <2>2, <3>1
    <2>3. CASE k = n + 1 /\ j = n + 1
      BY <1>2, <2>3
    <2> QED BY <2>1, <2>2, <2>3
  <1>4. \A m \in net : h[m.id] + Counts(c, m) <= h[m.id + 1]
    <2> TAKE m \in net
    <2>1. m.id \in 0 .. n /\ m.id + 1 \in 0 .. n
      OBVIOUS
    <2> QED BY <1>1, <1>2, <2>1
  <1>5. ASSUME NEW m, m.id = n, Counts(c, m) <= v, Counts(c, m) \in Nat
        PROVE  h[m.id] + Counts(c, m) <= h[m.id + 1]
    BY <1>2, <1>5
  <1>6. NackSums(h, c, net, n + 1)
    BY <1>2, <1>3, <1>4 DEF NackSums
  <1>7. \A m : m.id = n /\ Counts(c, m) <= v /\ Counts(c, m) \in Nat =>
                  NackSums(h, c, net \cup {m}, n + 1)
    <2> SUFFICES ASSUME NEW m, m.id = n, Counts(c, m) <= v, Counts(c, m) \in Nat
                 PROVE  NackSums(h, c, net \cup {m}, n + 1)
      OBVIOUS
    <2>1. \A x \in net \cup {m} : h[x.id] + Counts(c, x) <= h[x.id + 1]
      BY <1>4, <1>5
    <2> QED BY <1>2, <1>3, <2>1 DEF NackSums
  <1> QED BY <1>2, <1>6, <1>7

\* A nack leaves the net: what it counts is given back.
LEMMA NackSumsLess ==
    ASSUME NEW c, NEW net, NEW n \in Nat, NEW g, NackSums(g, c, net, n), NEW m \in net,
           \A x \in net : x.id \in Nat /\ x.id < n,
           \A x, y \in net : x.id = y.id => x = y,
           \A x \in net : Counts(c, x) \in Nat
    PROVE  \E h : NackSums(h, c, net \ {m}, n) /\ h[n] = g[n] - Counts(c, m) /\ h[n] \in Nat
  <1>1. PICK e \in Nat : e = Counts(c, m)
    OBVIOUS
  <1>2. PICK d \in Nat : d = m.id /\ d < n
    OBVIOUS
  <1> DEFINE h == [k \in 0 .. n |-> IF k > d THEN g[k] - e ELSE g[k]]
  <1>3. /\ g \in [0 .. n -> Nat]
        /\ \A j, k \in 0 .. n : j <= k => g[j] <= g[k]
        /\ \A x \in net : g[x.id] + Counts(c, x) <= g[x.id + 1]
    BY DEF NackSums
  <1>4. g[d] + e <= g[d + 1]
    BY <1>1, <1>2, <1>3
  <1>5. /\ d \in 0 .. n /\ d + 1 \in 0 .. n /\ \A k \in 0 .. n : g[k] \in Nat
    BY <1>2, <1>3
  <1>6. \A k \in 0 .. n : k > d => g[d + 1] <= g[k]
    BY <1>2, <1>3, <1>5
  <1>7. \A k \in 0 .. n : k > d => g[k] - e \in Nat
    <2> TAKE k \in 0 .. n
    <2>1. g[d] \in Nat /\ g[d + 1] \in Nat /\ g[k] \in Nat
      BY <1>5
    <2> QED BY <1>4, <1>6, <2>1
  <1>8. h \in [0 .. n -> Nat]
    BY <1>5, <1>7
  <1>9. \A k \in 0 .. n : h[k] = IF k > d THEN g[k] - e ELSE g[k]
    OBVIOUS
  <1> HIDE DEF h
  <1>10. ASSUME NEW j \in 0 .. n, NEW k \in 0 .. n, j <= k PROVE h[j] <= h[k]
    <2>1. /\ g[j] <= g[k] /\ g[j] \in Nat /\ g[k] \in Nat
          /\ g[d] \in Nat /\ g[d + 1] \in Nat
      BY <1>3, <1>5, <1>10
    <2>2. CASE k <= d
      <3>1. h[j] = g[j] /\ h[k] = g[k]
        BY <1>9, <1>10, <2>2
      <3> QED BY <2>1, <3>1
    <2>3. CASE k > d /\ j > d
      <3>1. h[j] = g[j] - e /\ h[k] = g[k] - e
        BY <1>9, <2>3
      <3> QED BY <2>1, <3>1
    <2>4. CASE k > d /\ j <= d
      <3>1. g[j] <= g[d] /\ g[d + 1] <= g[k]
        BY <1>3, <1>5, <1>6, <2>4
      <3>2. h[j] = g[j] /\ h[k] = g[k] - e
        BY <1>9, <2>4
      <3> QED BY <1>4, <2>1, <3>1, <3>2
    <2> QED BY <1>2, <2>2, <2>3, <2>4
  <1>11. ASSUME NEW x \in net \ {m} PROVE h[x.id] + Counts(c, x) <= h[x.id + 1]
    <2>1. PICK a \in Nat : a = x.id /\ a < n
      OBVIOUS
    <2>2. PICK w \in Nat : w = Counts(c, x)
      OBVIOUS
    <2>3. a # d
      BY <1>2, <2>1
    <2>4. g[a] + w <= g[a + 1]
      BY <1>3, <2>1, <2>2
    <2>5. a \in 0 .. n /\ a + 1 \in 0 .. n /\ g[a] \in Nat /\ g[a + 1] \in Nat
      BY <1>5, <2>1
    <2>6. h[a] + w <= h[a + 1]
      <3>1. CASE a < d
        <4>1. h[a] = g[a] /\ h[a + 1] = g[a + 1]
          BY <1>9, <2>5, <3>1
        <4> QED BY <2>4, <4>1
      <3>2. CASE a > d
        <4>1. h[a] = g[a] - e /\ h[a + 1] = g[a + 1] - e
          BY <1>9, <2>5, <3>2
        <4> QED BY <2>4, <2>5, <4>1
      <3> QED BY <2>3, <3>1, <3>2
    <2> QED BY <2>1, <2>2, <2>6
  <1>12. NackSums(h, c, net \ {m}, n)
    BY <1>8, <1>10, <1>11 DEF NackSums
  <1>13. h[n] = g[n] - e /\ h[n] \in Nat
    <2>1. n \in 0 .. n /\ n > d
      BY <1>2
    <2> QED BY <1>8, <1>9, <2>1
  <1> QED BY <1>1, <1>12, <1>13

LEMMA SumsAre ==
    ASSUME TypeOK, NEW c, NEW f, NEW g, Sums(f, c, items), NackSums(g, c, nackNet, nacks)
    PROVE  /\ \A k \in 0 .. Len(items) : f[k] \in Nat /\ f[k] <= f[Len(items)]
           /\ f[0] = 0 /\ f[Len(items)] \in Nat /\ f[ackedTo] \in Nat /\ f[rNext - 1] \in Nat
           /\ f[ackedTo] <= f[Len(items)] /\ f[rNext - 1] <= f[Len(items)]
           /\ g[nacks] \in Nat
  <1>1. /\ ackedTo \in 0 .. Len(items) /\ rNext - 1 \in 0 .. Len(items)
        /\ Len(items) \in 0 .. Len(items) /\ nacks \in 0 .. nacks
    BY StreamNats
  <1>2. /\ f \in [0 .. Len(items) -> Nat] /\ f[0] = 0
        /\ \A j, k \in 0 .. Len(items) : j <= k => f[j] <= f[k]
        /\ g \in [0 .. nacks -> Nat]
    BY DEF Sums, NackSums
  <1>3. \A k \in 0 .. Len(items) : f[k] \in Nat /\ f[k] <= f[Len(items)]
    BY <1>1, <1>2
  <1> QED BY <1>1, <1>2, <1>3

\* What the frame that is acked next counts.
LEMMA AckedCount ==
    ASSUME TypeOK, NEW c, NEW f, Sums(f, c, items), ackedTo + 1 \in 1 .. Len(items)
    PROVE  f[ackedTo + 1] = f[ackedTo] + IF c = items[ackedTo + 1].contract
                                         THEN Effective(items[ackedTo + 1].bytes) ELSE 0
  <1>1. \A i \in 1 .. Len(items) : f[i] = f[i - 1] + Counts(c, items[i])
    BY ItemsAre DEF Sums
  <1>2. PICK i \in 1 .. Len(items) : i = ackedTo + 1
    OBVIOUS
  <1>3. i - 1 = ackedTo
    BY <1>2, StreamNats
  <1>4. f[i] = f[ackedTo] + Counts(c, items[i])
    BY <1>1, <1>3
  <1> QED BY <1>2, <1>4 DEF Counts

\* When the frames after a count nothing on c, none of them is of c.
LEMMA NothingPending ==
    ASSUME TypeOK, MinMessageByteCount > 0, NEW c, NEW f, Sums(f, c, items),
           NEW a \in 0 .. Len(items), f[Len(items)] <= f[a],
           NEW i \in a + 1 .. Len(items), items[i].contract = c
    PROVE  FALSE
  <1>1. /\ i \in 1 .. Len(items) /\ i \in 0 .. Len(items) /\ i - 1 \in 0 .. Len(items)
        /\ Len(items) \in 0 .. Len(items) /\ a <= i - 1 /\ i <= Len(items)
    BY StreamNats
  <1>2. items[i].bytes \in Nat /\ Counts(c, items[i]) = Effective(items[i].bytes)
    BY <1>1, ItemsAre DEF Counts
  <1>3. Counts(c, items[i]) \in Nat /\ Counts(c, items[i]) > 0
    BY <1>2, EffectiveNat
  <1>4. /\ f \in [0 .. Len(items) -> Nat]
        /\ f[i] = f[i - 1] + Counts(c, items[i])
        /\ f[a] <= f[i - 1] /\ f[i] <= f[Len(items)]
    BY <1>1, ItemsAre DEF Sums
  <1>5. f[i] \in Nat /\ f[i - 1] \in Nat /\ f[a] \in Nat /\ f[Len(items)] \in Nat
    BY <1>1, <1>4
  <1> QED BY <1>3, <1>4, <1>5

-----------------------------------------------------------------------------
(* The ledger.                                                             *)

\* A step that changes neither what was sent nor what was counted.
LEMMA QuietLedger ==
    ASSUME LedgerInv, nackNet' \subseteq nackNet, openSend' \subseteq openSend,
           noContract \subseteq noContract', badAccounting => badAccounting',
           UNCHANGED <<setting, items, ackedTo, nacks, sAcked, sUnacked, sendContract, rNext>>,
           \A k \in Contracts : rAcked'[k] = rAcked[k]
    PROVE  LedgerInv'
  <1> SUFFICES ASSUME NEW k \in Contracts PROVE Ledger(k)'
    BY DEF LedgerInv
  <1>1. PICK f, g : /\ Sums(f, k, items) /\ NackSums(g, k, nackNet, nacks)
                    /\ ReceiverLedger(k, f, g) /\ SenderLedger(k, f)
    BY DEF LedgerInv, Ledger
  <1>2. Sums(f, k, items') /\ NackSums(g, k, nackNet', nacks')
    BY <1>1 DEF NackSums
  <1>3. ReceiverLedger(k, f, g)'
    BY <1>1 DEF ReceiverLedger
  <1>4. SenderLedger(k, f)'
    BY <1>1 DEF SenderLedger
  <1> QED BY <1>2, <1>3, <1>4 DEF Ledger

LEMMA SendsFrameLedger ==
    ASSUME TypeOK, LedgerInv, NEW b \in Sizes, SendsFrame(b), setting' = setting
    PROVE  LedgerInv'
  <1> SUFFICES ASSUME NEW k \in Contracts PROVE Ledger(k)'
    BY DEF LedgerInv
  <1> DEFINE n == Len(items)
  <1>1. PICK f, g : /\ Sums(f, k, items) /\ NackSums(g, k, nackNet, nacks)
                    /\ ReceiverLedger(k, f, g) /\ SenderLedger(k, f)
    BY DEF LedgerInv, Ledger
  <1>2. /\ SendNoContract \/ SendFits(sendContract, b)
        /\ sUnacked' = Debited(b)
        /\ UNCHANGED <<noContract, sendContract, openSend, ackedTo, rNext, rAcked, sAcked,
                       badAccounting, nackNet, nacks>>
    BY DEF SendsFrame, SendBase, rVars
  <1>3. /\ DOMAIN items' = 1 .. n + 1 /\ Len(items') = n + 1
        /\ \A i \in 1 .. n : items'[i] = items[i]
        /\ items'[n + 1].contract = sendContract /\ items'[n + 1].bytes = b
    BY SendsFrameItems
  <1>4. b \in Nat /\ Effective(b) \in Nat
    BY Bounds, EffectiveNat DEF TypeOK
  <1>5. PICK h : /\ Sums(h, k, items')
                 /\ h[n + 1] = f[n] + Counts(k, items'[n + 1])
                 /\ \A j \in 0 .. n : h[j] = f[j]
    <2>1. n \in Nat /\ DOMAIN items = 1 .. n
      BY StreamNats
    <2> QED BY <1>1, <1>3, <1>4, <2>1, SumsExtend
  <1>6. Counts(k, items'[n + 1]) = IF k = sendContract THEN Effective(b) ELSE 0
    BY <1>3 DEF Counts
  <1>7. sUnacked'[k] = IF ~SendNoContract /\ k = sendContract
                       THEN sUnacked[k] + Effective(b) ELSE sUnacked[k]
    BY <1>2, <1>4, DebitedIs
  <1>8. h[rNext - 1] = f[rNext - 1] /\ h[ackedTo] = f[ackedTo]
    BY <1>5, StreamNats
  <1>9. /\ f[n] \in Nat /\ f[ackedTo] \in Nat /\ f[rNext - 1] \in Nat /\ g[nacks] \in Nat
        /\ sAcked[k] \in Nat /\ sUnacked[k] \in Nat /\ rAcked[k] \in Nat
    <2>1. rAcked[k] \in Nat
      BY DEF TypeOK
    <2> QED BY <1>1, <2>1, SumsAre, SenderNats
  <1>10. ReceiverLedger(k, h, g)'
    <2> SUFFICES ASSUME noContract = {} PROVE ReceiverLedger(k, h, g)'
      BY <1>2 DEF ReceiverLedger
    <2>1. /\ g[nacks] + f[n] <= sAcked[k] + sUnacked[k]
          /\ rAcked[k] + g[nacks] + f[n] <= f[rNext - 1] + sAcked[k] + sUnacked[k]
      BY <1>1 DEF ReceiverLedger
    <2>2. /\ h[n + 1] = f[n] + (IF k = sendContract THEN Effective(b) ELSE 0)
          /\ sUnacked'[k] = sUnacked[k] + (IF k = sendContract THEN Effective(b) ELSE 0)
      BY <1>5, <1>6, <1>7, <1>9 DEF SendNoContract
    <2> HIDE DEF n
    <2>3. /\ g[nacks] + h[n + 1] <= sAcked[k] + sUnacked'[k]
          /\ rAcked[k] + g[nacks] + h[n + 1] <= h[rNext - 1] + sAcked[k] + sUnacked'[k]
      BY <1>4, <1>8, <1>9, <2>1, <2>2
    <2> QED BY <1>2, <1>3, <2>3 DEF ReceiverLedger
  <1>11. SenderLedger(k, h)'
    <2> SUFFICES ASSUME k \in openSend PROVE SenderLedger(k, h)'
      BY <1>2 DEF SenderLedger
    <2>1. ASSUME "s" \notin noContract \/ k # sendContract
          PROVE  h[n + 1] <= h[ackedTo] + sUnacked'[k]
      <3>1. f[n] <= f[ackedTo] + sUnacked[k]
        BY <1>1, <2>1 DEF SenderLedger
      <3>2. CASE k = sendContract
        <4>1. h[n + 1] = f[n] + Effective(b) /\ sUnacked'[k] = sUnacked[k] + Effective(b)
          BY <1>5, <1>6, <1>7, <2>1, <3>2 DEF SendNoContract
        <4> QED BY <1>4, <1>8, <1>9, <3>1, <4>1
      <3>3. CASE k # sendContract
        <4>1. h[n + 1] = f[n] /\ sUnacked'[k] = sUnacked[k]
          BY <1>5, <1>6, <1>7, <1>9, <3>3
        <4> QED BY <1>8, <3>1, <4>1
      <3> QED BY <3>2, <3>3
    <2>2. ASSUME ~badAccounting, ~setting.nackWriteFails
          PROVE  h[ackedTo] + sUnacked'[k] <= h[n + 1]
      <3>1. f[ackedTo] + sUnacked[k] <= f[n]
        BY <1>1, <2>2 DEF SenderLedger
      <3>2. CASE k = sendContract
        <4>1. h[n + 1] = f[n] + Effective(b) /\ sUnacked'[k] <= sUnacked[k] + Effective(b)
              /\ sUnacked'[k] \in Nat
          BY <1>4, <1>5, <1>6, <1>7, <1>9, <3>2
        <4> QED BY <1>4, <1>8, <1>9, <3>1, <4>1
      <3>3. CASE k # sendContract
        <4>1. h[n + 1] = f[n] /\ sUnacked'[k] = sUnacked[k]
          BY <1>5, <1>6, <1>7, <1>9, <3>3
        <4> QED BY <1>8, <3>1, <4>1
      <3> QED BY <3>2, <3>3
    <2> QED BY <1>2, <1>3, <2>1, <2>2 DEF SenderLedger
  <1>12. NackSums(g, k, nackNet', nacks')
    BY <1>1, <1>2
  <1> QED BY <1>5, <1>10, <1>11, <1>12 DEF Ledger

\* A nack that is written is debited and acked at once, unless its contract
\* is closed; one that is not stays debited.
LEMMA SendsNackDebits ==
    ASSUME TypeOK, NEW b \in Sizes, SendsNack(b), NEW k \in Contracts
    PROVE  /\ sAcked'[k] + sUnacked'[k] =
                 sAcked[k] + sUnacked[k]
                     + IF ~SendNoContract /\ k = sendContract THEN Effective(b) ELSE 0
           /\ ~(SendNoContract /\ k = sendContract) => sUnacked[k] <= sUnacked'[k]
           /\ k \in openSend => sUnacked'[k] <= sUnacked[k] \/ setting.nackWriteFails
           /\ ~badAccounting
           /\ noContract = {} => ~badAccounting'
           /\ sAcked'[k] \in Nat /\ sUnacked'[k] \in Nat
  <1>1. /\ SendNoContract \/ SendFits(sendContract, b)
        /\ ~badAccounting
    BY DEF SendsNack, SendBase
  <1>2. b \in Nat /\ Effective(b) \in Nat
    BY Bounds, EffectiveNat DEF TypeOK
  <1>3. /\ Debited(b) \in [Contracts -> Nat]
        /\ Debited(b)[k] = IF ~SendNoContract /\ k = sendContract
                           THEN sUnacked[k] + Effective(b) ELSE sUnacked[k]
        /\ ~SendNoContract => sendContract \in Contracts
    BY <1>1, <1>2, DebitedIs
  <1>4. /\ sAcked' \in [Contracts -> Nat] /\ sUnacked' \in [Contracts -> Nat]
        /\ sAcked'[k] + sUnacked'[k] = sAcked[k] + Debited(b)[k]
        /\ \/ AckBytes(sendContract, b, Debited(b))
           \/ /\ setting.nackWriteFails
              /\ sUnacked' = Debited(b) /\ sAcked' = sAcked
              /\ badAccounting' = badAccounting
    BY SendsNackIs
  <1>5. sAcked[k] \in Nat /\ sUnacked[k] \in Nat /\ sendContract \in 0 .. MaxContracts
    BY SenderNats DEF TypeOK
  <1>6. sAcked'[k] \in Nat /\ sUnacked'[k] \in Nat
    BY <1>4
  <1>7. sAcked'[k] + sUnacked'[k] =
                 sAcked[k] + sUnacked[k]
                     + IF ~SendNoContract /\ k = sendContract THEN Effective(b) ELSE 0
    BY <1>2, <1>3, <1>4, <1>5
  <1>8. CASE AckBytes(sendContract, b, Debited(b))
    <2>1. /\ k # sendContract \/ k \notin openSend => sUnacked'[k] = Debited(b)[k]
          /\ sendContract \notin openSend => badAccounting' = badAccounting
          /\ sendContract \in openSend =>
                 /\ Effective(b) <= Debited(b)[sendContract] =>
                       /\ sUnacked'[sendContract] = Debited(b)[sendContract] - Effective(b)
                       /\ badAccounting' = badAccounting
                 /\ Debited(b)[sendContract] < Effective(b) =>
                       sUnacked'[sendContract] = Debited(b)[sendContract]
      BY <1>2, <1>3, <1>5, <1>8, AckBytesIs
    <2>2. ASSUME noContract = {} PROVE badAccounting' = badAccounting
      <3>1. CASE sendContract \in openSend
        <4>1. /\ ~SendNoContract /\ sendContract \in Contracts
              /\ sUnacked[sendContract] \in Nat
          BY <1>3, <2>2, SenderNats DEF SendNoContract
        <4>2. Debited(b)[sendContract] = sUnacked[sendContract] + Effective(b)
          BY <1>1, <1>2, <4>1, DebitedIs
        <4>3. Effective(b) <= Debited(b)[sendContract]
          BY <1>2, <4>1, <4>2
        <4> QED BY <2>1, <3>1, <4>3
      <3> QED BY <2>1, <3>1
    <2>3. ~(SendNoContract /\ k = sendContract) => sUnacked[k] <= sUnacked'[k]
      <3>1. CASE k # sendContract
        BY <1>3, <1>5, <2>1, <3>1
      <3>2. CASE k = sendContract /\ ~SendNoContract
        <4>1. Debited(b)[k] = sUnacked[k] + Effective(b)
          BY <1>3, <3>2
        <4>2. Effective(b) <= Debited(b)[k]
          BY <1>2, <1>5, <4>1
        <4>3. CASE k \in openSend
          BY <1>2, <1>5, <2>1, <3>2, <4>1, <4>2, <4>3
        <4>4. CASE k \notin openSend
          BY <1>2, <1>5, <2>1, <4>1, <4>4
        <4> QED BY <4>3, <4>4
      <3> QED BY <3>1, <3>2
    <2>4. k \in openSend => sUnacked'[k] <= sUnacked[k]
      <3>1. CASE k # sendContract
        BY <1>3, <1>5, <2>1, <3>1
      <3>2. CASE k = sendContract /\ k \in openSend
        <4>1. CASE Effective(b) <= Debited(b)[k]
          <5>1. sUnacked'[k] = Debited(b)[k] - Effective(b)
            BY <2>1, <3>2, <4>1
          <5>2. Debited(b)[k] <= sUnacked[k] + Effective(b) /\ Debited(b)[k] \in Nat
            BY <1>2, <1>3, <1>5
          <5> QED BY <1>2, <1>5, <5>1, <5>2
        <4>2. CASE ~(Effective(b) <= Debited(b)[k])
          <5>1. Debited(b)[k] = sUnacked[k]
            BY <1>2, <1>3, <1>5, <4>2
          <5>2. sUnacked'[k] = Debited(b)[k]
            BY <1>2, <1>5, <2>1, <3>2, <4>2, <5>1
          <5> QED BY <1>5, <5>1, <5>2
        <4> QED BY <4>1, <4>2
      <3> QED BY <3>1, <3>2
    <2>5. noContract = {} => ~badAccounting'
      BY <1>1, <2>2
    <2> QED BY <1>1, <1>6, <1>7, <2>3, <2>4, <2>5
  <1>9. CASE /\ setting.nackWriteFails
             /\ sUnacked' = Debited(b) /\ sAcked' = sAcked
             /\ badAccounting' = badAccounting
    <2>1. sUnacked[k] <= sUnacked'[k]
      BY <1>2, <1>3, <1>5, <1>9
    <2>2. ~badAccounting'
      BY <1>1, <1>9
    <2> QED BY <1>1, <1>6, <1>7, <1>9, <2>1, <2>2
  <1> QED BY <1>4, <1>8, <1>9

LEMMA SendsNackLedger ==
    ASSUME TypeOK, NackInv, LedgerInv, NEW b \in Sizes, SendsNack(b), setting' = setting
    PROVE  LedgerInv'
  <1> SUFFICES ASSUME NEW k \in Contracts PROVE Ledger(k)'
    BY DEF LedgerInv
  <1> DEFINE n == Len(items)
             m == [id |-> nacks, contract |-> sendContract, bytes |-> b]
  <1>1. PICK f, g : /\ Sums(f, k, items) /\ NackSums(g, k, nackNet, nacks)
                    /\ ReceiverLedger(k, f, g) /\ SenderLedger(k, f)
    BY DEF LedgerInv, Ledger
  <1>2. /\ UNCHANGED <<noContract, sendContract, openSend, ackedTo, rNext, rAcked>>
    BY DEF SendsNack, SendBase, rVars
  <1>3. /\ nacks' = nacks + 1 /\ items' = items
        /\ nackNet' = nackNet \cup {m} \/ (setting.nackWriteFails /\ nackNet' = nackNet)
    BY SendsNackIs
  <1>4. b \in Nat /\ Effective(b) \in Nat /\ nacks \in Nat
    BY Bounds, EffectiveNat, StreamNats DEF TypeOK
  <1> DEFINE v == IF k = sendContract THEN Effective(b) ELSE 0
  <1>5. m.id = nacks /\ Counts(k, m) = v /\ v \in Nat
    BY <1>4 DEF Counts
  <1>6. \A x \in nackNet : x.id \in Nat /\ x.id < nacks
    <2>1. nackNet \subseteq [id : Nat, contract : 0 .. MaxContracts, bytes : Sizes]
      BY DEF TypeOK
    <2> QED BY <2>1 DEF NackInv
  <1> HIDE DEF m, v
  <1>7. PICK h : /\ NackSums(h, k, nackNet', nacks')
                 /\ h[nacks'] <= g[nacks] + v /\ h[nacks'] \in Nat
    <2>1. g[nacks] \in Nat
      BY <1>1, SumsAre
    <2>2. PICK h : /\ NackSums(h, k, nackNet, nacks + 1)
                   /\ h[nacks + 1] = g[nacks] + v
                   /\ \A x : x.id = nacks /\ Counts(k, x) <= v /\ Counts(k, x) \in Nat =>
                                NackSums(h, k, nackNet \cup {x}, nacks + 1)
      BY <1>1, <1>4, <1>5, <1>6, NackSumsExtend
    <2>3. v <= v
      BY <1>5
    <2>4. NackSums(h, k, nackNet \cup {m}, nacks + 1)
      BY <1>5, <2>2, <2>3
    <2>5. h[nacks'] <= g[nacks] + v /\ h[nacks'] \in Nat
      BY <1>3, <1>5, <2>1, <2>2
    <2> QED BY <1>3, <2>2, <2>4, <2>5
  <1>8. /\ sAcked'[k] + sUnacked'[k] =
                 sAcked[k] + sUnacked[k]
                     + IF ~SendNoContract /\ k = sendContract THEN Effective(b) ELSE 0
        /\ ~(SendNoContract /\ k = sendContract) => sUnacked[k] <= sUnacked'[k]
        /\ k \in openSend => sUnacked'[k] <= sUnacked[k] \/ setting.nackWriteFails
        /\ ~badAccounting
        /\ sAcked'[k] \in Nat /\ sUnacked'[k] \in Nat
    BY SendsNackDebits
  <1>9. /\ f[n] \in Nat /\ f[ackedTo] \in Nat /\ f[rNext - 1] \in Nat /\ g[nacks] \in Nat
        /\ sAcked[k] \in Nat /\ sUnacked[k] \in Nat /\ rAcked[k] \in Nat
    <2>1. rAcked[k] \in Nat
      BY DEF TypeOK
    <2> QED BY <1>1, <2>1, SumsAre, SenderNats
  <1>10. ReceiverLedger(k, f, h)'
    <2> SUFFICES ASSUME noContract = {} PROVE ReceiverLedger(k, f, h)'
      BY <1>2 DEF ReceiverLedger
    <2>1. /\ g[nacks] + f[n] <= sAcked[k] + sUnacked[k]
          /\ rAcked[k] + g[nacks] + f[n] <= f[rNext - 1] + sAcked[k] + sUnacked[k]
      BY <1>1 DEF ReceiverLedger
    <2>2. sAcked'[k] + sUnacked'[k] = sAcked[k] + sUnacked[k] + v
      BY <1>8 DEF SendNoContract, v
    <2> HIDE DEF n
    <2>3. /\ h[nacks'] + f[n] <= sAcked'[k] + sUnacked'[k]
          /\ rAcked[k] + h[nacks'] + f[n] <= f[rNext - 1] + sAcked'[k] + sUnacked'[k]
      BY <1>5, <1>7, <1>8, <1>9, <2>1, <2>2
    <2> QED BY <1>2, <1>3, <2>3 DEF ReceiverLedger, n
  <1>11. SenderLedger(k, f)'
    <2> SUFFICES ASSUME k \in openSend PROVE SenderLedger(k, f)'
      BY <1>2 DEF SenderLedger
    <2>1. ASSUME "s" \notin noContract \/ k # sendContract
          PROVE  f[n] <= f[ackedTo] + sUnacked'[k]
      <3>1. f[n] <= f[ackedTo] + sUnacked[k]
        BY <1>1, <2>1 DEF SenderLedger
      <3>2. sUnacked[k] <= sUnacked'[k]
        BY <1>8, <2>1 DEF SendNoContract
      <3> QED BY <1>8, <1>9, <3>1, <3>2
    <2>2. ASSUME ~badAccounting', ~setting.nackWriteFails
          PROVE  f[ackedTo] + sUnacked'[k] <= f[n]
      <3>1. f[ackedTo] + sUnacked[k] <= f[n]
        BY <1>1, <1>8, <2>2 DEF SenderLedger
      <3> QED BY <1>8, <1>9, <2>2, <3>1
    <2> QED BY <1>2, <1>3, <2>1, <2>2 DEF SenderLedger
  <1> QED BY <1>1, <1>3, <1>7, <1>10, <1>11 DEF Ledger

\* A contract that is taken has no frames yet, and counts its own pack and the
\* frame it was taken for.
LEMMA NewContractLedger ==
    ASSUME TypeOK, SenderInv, LedgerInv, NEW b \in Sizes, NEW t \in TransferByteCounts,
           SendOnNewContract(b, t), setting' = setting
    PROVE  LedgerInv'
  <1> SUFFICES ASSUME NEW k \in Contracts PROVE Ledger(k)'
    BY DEF LedgerInv
  <1> DEFINE n == Len(items)
             c == taken + 1
             s == [i \in 1 .. n + 1 |-> items'[i]]
  <1>1. PICK f, g : /\ Sums(f, k, items) /\ NackSums(g, k, nackNet, nacks)
                    /\ ReceiverLedger(k, f, g) /\ SenderLedger(k, f)
    BY DEF LedgerInv, Ledger
  <1>2. /\ ~SendNoContract /\ sendContract' = c
        /\ sUnacked' = [sUnacked EXCEPT ![c] = DebitOfNew(b)]
        /\ openSend' \subseteq openSend \cup {c}
        /\ UNCHANGED <<noContract, ackedTo, rNext, rAcked, sAcked, badAccounting, nackNet, nacks>>
    BY DEF SendOnNewContract, rVars
  <1>3. /\ c \in Contracts
        /\ items' \in Seq(ItemType) /\ DOMAIN items' = 1 .. n + 2 /\ Len(items') = n + 2
        /\ \A i \in 1 .. n : items'[i] = items[i]
        /\ items'[n + 1].contract = c /\ items'[n + 1].bytes = 0
        /\ items'[n + 2].contract = c /\ items'[n + 2].bytes = b
    BY NewContractItems
  <1>4. /\ b \in Nat /\ Effective(b) \in Nat /\ Effective(0) \in Nat /\ 0 \in Nat
        /\ n \in Nat /\ DOMAIN items = 1 .. n /\ taken \in Nat
    BY Bounds, EffectiveNat, StreamNats, SenderNats DEF TypeOK
  <1>5. /\ s \in Seq(ItemType) /\ Len(s) = n + 1 /\ DOMAIN s = 1 .. n + 1
        /\ \A i \in 1 .. n + 1 : s[i] = items'[i]
    <2>1. \A i \in 1 .. n + 1 : items'[i] \in ItemType
      BY <1>3, <1>4
    <2>2. n + 1 \in Nat
      BY <1>4
    <2> HIDE DEF n
    <2> QED BY <2>1, <2>2
  <1> HIDE DEF s
  <1>6. PICK e : /\ Sums(e, k, s)
                 /\ e[n + 1] = f[n] + Counts(k, s[n + 1])
                 /\ \A j \in 0 .. n : e[j] = f[j]
    <2>1. s[n + 1].bytes \in Nat /\ \A i \in 1 .. n : s[i] = items[i]
      BY <1>3, <1>4, <1>5
    <2> QED BY <1>1, <1>4, <1>5, <2>1, SumsExtend
  <1>7. PICK h : /\ Sums(h, k, items')
                 /\ h[n + 2] = e[n + 1] + Counts(k, items'[n + 2])
                 /\ \A j \in 0 .. n + 1 : h[j] = e[j]
    <2>1. /\ Len(s) \in Nat /\ DOMAIN s = 1 .. Len(s) /\ DOMAIN items' = 1 .. Len(s) + 1
          /\ Len(items') = Len(s) + 1 /\ Len(s) + 1 = n + 2 /\ items'[Len(s) + 1].bytes \in Nat
          /\ \A i \in 1 .. Len(s) : items'[i] = s[i]
      BY <1>3, <1>4, <1>5
    <2>2. PICK h : /\ Sums(h, k, items')
                   /\ h[Len(s) + 1] = e[Len(s)] + Counts(k, items'[Len(s) + 1])
                   /\ \A j \in 0 .. Len(s) : h[j] = e[j]
      BY <1>6, <2>1, SumsExtend
    <2> QED BY <1>5, <2>1, <2>2
  <1>8. s[n + 1] = items'[n + 1]
    BY <1>4, <1>5
  <1>9. \A j \in 0 .. n : h[j] = f[j]
    BY <1>4, <1>6, <1>7
  <1>10. h[rNext - 1] = f[rNext - 1] /\ h[ackedTo] = f[ackedTo]
    BY <1>9, StreamNats
  <1>11. /\ f[n] \in Nat /\ f[ackedTo] \in Nat /\ f[rNext - 1] \in Nat /\ g[nacks] \in Nat
         /\ sAcked[k] \in Nat /\ sUnacked[k] \in Nat /\ rAcked[k] \in Nat
         /\ sUnacked \in [Contracts -> Nat]
    <2>1. rAcked[k] \in Nat
      BY DEF TypeOK
    <2> QED BY <1>1, <2>1, SumsAre, SenderNats
  <1>12. NackSums(g, k, nackNet', nacks')
    BY <1>1, <1>2
  <1>13. CASE k = c
    <2>1. /\ h[n + 2] = f[n] + Effective(0) + Effective(b)
          /\ sUnacked'[k] = Effective(0) + Effective(b)
      <3>1. e[n + 1] = f[n] + Effective(0) /\ h[n + 2] = e[n + 1] + Effective(b)
        BY <1>3, <1>6, <1>7, <1>8, <1>13 DEF Counts
      <3>2. sUnacked'[k] = DebitOfNew(b)
        BY <1>2, <1>11, <1>13
      <3> QED BY <3>1, <3>2 DEF DebitOfNew
    <2>2. f[n] = 0 /\ f[ackedTo] = 0 /\ f[rNext - 1] = 0
      <3>1. \A i \in 1 .. n : items[i].contract # k
        <4>1. \A i \in 1 .. n : items[i].contract \in Nat /\ items[i].contract <= taken
          BY <1>4, ItemsAre DEF SenderInv
        <4> QED BY <1>4, <1>13, <4>1
      <3>2. ~(f[0] < f[n])
        <4>1. 0 \in 0 .. n /\ n \in 0 .. n /\ 0 <= n
          BY <1>4
        <4>2. f[0] < f[n] => \E i \in 0 + 1 .. n : items[i].contract = k
          BY <1>1, <4>1 DEF Sums
        <4> QED BY <3>1, <4>2
      <3> QED BY <1>1, <1>11, <3>2, SumsAre
    <2>3. sAcked[k] = 0 /\ sUnacked[k] = 0
      BY <1>4, <1>13, SenderNats DEF SenderInv, ContractOK
    <2>4. ReceiverLedger(k, h, g)'
      <3> SUFFICES ASSUME noContract = {} PROVE ReceiverLedger(k, h, g)'
        BY <1>2 DEF ReceiverLedger
      <3>1. /\ g[nacks] + f[n] <= sAcked[k] + sUnacked[k]
            /\ rAcked[k] + g[nacks] + f[n] <= f[rNext - 1] + sAcked[k] + sUnacked[k]
        BY <1>1 DEF ReceiverLedger
      <3>2. g[nacks] = 0 /\ rAcked[k] = 0
        BY <1>11, <2>2, <2>3, <3>1
      <3> HIDE DEF n, c
      <3>3. h[n + 2] = Effective(0) + Effective(b) /\ h[n + 2] \in Nat
        BY <1>4, <2>1, <2>2
      <3>4. /\ g[nacks] + h[n + 2] <= sAcked[k] + sUnacked'[k]
            /\ rAcked[k] + g[nacks] + h[n + 2] <= h[rNext - 1] + sAcked[k] + sUnacked'[k]
        BY <1>4, <1>10, <2>1, <2>2, <2>3, <3>2, <3>3
      <3> QED BY <1>2, <1>3, <3>4 DEF ReceiverLedger, n
    <2>5. SenderLedger(k, h)'
      <3> HIDE DEF n, c
      <3>1. h[n + 2] = h[ackedTo] + sUnacked'[k] /\ h[n + 2] \in Nat
        BY <1>4, <1>10, <2>1, <2>2
      <3>2. h[n + 2] <= h[ackedTo] + sUnacked'[k] /\ h[ackedTo] + sUnacked'[k] <= h[n + 2]
        BY <3>1
      <3> QED BY <1>2, <1>3, <3>2 DEF SenderLedger, n
    <2> QED BY <1>7, <1>12, <2>4, <2>5 DEF Ledger
  <1>14. CASE k # c
    <2>1. h[n + 2] = f[n] /\ sUnacked'[k] = sUnacked[k]
      <3>1. e[n + 1] = f[n] + 0 /\ h[n + 2] = e[n + 1] + 0
        BY <1>3, <1>6, <1>7, <1>8, <1>14 DEF Counts
      <3> HIDE DEF n, c
      <3> QED BY <1>2, <1>11, <1>14, <3>1
    <2>2. ReceiverLedger(k, h, g)'
      BY <1>1, <1>2, <1>3, <1>10, <2>1 DEF ReceiverLedger
    <2>3. k \in openSend' => k \in openSend /\ f[n] <= f[ackedTo] + sUnacked[k]
      BY <1>1, <1>2, <1>14 DEF SenderLedger, SendNoContract
    <2>4. SenderLedger(k, h)'
      BY <1>1, <1>2, <1>3, <1>10, <2>1, <2>3 DEF SenderLedger
    <2> QED BY <1>7, <1>12, <2>2, <2>4 DEF Ledger
  <1> QED BY <1>13, <1>14

\* The frame that is acked was debited, unless it was sent without.
LEMMA AckNextDebits ==
    ASSUME TypeOK, LedgerInv, AckNext, setting' = setting, NEW c, NEW e,
           c = items[ackedTo + 1].contract, e = Effective(items[ackedTo + 1].bytes)
    PROVE  /\ ackedTo + 1 \in 1 .. Len(items) /\ c \in 0 .. MaxContracts /\ e \in Nat
           /\ ~badAccounting
           /\ \A k \in Contracts :
                 /\ sAcked'[k] + sUnacked'[k] = sAcked[k] + sUnacked[k]
                 /\ k # c \/ k \notin openSend => sUnacked'[k] = sUnacked[k]
           /\ c \notin openSend => ~badAccounting'
           /\ c \in openSend =>
                 /\ e <= sUnacked[c] => sUnacked'[c] = sUnacked[c] - e /\ ~badAccounting'
                 /\ sUnacked[c] < e => badAccounting'
                 /\ "s" \notin noContract \/ c # sendContract => e <= sUnacked[c]
  <1>1. /\ ackedTo < receivedTo /\ ~badAccounting
        /\ AckBytes(c, items[ackedTo + 1].bytes, sUnacked)
    BY DEF AckNext
  <1>2. ackedTo + 1 \in 1 .. Len(items)
    BY <1>1, StreamNats
  <1>3. c \in 0 .. MaxContracts /\ items[ackedTo + 1].bytes \in Nat /\ e \in Nat
    BY <1>2, ItemsAre
  <1>4. sUnacked \in [Contracts -> Nat] /\ openSend \subseteq Contracts
    BY DEF TypeOK
  <1>5. /\ \A k \in Contracts :
                 /\ sAcked'[k] + sUnacked'[k] = sAcked[k] + sUnacked[k]
                 /\ k # c \/ k \notin openSend => sUnacked'[k] = sUnacked[k]
        /\ c \notin openSend => badAccounting' = badAccounting
        /\ c \in openSend =>
                 /\ e <= sUnacked[c] => /\ sUnacked'[c] = sUnacked[c] - e
                                        /\ badAccounting' = badAccounting
                 /\ sUnacked[c] < e => badAccounting'
    BY <1>1, <1>3, <1>4, AckBytesIs
  <1>6. ASSUME c \in openSend, "s" \notin noContract \/ c # sendContract
        PROVE  e <= sUnacked[c]
    <2>1. PICK f, g : /\ Sums(f, c, items) /\ NackSums(g, c, nackNet, nacks)
                      /\ SenderLedger(c, f)
      BY <1>4, <1>6 DEF LedgerInv, Ledger
    <2>2. f[Len(items)] <= f[ackedTo] + sUnacked[c]
      BY <1>6, <2>1 DEF SenderLedger
    <2>3. f[ackedTo + 1] = f[ackedTo] + e
      BY <1>2, <2>1, AckedCount
    <2>4. f[ackedTo + 1] <= f[Len(items)] /\ f[ackedTo] \in Nat /\ f[Len(items)] \in Nat
      <3>1. ackedTo + 1 \in 0 .. Len(items)
        BY <1>2, StreamNats
      <3> QED BY <2>1, <3>1, SumsAre
    <2>5. sUnacked[c] \in Nat
      BY <1>4, <1>6
    <2> QED BY <1>3, <2>2, <2>3, <2>4, <2>5
  <1> QED BY <1>1, <1>2, <1>3, <1>5, <1>6

LEMMA AckNextLedger ==
    ASSUME TypeOK, LedgerInv, AckNext, setting' = setting
    PROVE  LedgerInv'
  <1> SUFFICES ASSUME NEW k \in Contracts PROVE Ledger(k)'
    BY DEF LedgerInv
  <1> DEFINE n == Len(items)
             c == items[ackedTo + 1].contract
             e == Effective(items[ackedTo + 1].bytes)
  <1>1. PICK f, g : /\ Sums(f, k, items) /\ NackSums(g, k, nackNet, nacks)
                    /\ ReceiverLedger(k, f, g) /\ SenderLedger(k, f)
    BY DEF LedgerInv, Ledger
  <1>2. /\ ackedTo' = ackedTo + 1 /\ openSend' \subseteq openSend
        /\ UNCHANGED <<noContract, sendContract, items, rNext, rAcked, nackNet, nacks>>
    BY DEF AckNext, rVars
  <1>3. /\ ackedTo + 1 \in 1 .. n /\ c \in 0 .. MaxContracts /\ e \in Nat
        /\ ~badAccounting
        /\ sAcked'[k] + sUnacked'[k] = sAcked[k] + sUnacked[k]
        /\ k # c \/ k \notin openSend => sUnacked'[k] = sUnacked[k]
        /\ k = c /\ k \in openSend =>
                 /\ e <= sUnacked[k] => sUnacked'[k] = sUnacked[k] - e /\ ~badAccounting'
                 /\ sUnacked[k] < e => badAccounting'
                 /\ "s" \notin noContract \/ k # sendContract => e <= sUnacked[k]
    BY AckNextDebits
  <1>4. f[ackedTo + 1] = f[ackedTo] + IF k = c THEN e ELSE 0
    BY <1>1, <1>3, AckedCount
  <1> HIDE DEF c, e
  <1>5. /\ f[n] \in Nat /\ f[ackedTo] \in Nat /\ f[rNext - 1] \in Nat /\ g[nacks] \in Nat
        /\ sAcked[k] \in Nat /\ sUnacked[k] \in Nat
    BY <1>1, SumsAre, SenderNats
  <1>6. sAcked'[k] \in Nat /\ sUnacked'[k] \in Nat
    BY AckNextTypes, SenderNats DEF TypeOK
  <1>7. ReceiverLedger(k, f, g)'
    <2> SUFFICES ASSUME noContract = {} PROVE ReceiverLedger(k, f, g)'
      BY <1>2 DEF ReceiverLedger
    <2>1. /\ g[nacks] + f[n] <= sAcked[k] + sUnacked[k]
          /\ rAcked[k] + g[nacks] + f[n] <= f[rNext - 1] + sAcked[k] + sUnacked[k]
          /\ rAcked[k] \in Nat
      BY <1>1 DEF ReceiverLedger, TypeOK
    <2> HIDE DEF n
    <2>2. /\ g[nacks] + f[n] <= sAcked'[k] + sUnacked'[k]
          /\ rAcked[k] + g[nacks] + f[n] <= f[rNext - 1] + sAcked'[k] + sUnacked'[k]
      BY <1>3, <1>5, <1>6, <2>1
    <2> QED BY <1>2, <2>2 DEF ReceiverLedger, n
  <1>8. SenderLedger(k, f)'
    <2> SUFFICES ASSUME k \in openSend PROVE SenderLedger(k, f)'
      BY <1>2 DEF SenderLedger
    <2> HIDE DEF n
    <2>1. ASSUME "s" \notin noContract \/ k # sendContract
          PROVE  f[n] <= f[ackedTo + 1] + sUnacked'[k]
      <3>1. f[n] <= f[ackedTo] + sUnacked[k]
        BY <1>1, <2>1 DEF SenderLedger, n
      <3>2. CASE k = c
        <4>1. sUnacked'[k] = sUnacked[k] - e
          BY <1>3, <2>1, <3>2
        <4> QED BY <1>3, <1>4, <1>5, <3>1, <3>2, <4>1
      <3>3. CASE k # c
        BY <1>3, <1>4, <1>5, <3>1, <3>3
      <3> QED BY <3>2, <3>3
    <2>2. ASSUME ~badAccounting', ~setting.nackWriteFails
          PROVE  f[ackedTo + 1] + sUnacked'[k] <= f[n]
      <3>1. f[ackedTo] + sUnacked[k] <= f[n]
        BY <1>1, <1>3, <2>2 DEF SenderLedger, n
      <3>2. CASE k = c
        <4>1. e <= sUnacked[k]
          BY <1>3, <1>5, <2>2, <3>2
        <4>2. sUnacked'[k] = sUnacked[k] - e
          BY <1>3, <3>2, <4>1
        <4> QED BY <1>3, <1>4, <1>5, <3>1, <3>2, <4>2
      <3>3. CASE k # c
        BY <1>3, <1>4, <1>5, <3>1, <3>3
      <3> QED BY <3>2, <3>3
    <2> QED BY <1>2, <2>1, <2>2 DEF SenderLedger, n
  <1>9. Sums(f, k, items') /\ NackSums(g, k, nackNet', nacks')
    BY <1>1, <1>2
  <1> QED BY <1>7, <1>8, <1>9 DEF Ledger

LEMMA ReceiveNextLedger ==
    ASSUME TypeOK, StreamInv, RunInv, OpenInv, LedgerInv, NEW i \in 1 .. Len(items),
           NEW with \in BOOLEAN, ReceiveNext(i, with), setting' = setting
    PROVE  LedgerInv'
  <1> SUFFICES ASSUME NEW k \in Contracts PROVE Ledger(k)'
    BY DEF LedgerInv
  <1> DEFINE n == Len(items)
             e == Effective(items[i].bytes)
  <1>1. PICK f, g : /\ Sums(f, k, items) /\ NackSums(g, k, nackNet, nacks)
                    /\ ReceiverLedger(k, f, g) /\ SenderLedger(k, f)
    BY DEF LedgerInv, Ledger
  <1>2. /\ UNCHANGED <<noContract, openSend, sendContract, sAcked, sUnacked, items, ackedTo, nacks,
                       badAccounting, nackNet>>
        /\ AtFront(i) /\ rNext' = i + 1
        /\ rAcked' \in [Contracts -> Nat]
        /\ noContract = {} =>
              rAcked'[k] <= rAcked[k] + IF k = items[i].contract THEN e ELSE 0
    BY ReceiveNextIs DEF OpenInv
  <1>3. f[i] = f[i - 1] + IF k = items[i].contract THEN e ELSE 0
    <2>1. f[i] = f[i - 1] + Counts(k, items[i])
      BY <1>1, ItemsAre DEF Sums
    <2> QED BY <2>1 DEF Counts
  <1>4. e \in Nat
    BY ItemsAre
  <1> HIDE DEF e
  <1>5. /\ f[n] \in Nat /\ f[rNext - 1] \in Nat /\ g[nacks] \in Nat
        /\ sAcked[k] \in Nat /\ sUnacked[k] \in Nat /\ rAcked[k] \in Nat /\ rAcked'[k] \in Nat
    <2>1. rAcked[k] \in Nat /\ rAcked'[k] \in Nat
      BY <1>2 DEF TypeOK
    <2> QED BY <1>1, <2>1, SumsAre, SenderNats
  <1>6. f[rNext - 1] <= f[i - 1] /\ f[i - 1] \in Nat
    <2>1. rNext - 1 \in 0 .. n /\ i - 1 \in 0 .. n /\ rNext - 1 <= i - 1
      BY <1>2, StreamNats DEF AtFront
    <2> QED BY <1>1, <2>1 DEF Sums
  <1>7. ReceiverLedger(k, f, g)'
    <2> SUFFICES ASSUME noContract = {} PROVE ReceiverLedger(k, f, g)'
      BY <1>2 DEF ReceiverLedger
    <2>1. /\ g[nacks] + f[n] <= sAcked[k] + sUnacked[k]
          /\ rAcked[k] + g[nacks] + f[n] <= f[rNext - 1] + sAcked[k] + sUnacked[k]
      BY <1>1 DEF ReceiverLedger
    <2> HIDE DEF n
    <2>2. rAcked'[k] + g[nacks] + f[n] <= f[i] + sAcked[k] + sUnacked[k]
      <3>1. PICK d \in Nat : d = IF k = items[i].contract THEN e ELSE 0
        BY <1>4
      <3>2. rAcked'[k] <= rAcked[k] + d /\ f[i] = f[i - 1] + d
        BY <1>2, <1>3, <3>1
      <3>3. PICK r \in Nat, s \in Nat, p \in Nat, q \in Nat, u \in Nat :
                 r = rAcked[k] /\ s = rAcked'[k] /\ p = f[rNext - 1] /\ q = f[i - 1]
                     /\ u = sUnacked[k]
        BY <1>5, <1>6
      <3>4. PICK x \in Nat, y \in Nat, a \in Nat : x = g[nacks] /\ y = f[n] /\ a = sAcked[k]
        BY <1>5
      <3>5. s <= r + d /\ f[i] = q + d /\ p <= q /\ r + x + y <= p + a + u
        BY <1>6, <2>1, <3>2, <3>3, <3>4
      <3>6. /\ s \in Nat /\ p \in Nat /\ q \in Nat /\ x \in Nat /\ y \in Nat /\ a \in Nat
            /\ u \in Nat /\ r \in Nat /\ d \in Nat /\ s <= r + d
        BY <3>1, <3>3, <3>4, <3>5
      <3>7. s + x + y <= q + d + a + u
        <4>1. p <= q /\ r + x + y <= p + a + u
          BY <3>5
        <4> QED BY ONLY <3>6, <4>1
      <3> QED BY <3>3, <3>4, <3>5, <3>7
    <2>3. rNext' - 1 = i
      BY <1>2
    <2> QED BY <1>2, <2>1, <2>2, <2>3 DEF ReceiverLedger, n
  <1>8. SenderLedger(k, f)'
    BY <1>1, <1>2 DEF SenderLedger
  <1>9. Sums(f, k, items') /\ NackSums(g, k, nackNet', nacks')
    BY <1>1, <1>2
  <1> QED BY <1>7, <1>8, <1>9 DEF Ledger

LEMMA StartsOverLedger ==
    ASSUME TypeOK, LedgerInv, setting' = setting,
           ReceiverExit \/ \E i \in 1 .. Len(items), with \in BOOLEAN : RejectNext(i, with)
    PROVE  LedgerInv'
  <1> SUFFICES ASSUME NEW k \in Contracts PROVE Ledger(k)'
    BY DEF LedgerInv
  <1>1. PICK f, g : /\ Sums(f, k, items) /\ NackSums(g, k, nackNet, nacks)
                    /\ ReceiverLedger(k, f, g) /\ SenderLedger(k, f)
    BY DEF LedgerInv, Ledger
  <1>2. /\ rNext' = 1 /\ rAcked' = Zero
        /\ UNCHANGED <<noContract, openSend, sendContract, sAcked, sUnacked, items, ackedTo, nacks,
                       badAccounting, nackNet>>
    BY StartsOverIs
  <1>3. f[0] = 0 /\ f[Len(items)] \in Nat /\ g[nacks] \in Nat
        /\ sAcked[k] \in Nat /\ sUnacked[k] \in Nat
    BY <1>1, SumsAre, SenderNats
  <1>4. ReceiverLedger(k, f, g)'
    <2> SUFFICES ASSUME noContract = {} PROVE ReceiverLedger(k, f, g)'
      BY <1>2 DEF ReceiverLedger
    <2>1. g[nacks] + f[Len(items)] <= sAcked[k] + sUnacked[k]
      BY <1>1 DEF ReceiverLedger
    <2>2. rAcked'[k] = 0 /\ rNext' - 1 = 0
      BY <1>2 DEF Zero
    <2>3. 0 + g[nacks] + f[Len(items)] <= 0 + sAcked[k] + sUnacked[k]
      BY <1>3, <2>1
    <2> QED BY <1>2, <1>3, <2>1, <2>2, <2>3 DEF ReceiverLedger
  <1>5. SenderLedger(k, f)'
    BY <1>1, <1>2 DEF SenderLedger
  <1>6. Sums(f, k, items') /\ NackSums(g, k, nackNet', nacks')
    BY <1>1, <1>2
  <1> QED BY <1>4, <1>5, <1>6 DEF Ledger

LEMMA ReceiveNackLedger ==
    ASSUME TypeOK, NackInv, LedgerInv, NEW m \in nackNet, ReceiveNack(m), setting' = setting
    PROVE  LedgerInv'
  <1> SUFFICES ASSUME NEW k \in Contracts PROVE Ledger(k)'
    BY DEF LedgerInv
  <1>1. PICK f, g : /\ Sums(f, k, items) /\ NackSums(g, k, nackNet, nacks)
                    /\ ReceiverLedger(k, f, g) /\ SenderLedger(k, f)
    BY DEF LedgerInv, Ledger
  <1>2. /\ nackNet' = nackNet \ {m} /\ ~badAccounting
        /\ rAcked' \in [Contracts -> Nat]
        /\ rAcked'[k] <= rAcked[k] + IF m.contract = k \/ (m.contract = 0 /\ receiveContract = k)
                                     THEN Effective(m.bytes) ELSE 0
        /\ UNCHANGED <<noContract, openSend, sendContract, sAcked, sUnacked, items, ackedTo, nacks,
                       rNext>>
    BY ReceiveNackIs
  <1>3. Sums(f, k, items')
    BY <1>1, <1>2
  <1>4. SenderLedger(k, f)'
    BY <1>1, <1>2 DEF SenderLedger
  <1>5. CASE noContract = {}
    <2>1. m.contract # 0
      BY <1>5 DEF NackInv
    <2>2. \A x \in nackNet : x.id \in Nat /\ x.id < nacks /\ x.bytes \in Nat
      <3>1. nackNet \subseteq [id : Nat, contract : 0 .. MaxContracts, bytes : Sizes]
            /\ Sizes \subseteq Nat
        BY Bounds DEF TypeOK
      <3> QED BY <3>1 DEF NackInv
    <2>3. \A x \in nackNet : Counts(k, x) \in Nat
      BY <2>2, CountsNat
    <2>4. PICK e \in Nat : e = Counts(k, m)
      BY <2>3
    <2>5. rAcked'[k] <= rAcked[k] + e
      BY <1>2, <2>1, <2>4 DEF Counts
    <2>6. PICK h : /\ NackSums(h, k, nackNet \ {m}, nacks)
                   /\ h[nacks] = g[nacks] - e /\ h[nacks] \in Nat
      <3>1. \A x, y \in nackNet : x.id = y.id => x = y
        BY DEF NackInv
      <3>2. nacks \in Nat
        BY StreamNats
      <3> QED BY <1>1, <2>2, <2>3, <2>4, <3>1, <3>2, NackSumsLess
    <2>7. /\ f[Len(items)] \in Nat /\ f[rNext - 1] \in Nat /\ g[nacks] \in Nat
          /\ sAcked[k] \in Nat /\ sUnacked[k] \in Nat
          /\ rAcked[k] \in Nat /\ rAcked'[k] \in Nat
      <3>1. rAcked[k] \in Nat /\ rAcked'[k] \in Nat
        BY <1>2 DEF TypeOK
      <3> QED BY <1>1, <3>1, SumsAre, SenderNats
    <2>8. /\ g[nacks] + f[Len(items)] <= sAcked[k] + sUnacked[k]
          /\ rAcked[k] + g[nacks] + f[Len(items)] <= f[rNext - 1] + sAcked[k] + sUnacked[k]
      BY <1>1, <1>5 DEF ReceiverLedger
    <2>9. /\ h[nacks] + f[Len(items)] <= sAcked[k] + sUnacked[k]
          /\ rAcked'[k] + h[nacks] + f[Len(items)] <= f[rNext - 1] + sAcked[k] + sUnacked[k]
      <3> HIDE DEF Effective, Counts
      <3>1. h[nacks] + e = g[nacks]
        BY <2>4, <2>6, <2>7
      <3>2. PICK r \in Nat, s \in Nat, p \in Nat, u \in Nat, a \in Nat :
                 r = rAcked[k] /\ s = rAcked'[k] /\ p = f[rNext - 1]
                     /\ u = sUnacked[k] /\ a = sAcked[k]
        BY <2>7
      <3>3. PICK x \in Nat, y \in Nat, z \in Nat :
                 x = g[nacks] /\ y = f[Len(items)] /\ z = h[nacks]
        BY <2>6, <2>7
      <3>4. s <= r + e /\ z + e = x /\ x + y <= a + u /\ r + x + y <= p + a + u
        BY <2>5, <2>8, <3>1, <3>2, <3>3
      <3>5. /\ s \in Nat /\ p \in Nat /\ x \in Nat /\ y \in Nat /\ z \in Nat /\ a \in Nat
            /\ u \in Nat /\ r \in Nat /\ e \in Nat
        BY <2>4, <3>2, <3>3
      <3>6. z + y <= a + u /\ s + z + y <= p + a + u
        BY ONLY <3>4, <3>5
      <3> QED BY <3>2, <3>3, <3>6
    <2>10. ReceiverLedger(k, f, h)'
      BY <1>2, <2>9 DEF ReceiverLedger
    <2>11. NackSums(h, k, nackNet', nacks')
      BY <1>2, <2>6
    <2> QED BY <1>3, <1>4, <2>10, <2>11 DEF Ledger
  <1>6. CASE noContract # {}
    <2>1. ReceiverLedger(k, f, g)'
      BY <1>2, <1>6 DEF ReceiverLedger
    <2>2. NackSums(g, k, nackNet', nacks')
      BY <1>1, <1>2 DEF NackSums
    <2> QED BY <1>3, <1>4, <2>1, <2>2 DEF Ledger
  <1> QED BY <1>5, <1>6

-----------------------------------------------------------------------------
(* Pending frames, and the end of contracts.                               *)

LEMMA SendPending ==
    ASSUME TypeOK, SenderInv, PendingInv, NEW b \in Sizes, SendsFrame(b) \/ SendsNack(b)
    PROVE  PendingInv'
  <1>1. /\ UNCHANGED <<sOpen, openSend, ackedTo, sendContract>>
        /\ sOpen
    BY DEF SendsFrame, SendsNack, SendBase
  <1> SUFFICES ASSUME MinMessageByteCount > 0, NEW i \in Pending'
               PROVE  items'[i].contract \in openSend \cup {0}
    BY <1>1 DEF PendingInv
  <1>2. \A j \in Pending : items[j].contract \in openSend \cup {0}
    BY <1>1 DEF PendingInv
  <1>3. CASE SendsFrame(b)
    <2>1. /\ Len(items') = Len(items) + 1 /\ \A j \in 1 .. Len(items) : items'[j] = items[j]
          /\ items'[Len(items) + 1].contract = sendContract
      BY <1>3, SendsFrameItems
    <2>2. CASE i = Len(items) + 1
      BY <1>1, <2>1, <2>2 DEF SenderInv
    <2>3. CASE i # Len(items) + 1
      <3>1. i \in Pending /\ i \in 1 .. Len(items)
        BY <1>1, <2>1, <2>3, StreamNats DEF Pending
      <3> QED BY <1>2, <2>1, <3>1
    <2> QED BY <2>2, <2>3
  <1>4. CASE SendsNack(b)
    <2>1. items' = items
      BY <1>4, SendsNackIs
    <2> QED BY <1>1, <1>2, <2>1 DEF Pending
  <1> QED BY <1>3, <1>4

LEMMA NewContractPending ==
    ASSUME TypeOK, SenderInv, LedgerInv, PendingInv, NEW b \in Sizes, NEW t \in TransferByteCounts,
           SendOnNewContract(b, t)
    PROVE  PendingInv'
  <1> DEFINE n == Len(items)
             old == sendContract
             c == taken + 1
  <1>1. /\ sOpen /\ ackedTo' = ackedTo /\ ~SendNoContract
        /\ openSend' = (openSend \cup {c}) \ IF ClosesWhenReplaced(old) THEN {old} ELSE {}
    BY DEF SendOnNewContract
  <1> SUFFICES ASSUME MinMessageByteCount > 0, NEW i \in Pending'
               PROVE  items'[i].contract \in openSend' \cup {0}
    BY DEF PendingInv
  <1>2. \A j \in Pending : items[j].contract \in openSend \cup {0}
    BY <1>1 DEF PendingInv
  <1>3. /\ Len(items') = n + 2 /\ \A j \in 1 .. n : items'[j] = items[j]
        /\ items'[n + 1].contract = c /\ items'[n + 2].contract = c
    BY NewContractItems
  <1>4. c # old /\ n \in Nat /\ ackedTo \in 0 .. n
    BY StreamNats, SenderNats DEF SenderInv
  <1>5. CASE i > n
    <2>1. i = n + 1 \/ i = n + 2
      BY <1>1, <1>3, <1>4, <1>5 DEF Pending
    <2>2. items'[i].contract = c
      BY <1>3, <2>1
    <2> QED BY <1>1, <1>4, <2>2
  <1>6. CASE ~(i > n)
    <2>1. i \in Pending /\ i \in 1 .. n /\ i \in ackedTo + 1 .. n
      BY <1>1, <1>3, <1>4, <1>6 DEF Pending
    <2>2. items'[i].contract = items[i].contract /\ items[i].contract \in openSend \cup {0}
      BY <1>2, <1>3, <2>1
    <2>3. ASSUME ClosesWhenReplaced(old), items[i].contract = old PROVE FALSE
      <3>1. old # 0 /\ sUnacked[old] = 0 /\ old \in openSend /\ old \in Contracts
        BY <2>2, <2>3, SenderNats DEF ClosesWhenReplaced
      <3>2. PICK f, g : /\ Sums(f, old, items) /\ NackSums(g, old, nackNet, nacks)
                        /\ SenderLedger(old, f)
        BY <3>1 DEF LedgerInv, Ledger
      <3>3. f[n] <= f[ackedTo] + sUnacked[old]
        BY <1>1, <3>1, <3>2 DEF SenderLedger, SendNoContract
      <3>4. f[n] <= f[ackedTo]
        BY <3>1, <3>2, <3>3, SumsAre
      <3> QED BY <1>4, <2>1, <2>3, <3>2, <3>4, NothingPending
    <2> QED BY <1>1, <2>2, <2>3
  <1> QED BY <1>5, <1>6

LEMMA AckNextPending ==
    ASSUME TypeOK, LedgerInv, PendingInv, AckNext, setting' = setting
    PROVE  PendingInv'
  <1> DEFINE n == Len(items)
             c == items[ackedTo + 1].contract
             e == Effective(items[ackedTo + 1].bytes)
  <1>1. /\ sOpen /\ ackedTo' = ackedTo + 1 /\ items' = items /\ sendContract' = sendContract
        /\ openSend' = openSend \ IF ClosesOnAck(c) THEN {c} ELSE {}
    BY DEF AckNext
  <1> SUFFICES ASSUME MinMessageByteCount > 0, NEW i \in Pending'
               PROVE  items[i].contract \in openSend' \cup {0}
    BY <1>1 DEF PendingInv
  <1>2. n \in Nat /\ ackedTo \in Nat
    BY StreamNats
  <1>3. i \in Pending /\ i \in ackedTo + 1 + 1 .. n
    BY <1>1, <1>2 DEF Pending
  <1>4. items[i].contract \in openSend \cup {0}
    BY <1>1, <1>3 DEF PendingInv
  <1>5. ASSUME ClosesOnAck(c), items[i].contract = c PROVE FALSE
    <2>1. c \in openSend /\ c # sendContract /\ sUnacked'[c] = 0 /\ c \in Contracts
      BY <1>5, SenderNats DEF ClosesOnAck
    <2>2. /\ ackedTo + 1 \in 1 .. n /\ e \in Nat
          /\ e <= sUnacked[c] /\ sUnacked'[c] = sUnacked[c] - e
      BY <2>1, AckNextDebits
    <2>3. PICK f, g : /\ Sums(f, c, items) /\ NackSums(g, c, nackNet, nacks)
                      /\ SenderLedger(c, f)
      BY <2>1 DEF LedgerInv, Ledger
    <2>4. f[n] <= f[ackedTo] + sUnacked[c]
      BY <2>1, <2>3 DEF SenderLedger
    <2>5. f[ackedTo + 1] = f[ackedTo] + e
      BY <2>2, <2>3, AckedCount
    <2>6. f[n] <= f[ackedTo + 1]
      <3>1. sUnacked[c] \in Nat /\ f[n] \in Nat /\ f[ackedTo] \in Nat
        BY <2>1, <2>3, SumsAre, SenderNats
      <3> HIDE DEF c, e, n
      <3> QED BY <2>1, <2>2, <2>4, <2>5, <3>1
    <2>7. ackedTo + 1 \in 0 .. n
      BY <1>2, <2>2
    <2> QED BY <1>3, <1>5, <2>3, <2>6, <2>7, NothingPending
  <1> QED BY <1>1, <1>4, <1>5

-----------------------------------------------------------------------------
(* The invariant is inductive.                                             *)

LEMMA QuietPending ==
    ASSUME PendingInv, UNCHANGED <<items, ackedTo, openSend>>, sOpen' => sOpen
    PROVE  PendingInv'
  BY DEF PendingInv, Pending

LEMMA SendInv ==
    ASSUME IInv, NEW b \in Sizes, NEW ack \in BOOLEAN, Send(b, ack), setting' = setting
    PROVE  IInv'
  <1>1. SendsFrame(b) \/ SendsNack(b)
    BY SendIs
  <1>2. /\ TypeOK /\ SenderInv /\ StreamInv /\ RunInv /\ OpenInv /\ NackInv /\ LedgerInv
        /\ PendingInv /\ NoBadAccounting
    BY DEF IInv
  <1>3. TypeOK' /\ SenderInv' /\ StreamInv' /\ RunInv' /\ NackInv' /\ PendingInv'
    BY <1>1, <1>2, SendTypes, SendSender, SendStream, SendRun, SendNacks, SendPending
  <1>4. UNCHANGED <<noContract, openReceive, receiveContract, gen, rNext, rClosed>>
    BY <1>1 DEF SendsFrame, SendsNack, SendBase, rVars
  <1>5. \A i \in 1 .. Len(items) : items'[i] = items[i]
    <2>1. CASE SendsFrame(b)
      BY <1>2, <2>1, SendsFrameItems
    <2>2. CASE SendsNack(b)
      BY <1>2, <2>2, SendsNackIs
    <2> QED BY <1>1, <2>1, <2>2
  <1>6. OpenInv'
    BY <1>2, <1>4, <1>5, SenderKeepsOpen
  <1>7. LedgerInv'
    BY <1>1, <1>2, SendsFrameLedger, SendsNackLedger
  <1>8. NoBadAccounting'
    <2>1. CASE SendsFrame(b)
      BY <2>1 DEF SendsFrame, SendBase, NoBadAccounting
    <2>2. CASE SendsNack(b)
      <3>1. CASE Contracts = {}
        <4>1. sendContract = 0
          <5>1. sendContract \in 0 .. MaxContracts
            BY <1>2 DEF TypeOK
          <5> QED BY <3>1, <5>1, InContracts
        <4>2. noContract # {}
          BY <2>2, <4>1 DEF SendsNack, SendBase, SendNoContract, SendFits
        <4> QED BY <1>4, <4>2 DEF NoBadAccounting
      <3>2. CASE Contracts # {}
        <4>1. PICK k \in Contracts : TRUE
          BY <3>2
        <4>2. noContract = {} => ~badAccounting'
          BY <1>2, <2>2, SendsNackDebits
        <4> QED BY <1>4, <4>2 DEF NoBadAccounting
      <3> QED BY <3>1, <3>2
    <2> QED BY <1>1, <2>1, <2>2
  <1> QED BY <1>3, <1>6, <1>7, <1>8 DEF IInv

LEMMA SendOnNewContractInv ==
    ASSUME IInv, NEW b \in Sizes, NEW t \in TransferByteCounts, SendOnNewContract(b, t),
           setting' = setting
    PROVE  IInv'
  <1>1. /\ TypeOK /\ SenderInv /\ StreamInv /\ RunInv /\ OpenInv /\ NackInv /\ LedgerInv
        /\ PendingInv /\ NoBadAccounting
    BY DEF IInv
  <1>2. /\ TypeOK' /\ SenderInv' /\ StreamInv' /\ RunInv' /\ LedgerInv' /\ PendingInv'
    BY <1>1, SendOnNewContractTypes, SendOnNewContractSender, NewContractStream, NewContractRun,
       NewContractLedger, NewContractPending
  <1>3. /\ UNCHANGED <<noContract, openReceive, receiveContract, gen, rNext, rClosed>>
        /\ UNCHANGED <<nackNet, nacks, badAccounting>>
    BY DEF SendOnNewContract, rVars
  <1>4. \A i \in 1 .. Len(items) : items'[i] = items[i]
    BY <1>1, NewContractItems
  <1>5. OpenInv'
    BY <1>1, <1>3, <1>4, SenderKeepsOpen
  <1>6. NackInv' /\ NoBadAccounting'
    BY <1>1, <1>3, FewerNacks DEF NoBadAccounting
  <1> QED BY <1>2, <1>5, <1>6 DEF IInv

LEMMA AckNextInv ==
    ASSUME IInv, AckNext, setting' = setting
    PROVE  IInv'
  <1>1. /\ TypeOK /\ SenderInv /\ StreamInv /\ RunInv /\ OpenInv /\ NackInv /\ LedgerInv
        /\ PendingInv /\ NoBadAccounting
    BY DEF IInv
  <1>2. TypeOK' /\ SenderInv' /\ StreamInv' /\ LedgerInv' /\ PendingInv'
    BY <1>1, AckNextTypes, AckNextSender, AckNextStream, AckNextLedger, AckNextPending
  <1>3. UNCHANGED <<noContract, items, sendContract, openReceive, receiveContract, gen, rNext,
                    rClosed, nackNet, nacks>>
    BY DEF AckNext, rVars
  <1>4. OpenInv' /\ RunInv' /\ NackInv'
    BY <1>1, <1>3, SenderKeepsOpen, FewerNacks DEF RunInv
  <1>5. NoBadAccounting'
    <2> SUFFICES ASSUME noContract = {} PROVE ~badAccounting'
      BY <1>3 DEF NoBadAccounting
    <2>1. PICK c, e : /\ c = items[ackedTo + 1].contract
                      /\ e = Effective(items[ackedTo + 1].bytes)
      OBVIOUS
    <2>2. /\ c \notin openSend => ~badAccounting'
          /\ c \in openSend =>
                 /\ e <= sUnacked[c] => ~badAccounting'
                 /\ "s" \notin noContract \/ c # sendContract => e <= sUnacked[c]
      BY <1>1, <2>1, AckNextDebits
    <2> QED BY <2>2
  <1> QED BY <1>2, <1>4, <1>5 DEF IInv

\* What SetHead and the steps that only take nacks away or end things keep.
LEMMA SmallStepInv ==
    ASSUME IInv, TypeOK', SenderInv', setting' = setting,
           nackNet' \subseteq nackNet, heads' \subseteq 1 .. ackedTo + 1,
           openSend' \subseteq openSend, sOpen' => openSend' = openSend /\ sOpen,
           noContract \subseteq noContract', badAccounting' = badAccounting,
           UNCHANGED <<items, ackedTo, contractAcked, sendContract, nacks, sAcked, sUnacked>>,
           UNCHANGED rVars
    PROVE  IInv'
  <1>1. /\ StreamInv /\ RunInv /\ OpenInv /\ NackInv /\ LedgerInv
        /\ PendingInv /\ NoBadAccounting
    BY DEF IInv
  <1>2. /\ noContract' = {} => noContract = {}
        /\ UNCHANGED <<rNext, receiveContract, openReceive, rAcked, receivedTo, rClosed, gen>>
    BY DEF rVars
  <1>3. StreamInv' /\ RunInv' /\ OpenInv' /\ NackInv'
    BY <1>1, <1>2, QuietStream
  <1>4. LedgerInv'
    BY <1>1, <1>2, QuietLedger
  <1>5. PendingInv' /\ NoBadAccounting'
    BY <1>1, <1>2 DEF PendingInv, Pending, NoBadAccounting
  <1> QED BY <1>3, <1>4, <1>5 DEF IInv

LEMMA SmallStepsInv ==
    ASSUME IInv, setting' = setting,
           \/ \E b \in Sizes, t \in TransferByteCounts : ContractTooSmall(b, t)
           \/ SetHead \/ SenderExit \/ LoseNack
           \/ \E side \in {"s", "r"} : AddNoContractPeer(side)
    PROVE  IInv'
  <1>1. TypeOK /\ SenderInv /\ heads \subseteq 1 .. ackedTo + 1
    BY DEF IInv, StreamInv
  <1>2. CASE \E b \in Sizes, t \in TransferByteCounts : ContractTooSmall(b, t)
    <2>1. PICK b \in Sizes, t \in TransferByteCounts : ContractTooSmall(b, t)
      BY <1>2
    <2>2. TypeOK' /\ SenderInv'
      BY <1>1, <2>1, ContractTooSmallTypes, ContractTooSmallSender
    <2>3. /\ UNCHANGED <<sOpen, noContract, sendContract, contractAcked, openSend, sAcked,
                   sUnacked, items, ackedTo, heads, nackNet, nacks, badAccounting>>
          /\ UNCHANGED rVars
      BY <2>1 DEF ContractTooSmall
    <2>4. sOpen' => openSend' = openSend /\ sOpen
      BY <2>3
    <2> QED BY <1>1, <2>2, <2>3, <2>4, SmallStepInv
  <1>3. CASE SetHead
    <2>1. TypeOK'
      BY <1>1, <1>3, SmallTypes
    <2>2. /\ UNCHANGED <<sOpen, noContract, taken, granted, sendContract, contractAcked,
                   openSend, sAcked, sUnacked, sClosed, items, ackedTo, nacks,
                   badAccounting, nackNet>>
          /\ UNCHANGED rVars
          /\ heads' = heads \cup {ackedTo + 1}
      BY <1>3 DEF SetHead
    <2>3. heads' \subseteq 1 .. ackedTo + 1
      <3>1. ackedTo + 1 \in 1 .. ackedTo + 1
        BY <1>1, StreamNats
      <3> QED BY <1>1, <2>2, <3>1
    <2>4. SenderInv' /\ (sOpen' => openSend' = openSend /\ sOpen)
      BY <1>1, <2>2, SameSender
    <2> QED BY <2>1, <2>2, <2>3, <2>4, SmallStepInv
  <1>4. CASE SenderExit
    <2>1. TypeOK' /\ SenderInv'
      BY <1>1, <1>4, SenderExitTypes, SenderExitSender
    <2>2. /\ UNCHANGED <<noContract, sendContract, contractAcked, sAcked,
                   sUnacked, items, ackedTo, heads, nackNet, nacks, badAccounting>>
          /\ UNCHANGED rVars
          /\ sOpen' = FALSE /\ openSend' \subseteq openSend
      BY <1>4 DEF SenderExit
    <2> QED BY <1>1, <2>1, <2>2, SmallStepInv
  <1>5. CASE LoseNack
    <2>1. TypeOK'
      BY <1>1, <1>5, SmallTypes
    <2>2. /\ UNCHANGED <<sOpen, noContract, taken, granted, sendContract, contractAcked,
                         openSend, sAcked, sUnacked, sClosed, items, ackedTo, heads, nacks,
                         badAccounting>>
          /\ UNCHANGED rVars
          /\ nackNet' \subseteq nackNet
      BY <1>5 DEF LoseNack, sVars
    <2>3. SenderInv' /\ (sOpen' => openSend' = openSend /\ sOpen)
      BY <1>1, <2>2, SameSender
    <2> QED BY <1>1, <2>1, <2>2, <2>3, SmallStepInv
  <1>6. CASE \E side \in {"s", "r"} : AddNoContractPeer(side)
    <2>1. TypeOK'
      BY <1>1, <1>6, SmallTypes
    <2>2. /\ UNCHANGED <<sOpen, taken, granted, sendContract, contractAcked,
                         openSend, sAcked, sUnacked, sClosed, items, ackedTo, heads, nacks,
                         badAccounting, nackNet>>
          /\ UNCHANGED rVars
          /\ noContract \subseteq noContract'
      BY <1>6 DEF AddNoContractPeer
    <2>3. SenderInv' /\ (sOpen' => openSend' = openSend /\ sOpen)
      BY <1>1, <2>2, SameSender
    <2> QED BY <1>1, <2>1, <2>2, <2>3, SmallStepInv
  <1> QED BY <1>2, <1>3, <1>4, <1>5, <1>6

LEMMA ReceiveNextInv ==
    ASSUME IInv, NEW i \in 1 .. Len(items), NEW with \in BOOLEAN, ReceiveNext(i, with),
           setting' = setting
    PROVE  IInv'
  <1>1. /\ TypeOK /\ SenderInv /\ StreamInv /\ RunInv /\ OpenInv /\ OpenBound /\ NackInv
        /\ LedgerInv /\ PendingInv /\ NoBadAccounting
    BY DEF IInv, OpenInv
  <1>2. /\ TypeOK' /\ StreamInv' /\ RunInv' /\ OpenInv' /\ NackInv' /\ LedgerInv'
    BY <1>1, ReceiveNextTypes, ReceiveNextStream, ReceiveNextOpen, ReceiveNextNacks,
       ReceiveNextLedger
  <1>3. UNCHANGED <<sOpen, noContract, taken, granted, sendContract, openSend, sAcked, sUnacked,
                    sClosed, items, ackedTo, badAccounting>>
    BY DEF ReceiveNext, sVars
  <1>4. SenderInv' /\ PendingInv' /\ NoBadAccounting'
    BY <1>1, <1>3, SameSender, QuietPending DEF NoBadAccounting
  <1> QED BY <1>2, <1>4 DEF IInv

LEMMA StartsOverInv ==
    ASSUME IInv, setting' = setting,
           ReceiverExit \/ \E i \in 1 .. Len(items), with \in BOOLEAN : RejectNext(i, with)
    PROVE  IInv'
  <1>1. /\ TypeOK /\ SenderInv /\ StreamInv /\ RunInv /\ OpenInv /\ NackInv /\ LedgerInv
        /\ PendingInv /\ NoBadAccounting
    BY DEF IInv
  <1>2. /\ TypeOK' /\ StreamInv' /\ RunInv' /\ OpenInv' /\ NackInv' /\ LedgerInv'
    BY <1>1, StartsOverTypes, StartsOverStream, StartsOverLedger
  <1>3. UNCHANGED <<sOpen, noContract, taken, granted, sendContract, openSend, sAcked, sUnacked,
                    sClosed, items, ackedTo, badAccounting>>
    BY <1>1, StartsOverIs
  <1>4. SenderInv' /\ PendingInv' /\ NoBadAccounting'
    BY <1>1, <1>3, SameSender, QuietPending DEF NoBadAccounting
  <1> QED BY <1>2, <1>4 DEF IInv

LEMMA ReceiveNackInv ==
    ASSUME IInv, NEW m \in nackNet, ReceiveNack(m), setting' = setting
    PROVE  IInv'
  <1>1. /\ TypeOK /\ SenderInv /\ StreamInv /\ RunInv /\ OpenInv /\ NackInv /\ LedgerInv
        /\ PendingInv /\ NoBadAccounting /\ heads \subseteq 1 .. ackedTo + 1
    BY DEF IInv, StreamInv
  <1>2. /\ TypeOK' /\ LedgerInv'
    BY <1>1, ReceiveNackTypes, ReceiveNackLedger
  <1>3. /\ nackNet' \subseteq nackNet /\ (~ReceiveNoContract => ~badAccounting')
        /\ UNCHANGED <<sOpen, noContract, taken, granted, sendContract, contractAcked,
                       openSend, sAcked, sUnacked, sClosed, items, ackedTo, heads, nacks,
                       rNext, receiveContract, openReceive, receivedTo, rClosed, gen>>
    BY <1>1, ReceiveNackIs
  <1>4. StreamInv' /\ RunInv' /\ OpenInv' /\ NackInv'
    BY <1>1, <1>3, QuietStream
  <1>5. SenderInv' /\ PendingInv'
    BY <1>1, <1>3, SameSender, QuietPending
  <1>6. NoBadAccounting'
    BY <1>3 DEF NoBadAccounting, ReceiveNoContract
  <1> QED BY <1>2, <1>4, <1>5, <1>6 DEF IInv

LEMMA NextInv == IInv /\ [Next /\ UNCHANGED setting]_vars => IInv'
  <1> SUFFICES ASSUME IInv, [Next /\ UNCHANGED setting]_vars PROVE IInv'
    OBVIOUS
  <1>1. CASE Next /\ setting' = setting
    <2>1. ASSUME NEW b \in Sizes, NEW ack \in BOOLEAN, Send(b, ack) PROVE IInv'
      BY <1>1, <2>1, SendInv
    <2>2. ASSUME NEW b \in Sizes, NEW t \in TransferByteCounts, SendOnNewContract(b, t)
          PROVE  IInv'
      BY <1>1, <2>2, SendOnNewContractInv
    <2>3. CASE AckNext
      BY <1>1, <2>3, AckNextInv
    <2>4. CASE \/ \E b \in Sizes, t \in TransferByteCounts : ContractTooSmall(b, t)
               \/ SetHead \/ SenderExit \/ LoseNack
               \/ \E side \in {"s", "r"} : AddNoContractPeer(side)
      BY <1>1, <2>4, SmallStepsInv
    <2>5. ASSUME NEW i \in 1 .. Len(items), NEW with \in BOOLEAN, ReceiveNext(i, with)
          PROVE  IInv'
      BY <1>1, <2>5, ReceiveNextInv
    <2>6. CASE \/ ReceiverExit
               \/ \E i \in 1 .. Len(items), with \in BOOLEAN : RejectNext(i, with)
      BY <1>1, <2>6, StartsOverInv
    <2>7. ASSUME NEW m \in nackNet, ReceiveNack(m) PROVE IInv'
      BY <1>1, <2>7, ReceiveNackInv
    <2> QED BY <1>1, <2>1, <2>2, <2>3, <2>4, <2>5, <2>6, <2>7 DEF Next
  <1>2. CASE UNCHANGED vars
    <2>1. /\ UNCHANGED <<setting, sOpen, noContract, taken, granted, sendContract, contractAcked,
                         openSend, sAcked, sUnacked, sClosed, items, ackedTo, heads, nacks,
                         badAccounting, nackNet>>
          /\ UNCHANGED rVars
      BY <1>2 DEF vars, sVars
    <2>2. TypeOK /\ SenderInv /\ heads \subseteq 1 .. ackedTo + 1
      BY DEF IInv, StreamInv
    <2>3. TypeOK'
      BY <2>1, <2>2 DEF TypeOK, rVars
    <2>4. SenderInv' /\ (sOpen' => openSend' = openSend /\ sOpen)
      BY <2>1, <2>2, SameSender
    <2> QED BY <2>1, <2>2, <2>3, <2>4, SmallStepInv
  <1> QED BY <1>1, <1>2

-----------------------------------------------------------------------------
(* Theorems.                                                               *)

\* The invariant holds in every reachable state.
LEMMA Invariance == Spec => []IInv
  BY InitInv, NextInv, PTL DEF Spec

\* What the receiver counts on a contract is within what the sender debited.
LEMMA ReceiverWithin ==
    ASSUME IInv
    PROVE  ReceiverWithinSender
  <1> SUFFICES ASSUME noContract = {}, NEW c \in Contracts
               PROVE  rAcked[c] <= sAcked[c] + sUnacked[c]
    BY DEF ReceiverWithinSender
  <1>1. TypeOK /\ LedgerInv
    BY DEF IInv
  <1>2. PICK f, g : /\ Sums(f, c, items) /\ NackSums(g, c, nackNet, nacks)
                    /\ ReceiverLedger(c, f, g)
    BY <1>1 DEF LedgerInv, Ledger
  <1>3. rAcked[c] + g[nacks] + f[Len(items)] <= f[rNext - 1] + sAcked[c] + sUnacked[c]
    BY <1>2 DEF ReceiverLedger
  <1>4. PICK p \in Nat, n \in Nat, x \in Nat :
           p = f[rNext - 1] /\ n = f[Len(items)] /\ x = g[nacks] /\ p <= n
    BY <1>1, <1>2, SumsAre
  <1>5. PICK r \in Nat, a \in Nat, u \in Nat : r = rAcked[c] /\ a = sAcked[c] /\ u = sUnacked[c]
    BY <1>1, SenderNats DEF TypeOK
  <1>6. r + x + n <= p + a + u
    BY <1>3, <1>4, <1>5
  <1>7. r <= a + u
    <2>1. /\ p \in Nat /\ n \in Nat /\ x \in Nat /\ p <= n
          /\ r \in Nat /\ a \in Nat /\ u \in Nat
      BY <1>4, <1>5
    <2> QED BY ONLY <1>6, <2>1
  <1> QED BY <1>5, <1>7

\* A pack in front of the receive sequence finds room in its contract.
LEMMA FrontIsAccepted ==
    ASSUME IInv, noContract = {}, NEW i \in 1 .. Len(items), NEW with \in BOOLEAN,
           AtFront(i), with \in Encodings(i)
    PROVE  Accepts(i, with)
  <1>1. TypeOK /\ StreamInv /\ RunInv /\ OpenBound /\ LedgerInv /\ SenderInv
    BY DEF IInv, OpenInv
  <1>2. PICK r : r = AfterFrame(i, with)
    OBVIOUS
  <1>3. PICK c : c = items[i].contract
    OBVIOUS
  <1>4. PICK e \in Nat : e = Effective(items[i].bytes)
    BY <1>1, ItemsAre
  <1>5. c \in Contracts /\ c # 0
    <2>1. i \in DOMAIN items /\ c \in 0 .. MaxContracts
      BY <1>1, <1>3, ItemsAre
    <2>2. c # 0
      BY <1>1, <1>3, <2>1 DEF RunInv
    <2> QED BY <2>1, <2>2, InContracts
  <1>6. /\ r.current = c
        /\ r.acked \in [Contracts -> Nat] /\ r.acked[c] <= rAcked[c]
    <2>1. /\ with => items[i].contract # 0
          /\ items[i].contract = IF with THEN items[i].contract ELSE receiveContract
      BY <1>1, EncodingsAre
    <2> QED BY <1>1, <1>2, <1>3, <1>5, <2>1, AfterFrameIs
  <1>7. PICK f, g : /\ Sums(f, c, items) /\ NackSums(g, c, nackNet, nacks)
                    /\ ReceiverLedger(c, f, g)
    BY <1>1, <1>5 DEF LedgerInv, Ledger
  <1>8. rAcked[c] + g[nacks] + f[Len(items)] <= f[rNext - 1] + sAcked[c] + sUnacked[c]
    BY <1>7 DEF ReceiverLedger
  <1>9. /\ rNext - 1 \in 0 .. Len(items) /\ i - 1 \in 0 .. Len(items) /\ i \in 0 .. Len(items)
        /\ Len(items) \in 0 .. Len(items) /\ rNext - 1 <= i - 1 /\ i <= Len(items)
    BY <1>1, StreamNats DEF AtFront
  <1>10. f[rNext - 1] <= f[i - 1] /\ f[i] <= f[Len(items)] /\ f[i] = f[i - 1] + e
    <2>1. f[i] = f[i - 1] + Counts(c, items[i])
      BY <1>1, <1>7, ItemsAre DEF Sums
    <2> QED BY <1>3, <1>4, <1>7, <1>9, <2>1 DEF Sums, Counts
  <1>11. PICK p \in Nat, q \in Nat, n \in Nat, x \in Nat :
            p = f[rNext - 1] /\ q = f[i - 1] /\ n = f[Len(items)] /\ x = g[nacks]
    BY <1>1, <1>7, <1>9, SumsAre
  <1>12. PICK y \in Nat, a \in Nat, u \in Nat, z \in Nat, w \in Nat :
            y = rAcked[c] /\ a = sAcked[c] /\ u = sUnacked[c] /\ z = r.acked[c] /\ w = granted[c]
    BY <1>1, <1>5, <1>6, SenderNats DEF TypeOK
  <1>13. p <= q /\ q + e <= n /\ y + x + n <= p + a + u /\ z <= y
    BY <1>6, <1>8, <1>10, <1>11, <1>12
  <1>14. a + u <= w \div 2
    BY <1>1, <1>5, <1>12 DEF SenderInv, ContractOK, SenderLimit
  <1>15. z + e <= a + u
    <2>1. /\ p \in Nat /\ q \in Nat /\ n \in Nat /\ x \in Nat /\ y \in Nat
          /\ a \in Nat /\ u \in Nat /\ z \in Nat /\ e \in Nat
      BY <1>4, <1>11, <1>12
    <2> QED BY ONLY <1>13, <2>1
  <1>16. w \div 2 <= w /\ w \div 2 \in Nat
    BY <1>12
  <1>17. z + e <= w
    <2>1. PICK v \in Nat : v = w \div 2
      BY <1>16
    <2>2. a + u <= v /\ v <= w
      BY <1>14, <1>16, <2>1
    <2>3. a \in Nat /\ u \in Nat /\ z \in Nat /\ w \in Nat /\ e \in Nat
      BY <1>4, <1>12
    <2> QED BY <1>15, <2>1, <2>2, <2>3
  <1>18. r.acked[c] + Effective(items[i].bytes) <= granted[c]
    BY <1>4, <1>12, <1>17
  <1>19. ReceiveFits(r.current, items[i].bytes, r.acked)
    BY <1>5, <1>6, <1>18 DEF ReceiveFits, ReceiverLimit
  <1> QED BY <1>2, <1>19 DEF Accepts

\* A contract of the sender is closed once at most, and not while it is used.
LEMMA ClosesOnce ==
    ASSUME IInv
    PROVE  SenderClosesOnce
  <1>1. TypeOK /\ LedgerInv /\ SenderInv
    BY DEF IInv
  <1>2. ASSUME NEW c \in 1 .. taken PROVE sClosed[c] <= 1 /\ (~sOpen => sClosed[c] = 1)
    <2>1. c \in Contracts /\ c <= taken
      BY <1>1, SenderNats
    <2> QED BY <1>1, <2>1 DEF SenderInv, ContractOK
  <1>3. ASSUME ~badAccounting, ~setting.nackWriteFails, NEW c \in openSend \ {sendContract}
        PROVE  \E i \in Pending : items[i].contract = c
    <2>1. c \in Contracts /\ sUnacked[c] \in Nat /\ sUnacked[c] > 0
      BY <1>1, SenderNats DEF SenderInv, ContractOK
    <2>2. PICK f, g : /\ Sums(f, c, items) /\ NackSums(g, c, nackNet, nacks)
                      /\ SenderLedger(c, f)
      BY <1>1, <2>1 DEF LedgerInv, Ledger
    <2>3. f[ackedTo] + sUnacked[c] <= f[Len(items)]
      BY <1>3, <2>2 DEF SenderLedger
    <2>4. f[ackedTo] \in Nat /\ f[Len(items)] \in Nat
      BY <1>1, <2>2, SumsAre
    <2>5. f[ackedTo] < f[Len(items)]
      BY <2>1, <2>3, <2>4
    <2>6. ackedTo \in 0 .. Len(items) /\ Len(items) \in 0 .. Len(items) /\ ackedTo <= Len(items)
      BY <1>1, StreamNats
    <2>7. \E i \in ackedTo + 1 .. Len(items) : items[i].contract = c
      BY <2>2, <2>5, <2>6 DEF Sums
    <2> QED BY <2>7 DEF Pending
  <1> QED BY <1>2, <1>3 DEF SenderClosesOnce

\* Byte counts stay natural numbers, and frames, contracts and nacks stay
\* within what was sent, taken and written, at both ends of a sequence.
THEOREM TypeCorrect == Spec => []TypeOK
  <1>1. IInv => TypeOK
    BY DEF IInv
  <1> QED BY <1>1, Invariance, PTL

\* sequenceContract.ack does not panic while both sides require contracts:
\* what is acked on a contract was debited from it and is acked once.
THEOREM AccountingIsSound == Spec => []NoBadAccounting
  <1>1. IInv => NoBadAccounting
    BY DEF IInv
  <1> QED BY <1>1, Invariance, PTL

\* The receiver counts on a contract no more than the sender has debited from
\* it, through loss, resent heads and receive sequences formed again.
THEOREM ReceiverStaysWithinSender == Spec => []ReceiverWithinSender
  BY ReceiverWithin, Invariance, PTL

\* A pending frame has its contract open at the sender, and a pack in front of
\* the receive sequence finds its contract with room, when even an empty
\* message counts, as it does by default (transfer.go 111, 128).
THEOREM PendingIsUnderContract ==
    ASSUME MinMessageByteCount > 0
    PROVE  Spec => []PendingHasContract
  <1>1. IInv => PendingHasContract
    <2> SUFFICES ASSUME IInv PROVE PendingHasContract
      OBVIOUS
    <2>1. sOpen => \A i \in Pending : items[i].contract \in openSend \cup {0}
      BY DEF IInv, PendingInv
    <2>2. noContract = {} =>
            \A i \in 1 .. Len(items), with \in BOOLEAN :
              AtFront(i) /\ with \in Encodings(i) => Accepts(i, with)
      BY FrontIsAccepted
    <2> QED BY <2>1, <2>2 DEF PendingHasContract
  <1> QED BY <1>1, Invariance, PTL

\* The first receive sequence knows the contract of every nack it is sent,
\* unless it closed it to make room: nacks wait for their contract's ack.
THEOREM NackContractIsKnown == Spec => []NackContractKnown
  <1>1. IInv => NackContractKnown
    BY DEF IInv, NackInv
  <1> QED BY <1>1, Invariance, PTL

\* The sender closes every contract it takes once, at its exit at the latest,
\* and one it keeps open without using it has frames pending that will close it.
THEOREM ContractsCloseOnce == Spec => []SenderClosesOnce
  BY ClosesOnce, Invariance, PTL

=============================================================================
