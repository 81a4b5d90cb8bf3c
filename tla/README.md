# A TLA+ model of URnetwork Connect

This directory holds TLA+ specifications of the core of this repository (package
`connect`): the transfer layer, the routes and platform transport below it, and
the IP layer above it. With them are TLC configurations that check them on small
instances, and proofs that TLAPS checks for every value of the constants.
`PROJECT.json` maps every definition to the lines it models, lists the hazards
of the code, and names the mutants that show that each checked property can fail.

## 1. The system

A `Client` sends frames to other clients through a platform, over several
transports at a time. The promise to its user is at `transfer.go` 27-38: frames
are received in order of send, the sender is notified when frames are received,
delivery is eventual up to timeouts while the sender is active, resource usage
is bounded, and senders pay by contract.

| Component | State | Operations | Correct when |
|---|---|---|---|
| Transfer sequence (`transfer.go`, `SendSequence`, `ReceiveSequence`, `sequenceAckWindow`) | next sequence numbers, resend queue, items in order, receive queue, ack windows, head flags | send, resend, ack (cumulative, selective), receive, drain, gap and ack timeouts, exit | an acked frame was received, nothing is skipped, one callback per frame, bounded queues, everything is acked or failed |
| Contracts of a sequence (`sequenceContract`, `updateContract`, `setContract`, `ackItem`, `registerContracts`) | debits and acks per contract at both ends, open contracts, current contract | take, debit, ack, replace, close, checkpoint | the two ends' accounts agree, a contract is closed once and not under pending frames, no panic on the accounts |
| Send buffer (`SendBuffer`, `SendSequence.Pack`, `IdleCondition`) | sequence per id, sequences per destination, pack channel, `packMutex` | Pack, Ack, idle close, cleanup, Close, Cancel, Flush | no accepted pack is lost, no send on a closed channel, no deadlock, every sequence can be stopped |
| Receive buffer (`ReceiveBuffer`) | sequence per id, head id per source | Pack with upgrade, idle close, cleanup, Flush | its registry panics are unreachable, an upgrade waits for the older sequence, that wait ends |
| Contract manager (`transfer_contract_manager.go`) | queues by key with open count and used ids, local stats, closes under way | TakeContract, CreateContract, addContract, CloseContract, Flush, FlushContractQueue | no contract has two owners, none is lost |
| Control sync (`transfer_control.go`) | latest message of a scope, lock, handle contexts, retry goroutines | Send, ack callback, retry, Close | in order, the latest is acked, pooled bytes are returned once |
| Forward buffer (`transfer.go`, `ForwardBuffer`, `ForwardSequence`) | as the send buffer, without acks; the pooled bytes of each pack | Pack, run loop, idle close, cleanup, Close, Cancel, Flush | as the send buffer; every reference to a buffer is given back |
| Client loop (`Client.run`) | buffers, loopback channel, peer audits | dispatch of packs, acks and forwards | every frame goes to one handler |
| Route manager (`transfer_route_manager.go`) | transports with routes, matches by destination, selectors with active routes, notify channels | OpenMultiRouteSelector, close, UpdateTransport, RemoveTransport, Write, Read | a selector has exactly the routes of the matching transports, nobody waits on routes that are gone |
| Stream manager (`transfer_stream_manager.go`) | stream per id, p2p transports | open, close, idle | a stream that was closed is not used |
| Queues and round trips (`transfer_queue.go`, `transfer_rtt.go`) | heaps with an index by id, window of samples | add, remove, peek; open tag, close tag | index and heap agree, byte counts are sums |
| Message pool, framer (`message_pool.go`, `message_framer.go`) | reference counts in the buffers | get, share, return; read, write | a buffer is reused only after its last return |
| Platform transport (`transport.go`) | elected mode, connection, its routes, drain, reader and writer, speed test flags | mode election, dial, connect loop, drain, read, write, echo, Close | routes are those of the current connection, the tests of the platform end, Close ends everything |
| P2p transport (`transport_p2p*.go`) | WebRTC connections | offer, answer | (library) |
| Packet translation (`transport_pt*.go`) | bounded queues, packets being combined | encode, combine, expire | a packet is combined from its own parts |
| User space NAT (`ip.go`, `ip_packet.go`) | TCP and UDP sequences by path; of a TCP sequence the connection state, payloads and packets queued between five goroutines | syn, segments, acks and windows, socket reads and writes, fin, rst, idle | bytes pass once and in order in both directions, the window is kept modulo 2^32, nobody waits for ever |
| Multi client (`ip_remote_multi_client*.go`) | window of clients, update per path with its client and race, updates per client | SendPacket, race and its completion, received packets, idle, window changes, removeClient | one client serves a path, a removed one is forgotten, a race ends |
| Security policy (`ip_security.go`) | a table, counters | inspect | (data) |
| HTTP strategy, DoH, extenders, api, ids, logging, generated protocol code | little or none | I/O | (not modelled) |

How they interact. Applications, the NAT and `ControlSync` call `Client.Send`,
which calls `SendBuffer.Pack`. The goroutine of the `SendSequence` takes the
pack from a channel, takes contracts from the `ContractManager` (which asks the
platform through out-of-band control and gets replies in callbacks), writes
frames to the multi route writer, and calls the ack callback. `Client.run` of
the receiver reads routes, and hands packs to `ReceiveBuffer.Pack`, acks to
`SendBuffer.Ack` and frames of others to `ForwardBuffer`. A `ReceiveSequence`
calls the receive callback and writes acks from a goroutine of its own. A
`PlatformTransport` brings a send and a receive route to the `RouteManager` while
it is connected; writers and readers of a destination see them through their
selector. Above the clients, a provider turns IP packets into sockets
(`TcpSequence`), and the multi client chooses for each IP path the client, that is
the provider, that its packets go through.

What is hard: two goroutines per sequence share its queues without a common
lock; a frame leaves the resend queue while it is written; receivers exit and are
formed again in the middle of a stream; the registries replace sequences whose
goroutines still run, with two nested locks that are held while waiting;
contracts are passed between sequences, callbacks and a queue that is removed
under them; timeouts race with late acks and replies; buffers are shared by
reference count; routes change under writers that wait; the multi client takes
its lock in several sections per packet, between which the client may be gone;
five goroutines of a TCP sequence end each other.

## 2. Modules

| Module | Models | Uses |
|---|---|---|
| `FrameChannel` | abstract: what a sequence promises to the applications | |
| `SequenceAckWindow` | `sequenceAckWindow` | |
| `TransferSequence` | sequence numbers, queues, resends and acks of one pair | `SequenceAckWindow`; implements `FrameChannel` |
| `TransferContract` | contract accounts of both ends, above a reliable in-order stream | relies on what `FrameChannel` promises |
| `SendBuffer` | Pack callers, registry, `packMutex`, idle close, cleanup | |
| `ReceiveBuffer` | registry and upgrade for one source | |
| `ContractManager` | the queue of one contract key and its users | |
| `ControlSync` | one scope of control messages | |
| `RouteManager` | match states, selectors, and the loops that write and read through them | |
| `PlatformTransport` | the connect loop of a platform transport with its goroutines | composes `RouteManager` (extends it) |
| `MessagePool` | reference counted buffers | |
| `ForwardBuffer` | registry and run loop of forward sequences | composes `MessagePool` (extends it) |
| `MultiClient` | path updates, races and the window of the multi client | |
| `TcpSequence` | one TCP connection of the user space NAT | |
| `TransferSequence_proofs`, `SendBuffer_proofs`, `ReceiveBuffer_proofs`, `ControlSync_proofs`, `PlatformTransport_proofs`, `MultiClient_proofs`, `TcpSequence_proofs`, `TransferContract_proofs` | inductive invariants, lemmas and theorems | the module they extend |
| `MC...` | sets, functions and scenarios as values of constants | the module they extend |

Correspondence of state and code, beyond the names (variables have the names of
the fields where TLA+ allows it):

* **TransferSequence.** A frame is its sequence number. `sPc` splits a pass of
  `SendSequence.Run` at its top ("apply", where acks are applied) from the rest
  ("ready"). `writing` is a frame in a blocking `Write`, during which its item is
  out of the resend queue (resend) or not yet in it (first send): an ack that
  comes in that window is dropped by the ack goroutine (`LookupAck`, `DropAck`).
  Between the lookup and the update of the window another step may intervene
  (`looked`). `gen` counts the receive sequences formed for the sequence id; a
  new one starts at sequence number 0 with an empty window (`FormReceiver`).
  Timers are steps that may be taken whenever the timer is set. The routes are
  sets of packs and acks that reorder; with `Duplicating` they also repeat, else
  they lose (a set that is never emptied subsumes loss).
* **TransferContract.** Frames are positions in `items`; a receive sequence that
  starts over begins at a pack that was sent as head, with or without its
  contract frame (`Encodings`), because an old encoding may still be under way.
  Byte counts are small numbers with `MinMessageByteCount` and the fill fraction
  of the sender as in the code. `AddNoContractPeer` is one step per side.
* **SendBuffer.** Every critical section is one step, except the two that wait
  inside: `Pack` for the channel holding `packMutex` ("select"), and the cleanup
  for `packMutex` holding the mutex of the buffer (`closing`). `updated` stands
  for `modId # checkpointId` of the idle condition.
* **ReceiveBuffer.** One goroutine (`client`) is in `Pack`, as in `Client.run`.
  `waitForExit` holds the mutex of the buffer.
* **ContractManager.** A queue is opened and closed *by key*, so opener and closer
  may find different objects; queue objects are therefore explicit and
  `openCount` may leave the number of openers. The platform is external: it
  opens contracts, loses messages, and in one setting offers open ones again.
* **ControlSync.** Counts per message say how many goroutines are at each place
  of `controlSync`; `Close` also stands for the client being done. `current` is the
  frame of the message that is sent: the one of `Send`, then those of `updateFrame`
  (the callers in the repository pass none, the tests neither; the model lets it
  give a new frame at any retry). `returned` counts the returns of each frame's
  bytes, `leaked` the shares made for sends that failed, which nobody returns.

* **RouteManager.** A transport is present when it has routes. `known` are the
  destinations a match state has seen, `matched` those of each transport, `sel`
  the selectors: a selector's `notified` says that its notify channel was closed
  since the call took it, `active` are its routes, `taken` the routes the call
  waits on. A call takes the notify channel and then the active routes in two
  steps, as the code does, and any of the routes may serve it.
* **PlatformTransport.** `main` is the place of `runH1` or `runH3` (the same loop
  over other connections), `conn` a record per connection with the places of its
  drain, writer and reader goroutines; `left` and `sends` bound what the platform
  does. The dial, the read and the write succeed or fail freely. An echo of the
  reader waits for room in `controlSend` or the end of the transport, not of the
  connection, as in the code.
* **MessagePool.** `count` is the count in the buffer's trailer, of `CountBits`
  bits; `returning` a last return between its count and the put. The pool is the
  one of a size class.
* **ForwardBuffer.** As `SendBuffer`, with `writes` the buffer a run loop writes; the
  write shares the buffer with the route, whose transport returns it.
  `dropped` are the buffers whose reference the code gives up.
* **MultiClient.** Every section under `stateLock` of `updateClientPath`'s callers is a
  step: reserve, the callback's sections, register. An update and a race are
  numbered by creation, so that stale pointers stay distinguishable; `returned` are
  the updates that a call gave back to a client that had let go of them. A packet
  from a client answers one that was sent to it. Packets and resets reach the user
  after the lock was released, in steps of their own (`GiveUser`, `SendReset`, `ResetUser`):
  `toUser` are the packets let through and not given yet, with the client each is
  of, `overtaken` those whose path was let go of meanwhile, `resets` the resets on
  their way. The paths are TCP (a UDP path gets no reset). `phase` is the life of a client:
  in the window, with a warning, done, out of the window, removed from updates.
* **TcpSequence.** Bytes are their positions, so order, gaps and repetition show;
  sequence numbers are positions modulo `SeqSpace`, as `uint32` in the code. The
  peer keeps to TCP and repeats at will. Places of `run` follow the statements of
  `Run` between which it blocks or unlocks. `run.early` says that Run returned
  before the context was done (an idle timeout).

Left out of these modules: byte layout, encryption and verification of contract
frames, peer audits, two panics or exits that need what the code does not produce
(a pack that fails to be encoded again when a resend makes it the head,
`transfer.go` 1520-1531, where the sequence ends without that callback; a frame larger
than a standard contract, 1683-1687, where `updateContract` panics after the pack left the channel
and its callback is never called), round trip estimation (a resend timer may fire at any
time), message pool handling other than in `ControlSync` and `ForwardBuffer`, stream
and companion variants of ids (they are other keys), provide modes and secret
keys, weights of routes, scores of window clients, packet headers.

## 3. Runs

`tlc -config <cfg> <module>` in this directory. Deadlock checking is off because the
bounds end the behaviours (a finite number of frames, calls, segments or
sequences). Where one property needs different surroundings in different cases,
the surroundings (`setting`, `scenario`, `target`) are a variable chosen by `Init` from a
set the MC module gives, so that one run covers them.

| Run | Module, cfg | Checks | Shows |
|---|---|---|---|
| `sequence_reform` | `MCTransferSequence`, `TransferSequence_reform` | `AckedWasReceived`, `InOrderWithoutGap`, `CallbackOnce`, `NoMissingItem`, `ImplementsChannel` | three frames, a network that repeats, loses and reorders, a receive queue of two that evicts, a receive sequence that exits anywhere and is formed again |
| `sequence_limits` | `MCTransferSequence`, `TransferSequence_limits` | `PausedIsHeld` | five frames of three sizes, more than the receive queue takes, and limits in the relation of the defaults (the receive queue larger than the resend queue by a frame): the limit of the resend queue, to the byte, keeps what is selectively acked from being evicted |
| `sequence_live` | `MCTransferSequence`, `TransferSequence_live` | `EventuallyAcked` | under loss and reordering every frame written is acked, unless the sequence exits |
| `contracts` | `MCTransferContract`, `TransferContract` | `NoBadAccounting`, `ReceiverWithinSender`, `PendingHasContract`, `NackContractKnown`, `SenderClosesOnce` | two contracts that fill up, frames of two sizes, one nack, a receiver that starts over; in one setting five frames and a receiver that keeps one contract open, in the other writes of nacks that fail and sides that stop requiring contracts |
| `send_buffer` | `SendBuffer`, `SendBuffer` | `AcceptedIsKept`, `SequenceLifetime`, `PackIsAnswered` | two callers, each trying twice, up to four sequences, channel and resend queue of one, idle close, ack timeout, missing contract, Flush, done contexts |
| `receive_buffer` | `ReceiveBuffer`, `ReceiveBuffer` | `HeadIsRegistered`, `RunningIsReachable`, `UpgradeWaits`, `PackReturns` | two ids, four sequences, Flush, errors and idle exits |
| `contract_queue` | `MCContractManager`, `ContractManager` | `OneOwner`, `NoContractLost` | two send sequences share a key; with the default settings two requests are under way and sequences exit; with `TrackUsedContracts` the platform offers open contracts again |
| `control_sync` | `ControlSync`, `ControlSync` | `ReturnedOnce`, `SentInOrder`, `AckedUnlessAckFails` | two messages, a failed ack, two failed sends, each with a new frame of `updateFrame` or not, Close |
| `platform_routes` | `MCPlatformTransport`, `PlatformTransport` | `SelectorsAreCurrent`, `NoMissedUpdate`, `RoutesOfCurrentConn`, `SpeedTestFollows`, `CloseNeverStuck` | a transport that connects, fails, drains, reconnects and is closed, below two writers of one destination, a writer or a reader over a reconnect, or the speed and latency tests of the platform |
| `forward_pool` | `MCForwardBuffer`, `ForwardBuffer` | `PooledIsUnheld`, `CountsReferences`, `SequenceLifetime` | two callers forward two pooled buffers through up to four sequences; writes fail, sequences are idle, flushed and replaced, the pool is resized and cleared |
| `multi_client` | `MCMultiClient`, `MultiClient` | `RemovedIsForgotten`, `AssignedIsRegistered`, `OneClientHeard`, `RaceIsCompleted` | two calls (in one scenario three), two clients, two races, two updates of a path and clients that come and go, in eight scenarios that each stress a part; packets and resets reach the user late |
| `tcp_sequence` | `MCTcpSequence`, `TcpSequence` | `AckedIsCarried`, `WithinWindow`, `NoLostWakeup`, `NoGapToPeer` | a peer that repeats segments and numbers that wrap, a remote that sends to a window that closes and opens, the same across the wrap, both directions at once; in each the socket fails and the sequence ends at any time |

What the newer properties say:

* `SelectorsAreCurrent`, `NoMissedUpdate`: after any interleaving of selectors that are
  opened and closed with transports that are updated and removed, an open
  selector has the routes of its matching transports, and a call that waits has
  been woken if a route was added since it looked. `RoutesOfCurrentConn`: the
  manager is never left with a route of an earlier connection.
  `SpeedTestFollows`: the writer's view of a speed test is the reader's, delayed by
  the echoes under way. `CloseNeverStuck`: after Close there is always a step left
  until every goroutine, of replaced connections too, is over (an invariant,
  because the loop of the connection is otherwise unbounded in retries).
* `CountsReferences`, `PooledIsUnheld`: the count of a buffer is the number of places that
  have it, so a buffer is reused only after its last return; the references that
  the code gives up are exactly those of failed writes and of packs in the
  channel of a cancelled sequence (`dropped`).
* `RemovedIsForgotten`, `AssignedIsRegistered`: the registry of paths by client survives
  removal during a call. `OneClientHeard`: the user of a path hears one client
  until the path is reset or its reset is on its way, packets that a removal or an
  idle close overtook aside, and except where section 6 says. `RaceIsCompleted`: packets
  kept by a race have a goroutine that will release them.
* `ReturnedOnce`: each frame of a control message gives its pooled bytes back once,
  not while a retry can send them, and never more often than they are held, by the
  owner or by the share of a failed send; the one case in which the first frame
  gives them back for the last is in section 6.
* `PausedIsHeld`: the network of `sequence_limits` may deliver a copy any number of times
  or never, which includes loss and reordering. With the first frame (empty)
  missing, frames 1 to 3 alone would fill the receive queue of 5: one more byte let
  into the resend queue, `<=` for `<`, and a paused frame is evicted.
* `AckedIsCarried`: bytes of the peer reach the socket once and in order, and what
  was acked is on its way. `WithinWindow`, `NoGapToPeer`: the opposite direction keeps to
  the window, with numbers that wrap, and is complete until the sequence ends.
  `NoLostWakeup`: nobody waits on a condition that holds.

**Bounds, and why they are enough to see the cases.** Five frames are the
least that exceed the receive queue behind a missing one with room for another after.
Elsewhere three frames are the least with a frame that is the head, one that waits behind a gap and one that an
eviction removes; two generations the least in which a receive sequence meets
packs and acks of the one before. Two contracts are the least with a
replacement; five frames fill the first and begin the second. A caller of `Pack`
creates at most two sequences, so two callers need four. Two sequence ids give
an older and a newer one; four sequences a replacement on either side of an
upgrade. Two senders, two contracts and two requests give every pair of racing
users of a queue. Two messages give a superseded one, two failed sends let a
retry be retried and a replaced frame be replaced, and a failed ack starts a second
goroutine. Two connections give a replaced one whose goroutines
still run. Two buffers, with counts of two bits, let one be reused while the
other is held; more than three references to one buffer do not occur. Two
clients are the least for a race; a second race or a second update of the path is
the least for a stale one; three calls are the least in which an update is given
back to a client that let go of it. Eight sequence numbers wrap within three bytes, and no
two numbers under way are ambiguous. The liveness run has two frames and one
receive sequence, because strong fairness over more does not finish in minutes.

**Symmetry.** Callers and buffers of `ForwardBuffer`, clients and calls of `MultiClient`,
are interchangeable: no action and no property names one, and the initial states
that do stand for their permutations. No liveness is checked under symmetry.

**Fairness.**

* `TransferSequence`: the run loops and goroutines keep running (weak fairness).
  The select of the loop is left again and again, the resend timer of a frame
  keeps firing, and a route that is written to again and again delivers again
  and again (strong fairness): this is what "delivered up to timeout" asks of the
  network. Acks of a frame are not always timed to arrive during a write of the
  same frame. Nothing is assumed of `SenderExit`, so the property says "acked, or
  the send sequence has exited". It is checked with a `SelectiveAckTimeout`
  below the `AckTimeout`; see section 6 for the defaults.
* `SendBuffer`: goroutines run, timers of `Pack`, of `Run` and of the first unacked
  pack fire (they are `time.After` in a select). Nothing is assumed of acks, Flush
  or contexts: an accepted pack is answered although the network never does.
* `ReceiveBuffer`: the goroutine in `Pack` runs, the receive callback returns, a
  cancelled sequence sees it. New packs, errors and idle closes are not assumed.
* `ControlSync`: goroutines run and the lock is fair (Go's mutex hands over to a
  waiter after 1 ms), the client takes a frame it is offered for ever and calls
  back every frame it took, which is what `PackIsAnswered` shows of it.

**Mutants.** For each property of a passing run `PROJECT.json` names a definition
and a faulty form of it (the operators with a comment "Fault: ...", next to the
definition), with which TLC finds the property violated.

## 4. Proofs

`tlapm <module>` checks them. Assumptions are the named `ASSUME`s of the modules:
bounds and sizes are natural numbers, flags are Booleans; nothing is assumed of
their values, so the limits may be zero and the receive queue smaller than the
resend queue. `TcpSequence` assumes more: reads, packets and its channels have room for
something, and the stream of each side is shorter than the number space, so that a
number that wrapped still names one position. Two theorems have a hypothesis of their
own, given below: `PausedFramesAreHeld` and `PendingIsUnderContract`.

* **`TransferSequence_proofs`**: `TypeCorrect`, `AckedFramesWereReceived`,
  `NothingSkipped`, `OrderWhileFormed`, `StreamInOrder`, `OneCallback`, `MissingItemUnreachable`,
  `QueuesAreBounded`, `PausedFramesAreHeld` and the
  refinement `SequenceImplementsChannel`, for any number of frames and of
  generations, and both kinds of network. The properties are not inductive: that an acked frame was
  received rests on what every ack in the network, in the two windows and in the
  hands of the ack goroutine names (`AckInv`); that nothing is skipped rests on
  head flags, which are true of a pack for as long as it travels because what was
  acked stays acked (`HeadInv`), and on what a receive sequence of any generation
  has passed (`ReceivedInv`); one callback per frame rests on the sender's
  partition of the frames into acked, pending and in their first write
  (`SenderInv`); order within a generation on the log being below the next
  sequence number (`LogInv`). `IInv` is their conjunction with `TypeOK`. The
  refinement is shown step by step: `SendBegin` is a `Send`, a delivery of a new
  frame is a `Receive`, `ApplyAcks` a `Notify`, `SenderExit` a `Close`, all else
  stutters.

  The two theorems about bytes need what a sum over a set of frames is. A measure that
  adds up and is monotone exists for the first *n* frames, for every *n* up to the number
  of frames, as a least *n* without one would have one (`AddsNext`, `AddsExists`), and
  whatever satisfies the equation of the fold in `ByteCount` equals it, as there is no
  smallest set on which they differ (`ByteCountAdds`). `QueuesAreBounded` then follows
  from bounds on all frames `Outstanding`, those in a write included (`SenderBound`), and
  on the receive queue (`ReceiverBound`); no run lists `BoundedQueues`, which is proved for
  every value of the constants. `PausedFramesAreHeld` assumes that the receive
  sequence is formed once (`MaxGen <= 1`; when it exits, what it held is gone) and that
  the limit of the receive queue is at least that of the resend queue and any one
  frame together (the defaults leave 512 KiB for the frame). Then no jump ever happens, what is
  queued is outstanding, there is always room (`FitsInv`), and every selective ack,
  in the network, in the windows and in hand, names a frame that is held (`HeldInv`).
* **`ReceiveBuffer_proofs`**: `TypeCorrect`, `NoRegistryPanic`, `EveryRunnerIsReachable`,
  `UpgradesWait`, for any number of ids and sequences. `IInv` adds that a registered sequence exists
  under its own id (`RegistryInv`) and what the goroutine in `Pack` knows while it
  waits or tries again (`ClientInv`); without the latter, the replacement after
  an upgrade could register an id beside the head. `UpgradesWait` has an invariant of
  its own above it (`UpgradeInv`): what is registered is the last sequence formed, and
  one that still runs is registered or the next one was formed under its id.
* **`ControlSync_proofs`**: `BytesReturnedOnce` and the action property
  `SendsInOrder`, for any number of messages, failures and new frames. `IInv` says that a
  message is at one place at most (`PlaceInv`), that a blocking
  send is of the latest message (`LockInv`), and that the client was given
  nothing newer than was sent (`LastInv`). `ReturnInv` gives the returns of every frame
  from the place of its message, `LeakInv` says that a send of a frame failed before the
  frame was replaced, so that the second return of a first frame finds a share.
* **`SendBuffer_proofs`**: `TypeCorrect`, `PackAcceptedIsKept`, `NobodyIsLeft`, for any
  number of callers, keys and sequences, any sizes of channel and queue, and with
  every switch of the model; `LifetimeWithoutStalls` under `~Stalls`, because with a caller
  that stalls the code does not keep it (section 6). `IInv` adds to the types what
  a sequence knows of its channel, lock and idle condition in each state of its
  Run (`SeqInv`), which sequence a caller inside Pack has the lock of (`CallerInv`), and
  that an accepted pack is at one place and a callback was called for no pack that
  still is anywhere (`PlaceInv`); the cardinality in `AcceptedIsKept` follows.
* **`PlatformTransport_proofs`**: `TypeCorrect`, `SelectorsFollowTransports`, `NoUpdateIsMissed`,
  `OnlyCurrentRoutes` and `WriterFollowsReader`, for any destinations, selectors,
  transports and number of connections. The steps of the route manager are
  proved once, from `RouteInv` (`MatchInv`: the destination of an open selector is
  known, and is among the matches of every transport that matches it), and used
  by every step of the transport that calls it. `OnlyCurrentRoutes` needs what is
  registered at each place of the connect loop (`RegisteredInv`). `WriterFollowsReader` needs
  the echo that the reader holds (`EchoInv`) and is shown over the queue of echoes as a
  sequence of starts and stops (`SpeedInv`).
* **`MultiClient_proofs`**: `TypeCorrect`, `RemovedStaysForgotten`, `ClientKnowsItsUpdates`,
  `UserHearsOneClient` and `RacesAreCompleted`, for any number of paths, clients, calls and
  races. `RegisteredInv` is the heart: an update's client has it registered, or some call
  between its reserve and its end has noted another previous client and will
  register it, or the update was given back. `SendInv`, `ReceiveInv` and `CompleteInv` say
  which update and previous client each of the three kinds of calls holds, `RaceInv`
  ties races, updates and completing goroutines, `HeardInv` what the user heard, and
  the packets let through for it that are not overtaken, to the client and the race of
  the path, or to a reset that is on its way.
* **`TcpSequence_proofs`**: `TypeCorrect`, `WindowKeptTo`, `NoGap`, `WakeupsKept` and
  `BytesCarried`, for any number space, first number, segments, windows and buffer
  sizes. The code compares numbers that wrap; the proofs go by positions, with
  lemmas that carry the code's comparisons over to them. `CarryInv` lays what was read off the
  peer end to end: socket, writer, channel, the segment that Run is at, each
  starting at the position where the one before it ends. `MadeInv` says that
  every byte of the remote is with the remote, with the reader or in a packet; `AckInv` that
  the acks in the peer's segments are in order and of what was made, `WindowInv` which position
  `receiveSeqAck` stands for, `PacketInv` that the packets on their way to the peer follow each
  other until the sequence ends, and `WakeInv` who may still wait. `AckedIsCarried` is
  about the concatenation of the channel's payloads, a recursive definition: the fact
  needed of it, that pieces which follow each other add up to one run of positions, is shown
  by the least length that would contradict it.

* **`TransferContract_proofs`**: `TypeCorrect`, `AccountingIsSound`,
  `ReceiverStaysWithinSender`, `PendingIsUnderContract`, `NackContractIsKnown` and
  `ContractsCloseOnce`, for any number of contracts, frames, nacks and receive
  sequences, any sizes and fill fraction, and every setting. `SenderInv` says of each
  contract of the sender that its debits and acks are within it, that it is open or was
  closed once, and that one that is open and not current has bytes unacked. `StreamInv`
  relates the two ends: what is acked was received, heads are sent only after everything
  before them was acked, the first receive sequence takes the frames one by one. `RunInv` says
  that a frame without a contract frame has the contract of the frame before it, `OpenInv`
  and `NackInv` what the first receive sequence knows of the contracts it has passed.
  `LedgerInv` ties the two accounts: what the receiver counts on a contract, with what it
  has yet to receive, is no more than the sender debited. Its sums over frames and nacks are
  functions of which only the growth from one frame or nack to the next is said, so
  that no sum is ever computed. `PendingInv` says that the contract of a pending frame is
  open; it, and `PendingIsUnderContract`, assume that `MinMessageByteCount` is positive, as in
  the code (`transfer.go` 111, 128): were it zero, a pending frame with no bytes would count
  nothing, and its contract could close under it.

Only model-checked: everything about `ContractManager`, `MessagePool` and
`ForwardBuffer`, for which no inductive invariant has been written yet (that of
`CountsReferences` has to count the places that hold a buffer, over callers, sequences, the
route and the pool); `CloseNeverStuck`, which is stated with `ENABLED`; and all
liveness, which with fairness is out of the prover's reach.

## 5. Plan

Done: the transfer layer (`FrameChannel`, `TransferSequence`,
`TransferContract`, `SendBuffer` and `ReceiveBuffer` with proofs, `ContractManager`, `ControlSync`
with proofs, `ForwardBuffer` over `MessagePool`), the layer below (`RouteManager` composed
with `PlatformTransport`, with proofs) and the core of the layer above (`MultiClient` and
`TcpSequence`, with proofs).

Theorems worth proving next:

1. `ForwardBuffer`: `SequenceLifetime` as in `SendBuffer`, with `CountsReferences` reduced to
   lemmas on `MessagePool`'s operators.
2. `ContractManager`: `OneOwner` for the default settings.

Models that could follow: the registry of TCP and UDP sequences (`TcpBuffer`,
`UdpBuffer`) as another user of the pattern of `SendBuffer`; `ControlSync` over
`SendBuffer` (the blocking send under `sendLock`); a registry of sequences as an
abstract specification that the three buffers implement.

### Not modelled

* **Security policy** (`ip_security.go`): a decision over a generated table of 70,000
  lines, more than two thirds of the repository's source; it has no behaviour in
  time beyond counters.
* **Peer to peer transport, stream manager**: unfinished. `NewP2pTransport` never starts
  its `run`, so a stream never gets routes; the rest is the WebRTC library.
* **Generated protocol code, api wrappers, ids, jwt, logging, tracing, command line
  tools**: no state of their own that steps could disturb.
* **HTTP client strategy, DNS over HTTPS, resilient and extender connections**: I/O
  and byte formats; the state is scores of dialers.
* **Packet translation** (`transport_pt*.go`): encodings of packets in DNS requests.
* **Transfer queue and round trip window**: sequential data structures, used by
  `TransferSequence` as sets with a least element.
* **UDP sequences, TCP registry, provider** (`ip.go`): see above; the growth of the
  own TCP window is arithmetic on two counters that nothing else reads.
* **Scores and weights** of routes and of window clients: the models let any of
  the candidates be chosen, which covers every score.

## 6. Where code and comments part

These were met with the property or the constants given here, or while reading
the code for the model; the ones with a property can be seen again by putting it
in the configuration of the module.

* **A peer made no-contract** (`NeverBadAccounting`, `peerConfigChanges`).
  `transfer.go` 3445 panics with "Bad accounting" where more
  is acked on a contract than was debited. `updateContract` returns early for a
  no-contract peer (1670) without a debit, while `sendWithSetContract` still
  attributes the frame to the current contract (1847). After `AddNoContractPeer` on a
  destination with a current contract, acking such a frame panics.
* **One retry only** (`LatestIsAcked`). `transfer_control.go` 48: "keep retying on error until the
  handle context or client is closed". `controlSync` defers `handleCancel` (91)
  also when the client accepted the frame. If the ack of a frame that a retry
  sent fails, the next `controlSync` finds the handle done and gives the latest
  message up. `control_sync` shows that the message is acked when no ack fails.
* **First frame for last** (`ReturnedOnce` without `FirstForLast`). `message_pool.go` 25: "an owner of
  a message should return the message to the pool". After `updateFrame` gave a new frame,
  `controlSync` returns the bytes of the replaced one (`transfer_control.go` 168); when the
  next send fails with the handle or the client done it returns `frame.MessageBytes` (156,
  159), the bytes of the frame of `Send` once more, and never those of `updatedFrame`. No caller
  passes an `updateFrame` today.
* **Share of a failed send** (`leaked`). `controlSync` shares the bytes for each send (126, 177); a
  send that fails does not take them over, and nobody returns the share, so the bytes
  of a message that had to be retried never reach the pool. The share is also what
  keeps the second return above from freeing bytes that are in use, or twice.
* **Order across generations** (`ReceivedInOrderOfSend`, `MaxGen = 2`). `transfer.go` 30:
  "frames are received in order of send". A receive sequence that exits and is
  formed again hands over again what the sender has not seen acked, after later
  frames. `InOrderWithoutGap` is what holds.
* **Default selective pause** (`NotifiedWhenReceived`, `FairSpec`,
  `SelectiveAckExpires = FALSE`). `transfer.go` 31: "sender is notified when frames are
  received". A selective ack pauses resends for `SelectiveAckTimeout`, by default
  equal to `AckTimeout` (106, 109). If the one cumulative ack that covers the frame
  is lost, nothing makes the receiver ack again, and the callback of a received
  frame reports an error.
* **Failed nack** (`SenderClosesOnce` without the exception for `nackWriteFails`). `transfer.go` 1808-1809 say
  that a replaced contract "will be closed on ack". A nack whose write fails
  (1978) stays debited and is never acked: its contract is closed only when the
  send sequence ends, which `SenderClosesOnce` shows it is.
* **Receiver closes early** (`PendingNotClosed`, `MaxGen = 2`). `transfer.go` 2581-2582
  keep the current contract open since "the sender may send again with this
  contract"; the sender may also send again on a previous one, which the exiting
  receive sequence closes, and closes again after it registered it again.
* **Pack and Run wait for each other** (`PackIsAnswered`, `WaitsForever = TRUE`).
  `SendSequence.Pack` waits for room in the channel holding `packMutex`
  (`transfer.go` 1332); the idle branch of `Run` takes `packMutex` (1647) and does not
  read the channel. With a negative timeout neither goes on until the sequence
  is cancelled. With finite timeouts the calls return, as the run shows.
* **A done context replaces a sequence** (`ReplacedWasClosed`,
  `CallerCancels = TRUE`). `transfer.go` 1120 takes every error of `Pack` for "sequence
  closed"; a pack whose own context is done makes the buffer cancel a sequence
  that works, with the packs of all other callers.
* **Acks to another sequence** (`AckFindsItsSequence`, two keys). `transfer.go` 1374: an
  ack for another sequence is for one "that no longer exists". `SendBuffer.Ack`
  offers it to one sequence of the destination only (1143).
* **Idle close with an open update** (`SequenceLifetime`, `Stalls = TRUE`).
  `transfer.go` 1653: "else there are pending updates". `Checkpoint` (`util.go` 125) does
  not look at open updates: a caller that stalls for the idle timeout between
  two statements of `Pack` puts its pack in a sequence that then closes as idle.
* **Overlap after Flush** (`OneDelivers`). `transfer.go` 2352: "wait for exit to ensure
  receives are correctly ordered across sequence versions". A cancelled sequence
  that is replaced under its own id (2330) is not waited for. `UpgradeWaits` is
  what holds.
* **Older sequences** (`NoOlderSequence`). `transfer.go` 2339: "drop older sequences for
  source". The head id is deleted with its sequence (2378), after which a late
  pack forms the older one again.
* **Contracts lost at exit** (`NoContractLost` without `NoneExited`).
  `transfer_contract_manager_test.go` 136: "all the contracts are accounted for".
  `FlushContractQueue` empties the queue and removes it in two steps (974-978); a
  contract added between them, or to a queue already removed, is neither taken
  nor closed.
* **Count of another queue** (`ClosesItsQueue`). `transfer_contract_manager.go` 1032: a
  close that finds no queue means "the contract was already force removed". The
  key may have a new queue, whose count is then lowered below its openers (1025).
* **Stats after the close** (`ClosedIsNotOpen`). `addContract` enters a contract in the
  stats after queueing it (796-808); one taken and closed in between counts as
  open for good.
* **Used ids forgotten** (`OneOwner`, `track` and `reoffers` `TRUE`, with two
  requests, or with exits). `transfer_contract_manager.go` 926: the id "can be safely
  removed from the local used list". A reply sent before the close brings the
  contract back; and an exiting sequence resets the used ids of a key it shares
  (`transfer.go` 1438-1445) while its closes are still under way.
* **Idle end of a TCP sequence.** The deferred broadcast of `Run` (`ip.go` 1576-1582)
  comes before the context is cancelled. After an idle timeout (2028) a waiting
  reader or acker wakes, finds the context not done, waits again and is never
  woken; the forwarder then never ends either. `NoLostWakeup` without `run.early`
  shows it.
* **Acks across the wrap.** `receiveSeqAck <= tcp.Ack` (`ip.go` 1932) compares without
  regard to the wrap: once the numbers wrap, acks and windows of the peer are
  ignored and the reader waits until the sequence ends. `NoLostWakeup` without
  `Wraps` shows it.
* **Gap before the RST.** When the context is done a packet may be dropped and a
  later one queued (`ip.go` 1788-1793): `NoGapToPeer` therefore ends with the context,
  although the peer may still be given the later one.
* **User limits.** `sourceSequences` of `UdpBuffer` and `TcpBuffer` are read and deleted from
  (`ip.go` 523, 533, 1210, 1239) and never filled, so `UserLimit` never applies.
* **Update of another client.** `ip_remote_multi_client.go` 885 logs "update associated
  with incorrect client". A call that reserved a path without a client and whose
  send to a client set meanwhile fails leaves the path without a client and the
  registration of the failed one (547-569).
* **Given back** (`AssignedIsRegistered` without `returned`, three calls).
  `ip_remote_multi_client.go` 852: "remove a client from all updates". Two calls
  reserve a path with a client; one fails to send to it, sets the path to no client
  and takes the update from the client's; the other finds the client again as the
  only one, sets it (1048-1056), and at its end sees no change from the client it
  reserved with (551), so it registers nothing. The removal of the client then does
  not reset the path. The proof of `ClientKnowsItsUpdates` brought this up.
* **Late packets and resets** (`OneClientHeard` without `overtaken` or without `resets` in `mixed`).
  What was decided under `stateLock` is carried out after it: packets are given to the user at
  `ip_remote_multi_client.go` 1361-1363 and 1446-1448, resets at 687-691, 887-893 and 1023-1028. A
  packet let through for one client can reach the user after `removeClient` of that
  client, its reset, and packets of the next client; and packets of the next client can
  reach the user before the reset. The paths of the other protocol, UDP, have no reset at all.
* **Two clients heard** (`OneClientHeard` without `unraced`). A call that found a single
  client sets it without looking (1048-1056), over one chosen meanwhile; and a
  race whose buffer is full (1318) resets every client, the source of the packet
  too, sets none, and delivers the packets of the source.
* **Replaced client.** `expand` cancels a client it replaces (2176) without the removal
  callback; its updates are forgotten only when a call on them ends.
* **One election.** `modeMonitor` of the platform transport is never notified
  (`transport.go` 265-297), so `run` elects a mode once and does not see a
  mode that becomes available later.
* **Activity of HTTP/3.** `runH3` never counts reads and writes, so a drained
  connection in use counts as inactive (`transport.go` 1082-1086).
* **Read without its context.** `MultiRouteSelector.Read` waits on the context of the
  selector, not on the one its caller gives (`transfer_route_manager.go` 728).
* **Lost references.** A write that fails in a forward sequence, and a cancelled
  forward sequence, do not give back the bytes of their packs (`transfer.go`
  3669-3695); the garbage collector has them. `CountsReferences` without `dropped`
  shows it.
