---------------------------- MODULE MultiClient ----------------------------
(***************************************************************************)
(* RemoteUserNatMultiClient (ip_remote_multi_client.go): how the packets   *)
(* of an ip path find the one client, that is the one provider, they go    *)
(* through, by a race between the clients of the window.                   *)
(*                                                                         *)
(* SendPacket, clientReceivePacket and the goroutine that completes a race *)
(* all work inside updateClientPath: stateLock is taken to reserve the     *)
(* update of the path, again (several times) in the callback, and again to *)
(* register the update with its client.  Each of these sections is a step. *)
(* Packets are counted; a packet that comes from a client answers one that *)
(* was sent to it.  The order of clients, their weights and the choice by  *)
(* round trip time are left open.  All paths have the same destination, so *)
(* they share their affinity, and are TCP: a UDP path is given no reset.   *)
(* Packets and resets are given to the user (receivePacketCallback) when   *)
(* stateLock has been released again, as steps of their own: what was      *)
(* decided under the lock can change in between.                           *)
(* Close of the multi client is left out.                                  *)
(***************************************************************************)
EXTENDS Naturals, Sequences, FiniteSets, FiniteSetsExt

CONSTANTS
    Clients,
    NoClient,
    Paths,
    Senders,          \* calls of SendPacket
    Scenarios,        \* bounds: [sends, window, left], the path of each call that is
                      \* made, the clients in the window at first, and how many
                      \* window changes, updates, races and responses there may be
    IpVersion,        \* of the paths, 4 or 6
    ClientPacketMax,  \* MultiRaceClientPacketMaxCount
    RacePacketMax     \* MultiRacePacketMaxCount

Bounds == [changes : Nat, updates : Nat, races : Nat, responses : Nat]

ASSUME MultiAssumption ==
    /\ NoClient \notin Clients /\ Paths # {}
    /\ IpVersion \in {4, 6}
    /\ ClientPacketMax \in Nat \ {0} /\ RacePacketMax \in Nat \ {0}
    /\ \A s \in Scenarios :
          /\ DOMAIN s.sends \subseteq Senders /\ s.sends \in [DOMAIN s.sends -> Paths]
          /\ s.window \subseteq Clients /\ s.left \in Bounds

VARIABLES
    pathUpdates,    \* ip4PathUpdates, ip6PathUpdates: the update of a path, 0 for none
    updates,        \* multiClientChannelUpdate in order of creation
    races,          \* multiClientChannelUpdateRace in order of creation
    clientUpdates,  \* the updates registered with each client
    phase,          \* life of each client
    send,           \* calls of SendPacket
    receive,        \* clientReceivePacket of each client
    complete,       \* the goroutine of each race
    sentTo,         \* the paths of which a client was sent packets
    toUser,         \* packets let through for the user and not given to it yet, one
                    \* element for the goroutine that has them
    overtaken,      \* those of them whose path was let go of since
    resets,         \* resets of paths that were let go of, not given to the user yet
    heard,          \* the client of the packets the user of a path was given since the
                    \* last reset it was given, those that were overtaken aside
    mixed,          \* the paths whose user was given packets of two clients with no
                    \* reset in between or on its way
    unraced,        \* the paths whose client was taken without regard to the race
    returned,       \* the updates given back to a client that had let go of them
    left            \* what is left of the bounds

pathVars == <<pathUpdates, updates, races>>
clientVars == <<clientUpdates, phase>>
callVars == <<send, receive, complete>>
givenVars == <<toUser, overtaken, resets, heard, mixed>>
userVars == <<givenVars, unraced, returned>>
multiVars == <<pathVars, clientVars, callVars, sentTo, userVars, left>>

\* A call of updateClientPath, and what a call of SendPacket adds to it.
Call(p) == [pc |-> "start", path |-> p, update |-> 0, previous |-> NoClient]

NewSend(pc, p) ==
    [pc |-> pc, path |-> p, update |-> 0, previous |-> NoClient, client |-> NoClient,
     toSend |-> {}, sending |-> {}, sent |-> {}, success |-> FALSE]

AnyPath == CHOOSE p \in Paths : TRUE

MultiInit ==
    \E s \in Scenarios :
        /\ pathUpdates = [p \in Paths |-> 0]
        /\ updates = <<>> /\ races = <<>> /\ complete = <<>>
        /\ clientUpdates = [c \in Clients |-> {}]
        /\ phase = [c \in Clients |-> IF c \in s.window THEN "window" ELSE "new"]
        /\ send = [i \in Senders |-> IF i \in DOMAIN s.sends THEN NewSend("start", s.sends[i])
                                                           ELSE NewSend("done", AnyPath)]
        /\ receive = [c \in Clients |-> Call(AnyPath)]
        /\ sentTo = [c \in Clients |-> {}]
        /\ toUser = {} /\ overtaken = {} /\ resets = {}
        /\ heard = [p \in Paths |-> NoClient]
        /\ mixed = {} /\ unraced = {} /\ returned = {}
        /\ left = s.left

IsDone(c) == phase[c] \in {"done", "out", "removed"}

-----------------------------------------------------------------------------
(* updateClientPath                                                        *)

NewUpdate(p, c) == [path |-> p, client |-> c, race |-> 0, done |-> FALSE, normal |-> FALSE]

\* Affinity: the client of the newest update of the other paths that has one;
\* of IPv4 paths, unless the client is in warning.
AffinityClient(p) ==
    LET us == {pathUpdates[q] : q \in Paths \ {p}} \ {0}
        withClient == {u \in us : updates[u].client # NoClient
                                  /\ (IpVersion = 4 => phase[updates[u].client] # "warning")}
    IN  IF withClient = {} THEN NoClient ELSE updates[Max(withClient)].client

\* reserveUpdate: the update of the path, a new one if there is none.
Reserve(p) ==
    IF pathUpdates[p] # 0
    THEN UNCHANGED <<pathUpdates, updates>>
    ELSE /\ Len(updates) < left.updates
         /\ updates' = Append(updates, NewUpdate(p, AffinityClient(p)))
         /\ pathUpdates' = [pathUpdates EXCEPT ![p] = Len(updates) + 1]

\* The call with the update it reserves, and the client the update had.
Reserved(p, call) ==
    IF pathUpdates[p] # 0
    THEN [call EXCEPT !.update = pathUpdates[p],
                      !.previous = updates[pathUpdates[p]].client]
    ELSE [call EXCEPT !.update = Len(updates) + 1, !.previous = NoClient]

\* Fault: a client that is done is registered.
RegistersDone(c) == TRUE

\* Fault: a client in warning is not registered.
RegistersInWindow(c) == phase[c] = "window"

\* "otherwise it may be re-added by updates in flight"
Registers(c) == ~IsDone(c)

\* The section that ends updateClientPath.
Registered(call) ==
    LET u == call.update
        c == updates[u].client
    IN  [d \in Clients |->
           IF call.previous = c THEN clientUpdates[d]
           ELSE IF d = c /\ Registers(c) THEN clientUpdates[d] \cup {u}
           ELSE IF d = call.previous THEN clientUpdates[d] \ {u}
           ELSE clientUpdates[d]]

PathsOf(xs) == {x.path : x \in xs}

\* Packets of client c are let through: the goroutine of race r, or that of the
\* client if r is 0, gives them to the user when updateClientPath has returned.
LetThrough(r, c, p, packets) ==
    toUser' = toUser \cup {[race |-> r, client |-> c, path |-> p, packets |-> packets]}

\* Under the lock the paths of resets xs are let go of; the resets follow, as
\* do packets that were let through before.
LetGo(xs) ==
    /\ resets' = resets \cup xs
    /\ overtaken' = overtaken \cup {d \in toUser : d.path \in PathsOf(xs)}
    /\ toUser' = {d \in toUser : d.path \notin PathsOf(xs)}

\* The user of path p is given a packet of client c.
Hear(p, c) ==
    /\ heard' = [heard EXCEPT ![p] = c]
    /\ mixed' = IF heard[p] \in {NoClient, c} \/ p \in PathsOf(resets)
                THEN mixed ELSE mixed \cup {p}

\* The user of the path is given the reset.
GiveReset(x) ==
    /\ resets' = resets \ {x}
    /\ heard' = [heard EXCEPT ![x.path] = NoClient]

\* A call makes c the client of its update.  If c was its client when the call
\* began, the call will not register the update, and if c has been taken off the
\* update since, nobody does.
Return(call, c) ==
    returned' = IF call.previous = c /\ call.update \notin clientUpdates[c]
                THEN returned \cup {call.update} ELSE returned

RaceOf(u) == updates[u].race

\* clearRace closes the race of the update.
ClearRace(rs, r) == IF r = 0 THEN rs ELSE [rs EXCEPT ![r].open = FALSE]
Cleared(u, c) == [updates EXCEPT ![u].race = 0, ![u].client = c]

-----------------------------------------------------------------------------
(* SendPacket                                                              *)

SendReserve(i) ==
    /\ send[i].pc = "start"
    /\ Reserve(send[i].path)
    /\ send' = [send EXCEPT ![i] = Reserved(send[i].path, [send[i] EXCEPT !.pc = "current"])]
    /\ UNCHANGED <<races, clientVars, receive, complete, sentTo, userVars, left>>

\* The current client of the update, if any; a retransmission is not sent
\* again (canSendPacket).
SendCurrent(i) ==
    LET u == updates[send[i].update]
    IN  /\ send[i].pc = "current"
        /\ \/ u.client # NoClient
              /\ send' = [send EXCEPT ![i].pc = "sending", ![i].client = u.client]
           \/ u.client = NoClient /\ send' = [send EXCEPT ![i].pc = "choose"]
           \/ u.normal /\ send' = [send EXCEPT ![i].pc = "end"]
        /\ UNCHANGED <<pathVars, clientVars, receive, complete, sentTo, userVars, left>>

\* The client takes the packet, or has no room for it.
SendToClient(i) ==
    LET c == send[i].client
        u == send[i].update
    IN  /\ send[i].pc = "sending" /\ ~IsDone(c)
        /\ send' = [send EXCEPT ![i].pc = "end"]
        /\ \/ /\ updates' = [updates EXCEPT ![u].normal = TRUE]
              /\ sentTo' = [sentTo EXCEPT ![c] = @ \cup {send[i].path}]
           \/ UNCHANGED <<updates, sentTo>>
        /\ UNCHANGED <<pathUpdates, races, clientVars, receive, complete, userVars,
                       left>>

ResetOf(p, u, by) == [path |-> p, update |-> u, by |-> by]

\* The client is done, or closed the sequence twice: the path is let go of.
SendFails(i) ==
    /\ send[i].pc = "sending"
    /\ send' = [send EXCEPT ![i].pc = "reset"]
    /\ updates' = [updates EXCEPT ![send[i].update].client = NoClient]
    /\ LetGo({ResetOf(send[i].path, send[i].update, i)})
    /\ UNCHANGED <<pathUpdates, races, clientVars, receive, complete, sentTo, heard, mixed,
                   unraced, returned, left>>

\* The call gives the user the reset, without the lock.
SendReset(i) ==
    /\ send[i].pc = "reset"
    /\ send' = [send EXCEPT ![i].pc = "end"]
    /\ GiveReset(ResetOf(send[i].path, send[i].update, i))
    /\ UNCHANGED <<pathVars, clientVars, receive, complete, sentTo, toUser, overtaken, mixed,
                   unraced, returned, left>>

\* OrderedClients of the first window that has some, cut to the best tier and
\* to the size of the window: none, one or a race.
SendChoose(i) ==
    LET inWindow == {c \in Clients : phase[c] = "window"}
    IN  /\ send[i].pc = "choose"
        /\ \E w \in SUBSET inWindow :
              /\ w = {} => inWindow = {}
              /\ send' = [send EXCEPT ![i] =
                           CASE w = {} -> [@ EXCEPT !.pc = "retry"]
                             [] Cardinality(w) = 1 ->
                                  [@ EXCEPT !.pc = "single", !.client = CHOOSE c \in w : TRUE]
                             [] OTHER -> [@ EXCEPT !.pc = "race", !.toSend = w]]
        /\ UNCHANGED <<pathVars, clientVars, receive, complete, sentTo, userVars, left>>

\* One client, no race.
SendSingle(i) ==
    LET c == send[i].client
    IN  /\ send[i].pc = "single"
        /\ \/ /\ ~IsDone(c)
              /\ sentTo' = [sentTo EXCEPT ![c] = @ \cup {send[i].path}]
              /\ send' = [send EXCEPT ![i].pc = "set"]
           \/ send' = [send EXCEPT ![i].pc = "retry"] /\ UNCHANGED sentTo
        /\ UNCHANGED <<pathVars, clientVars, receive, complete, userVars, left>>

\* It becomes the client, even if another has become the client meanwhile.
SetSingle(i) ==
    LET u == send[i].update
        c == send[i].client
    IN  /\ send[i].pc = "set"
        /\ updates' = [updates EXCEPT ![u].client = c]
        /\ Return(send[i], c)
        /\ unraced' = IF updates[u].client \in {NoClient, c} THEN unraced
                      ELSE unraced \cup {send[i].path}
        /\ send' = [send EXCEPT ![i].pc = "end"]
        /\ UNCHANGED <<pathUpdates, races, clientVars, receive, complete, sentTo, givenVars,
                       left>>

\* A goroutine of the race goes on to client c, unless the update is done or
\* has a client by now.
RaceCheck(i, c) ==
    LET u == updates[send[i].update]
    IN  /\ send[i].pc = "race" /\ c \in send[i].toSend
        /\ \/ /\ ~u.done /\ u.client = NoClient
              /\ send' = [send EXCEPT ![i].toSend = @ \ {c}, ![i].sending = @ \cup {c}]
           \/ /\ u.done \/ u.client # NoClient
              /\ send' = [send EXCEPT ![i].toSend = @ \ {c}]
        /\ UNCHANGED <<pathVars, clientVars, receive, complete, sentTo, userVars, left>>

\* It sends to the client, which may take long, and the lock is not held.
RaceSend(i, c) ==
    /\ send[i].pc = "race" /\ c \in send[i].sending
    /\ \/ /\ ~IsDone(c)
          /\ sentTo' = [sentTo EXCEPT ![c] = @ \cup {send[i].path}]
          /\ send' = [send EXCEPT ![i].sending = @ \ {c}, ![i].sent = @ \cup {c},
                                  ![i].success = TRUE]
       \/ send' = [send EXCEPT ![i].sending = @ \ {c}] /\ UNCHANGED sentTo
    /\ UNCHANGED <<pathVars, clientVars, receive, complete, userVars, left>>

NewRace(u) ==
    [update |-> u, open |-> ~updates[u].done,
     sent |-> [c \in Clients |-> 0], packets |-> [c \in Clients |-> 0]]

PacketCount(race) == MapThenSumSet(LAMBDA c : race.packets[c], Clients)

\* The goroutine then enters c in the race, which it starts if there is none.
\* Without a response for long, or after many packets, c is the client.
RaceSent(i, c) ==
    LET u == send[i].update
        r == IF RaceOf(u) = 0 THEN Len(races) + 1 ELSE RaceOf(u)
        before == IF RaceOf(u) = 0 THEN Append(races, NewRace(u)) ELSE races
        after == [before EXCEPT ![r].sent[c] = 1]
    IN  /\ send[i].pc = "race" /\ c \in send[i].sent
        /\ send' = [send EXCEPT ![i].sent = @ \ {c}]
        /\ IF updates[u].client # NoClient
           THEN UNCHANGED <<updates, races, complete, returned>>
           ELSE /\ r <= left.races
                /\ complete' = IF RaceOf(u) = 0
                               THEN Append(complete, [Call(updates[u].path) EXCEPT !.pc = "wait"])
                               ELSE complete
                /\ \/ /\ races' = after /\ updates' = [updates EXCEPT ![u].race = r]
                      /\ UNCHANGED returned
                   \/ /\ before[r].sent[c] > 0 /\ PacketCount(before[r]) = 0
                      /\ races' = ClearRace(after, r)
                      /\ updates' = Cleared(u, c) /\ Return(send[i], c)
        /\ UNCHANGED <<pathUpdates, clientVars, receive, sentTo, givenVars, unraced, left>>

\* All goroutines of the race have ended.
RaceSendsEnd(i) ==
    /\ send[i].pc = "race"
    /\ send[i].toSend = {} /\ send[i].sending = {} /\ send[i].sent = {}
    /\ send' = [send EXCEPT ![i].pc = IF send[i].success THEN "end" ELSE "retry"]
    /\ UNCHANGED <<pathVars, clientVars, receive, complete, sentTo, userVars, left>>

\* The call tries again after a while; or its time is over, or the update is
\* done, and the packet is dropped.
SendRetry(i) ==
    /\ send[i].pc = "retry"
    /\ \E pc \in {"choose", "end"} :
          send' = [send EXCEPT ![i].pc = pc]
    /\ UNCHANGED <<pathVars, clientVars, receive, complete, sentTo, userVars, left>>

SendEnd(i) ==
    /\ send[i].pc = "end"
    /\ clientUpdates' = Registered(send[i])
    /\ send' = [send EXCEPT ![i] = NewSend("done", AnyPath)]
    /\ UNCHANGED <<pathVars, phase, receive, complete, sentTo, userVars, left>>

SendStep(i) ==
    \/ SendReserve(i) \/ SendCurrent(i) \/ SendToClient(i) \/ SendFails(i) \/ SendReset(i)
    \/ SendChoose(i) \/ SendSingle(i) \/ SetSingle(i)
    \/ \E c \in Clients : RaceCheck(i, c) \/ RaceSend(i, c) \/ RaceSent(i, c)
    \/ RaceSendsEnd(i) \/ SendRetry(i) \/ SendEnd(i)

-----------------------------------------------------------------------------
(* clientReceivePacket                                                     *)

\* The goroutine of client c still gives the user the packets of its last call.
Gives(c) == \E d \in toUser \cup overtaken : d.race = 0 /\ d.client = c

ReceiveReserve(c) ==
    /\ receive[c].pc = "start" /\ ~IsDone(c) /\ ~Gives(c)
    /\ left.responses > 0 /\ left' = [left EXCEPT !.responses = @ - 1]
    /\ \E p \in sentTo[c] :
          /\ Reserve(p)
          /\ receive' = [receive EXCEPT ![c] = Reserved(p, [Call(p) EXCEPT !.pc = "callback"])]
    /\ UNCHANGED <<races, clientVars, send, complete, sentTo, userVars>>

HasRoomFor(race, c) ==
    race.packets[c] < ClientPacketMax /\ PacketCount(race) < RacePacketMax

\* Fault: the packets of a client that was not chosen are let through.
AcceptsAny(u, c) == updates[u].client # NoClient

\* The client is the one of the update.
Accepts(u, c) == updates[u].client = c

\* The packet is for the user, or is kept for the end of the race.  If there is
\* no room to keep it, the race ends without a client, and what there is is let
\* through.
Receive(c) ==
    LET u == receive[c].update
        r == RaceOf(u)
    IN  /\ receive[c].pc = "callback"
        /\ receive' = [receive EXCEPT ![c].pc = "end"]
        /\ CASE Accepts(u, c) ->
                  /\ LetThrough(0, c, receive[c].path, 1)
                  /\ UNCHANGED <<updates, races, unraced, returned>>
             [] ~Accepts(u, c) /\ (updates[u].client # NoClient \/ r = 0) ->
                  UNCHANGED <<updates, races, toUser, unraced, returned>>
             [] updates[u].client = NoClient /\ r # 0 ->
                  IF races[r].sent[c] = 0
                  THEN UNCHANGED <<updates, races, toUser, unraced, returned>>
                  ELSE IF HasRoomFor(races[r], c)
                  THEN /\ races' = [races EXCEPT ![r].packets[c] = @ + 1]
                       /\ UNCHANGED <<updates, toUser, unraced, returned>>
                  ELSE /\ races' = ClearRace(races, r)
                       /\ updates' = Cleared(u, NoClient)
                       /\ LetThrough(0, c, receive[c].path, races[r].packets[c] + 1)
                       /\ unraced' = unraced \cup {receive[c].path}
                       /\ UNCHANGED returned
        /\ UNCHANGED <<pathUpdates, clientVars, send, complete, sentTo, overtaken, resets,
                       heard, mixed, left>>

ReceiveEnd(c) ==
    /\ receive[c].pc = "end"
    /\ clientUpdates' = Registered(receive[c])
    /\ receive' = [receive EXCEPT ![c] = Call(AnyPath)]
    /\ UNCHANGED <<pathVars, phase, send, complete, sentTo, userVars, left>>

-----------------------------------------------------------------------------
(* scheduleCompleteRace                                                    *)

\* A race that is closed has nothing to complete.
CompleteStops(r) ==
    /\ complete[r].pc = "wait" /\ ~races[r].open
    /\ complete' = [complete EXCEPT ![r].pc = "done"]
    /\ UNCHANGED <<pathVars, clientVars, send, receive, sentTo, userVars, left>>

\* The timer of the race, or an early end after the first response, which may
\* have been before the race was closed.
CompleteReserve(r) ==
    /\ complete[r].pc = "wait"
    /\ Reserve(complete[r].path)
    /\ complete' = [complete EXCEPT ![r] =
                      Reserved(complete[r].path, [complete[r] EXCEPT !.pc = "callback"])]
    /\ UNCHANGED <<races, clientVars, send, receive, sentTo, userVars, left>>

\* Fault: whatever race the update has is taken for this one.
IsRaceOfAny(u, r) == RaceOf(u) # 0

\* "else the client is on a new race"
IsRaceOf(u, r) == RaceOf(u) = r

\* One of the clients that responded, if there is one and no client is set,
\* becomes the client, and the packets it had sent are let through.
Complete(r) ==
    LET u == complete[r].update
        responded == {c \in Clients : races[r].packets[c] > 0}
    IN  /\ complete[r].pc = "callback"
        /\ complete' = [complete EXCEPT ![r].pc = "end"]
        /\ IF ~IsRaceOf(u, r)
           THEN UNCHANGED <<updates, races, toUser, returned>>
           ELSE /\ races' = ClearRace(races, r)
                /\ \/ /\ updates[u].client = NoClient
                      /\ \E c \in responded :
                            /\ updates' = Cleared(u, c)
                            /\ LetThrough(r, c, complete[r].path, races[r].packets[c])
                            /\ Return(complete[r], c)
                   \/ /\ updates[u].client # NoClient \/ responded = {}
                      /\ updates' = Cleared(u, updates[u].client)
                      /\ UNCHANGED <<toUser, returned>>
        /\ UNCHANGED <<pathUpdates, clientVars, send, receive, sentTo, overtaken, resets,
                       heard, mixed, unraced, left>>

CompleteEnd(r) ==
    /\ complete[r].pc = "end"
    /\ clientUpdates' = Registered(complete[r])
    /\ complete' = [complete EXCEPT ![r] = [Call(complete[r].path) EXCEPT !.pc = "done"]]
    /\ UNCHANGED <<pathVars, phase, send, receive, sentTo, userVars, left>>

-----------------------------------------------------------------------------
(* What follows the lock                                                   *)

\* One of the packets of d is given to the user, when updateClientPath has
\* returned.  A packet that was overtaken is late: the path may have another
\* client by now.
GiveUser(d) ==
    LET rest == IF d.packets = 1 THEN {} ELSE {[d EXCEPT !.packets = @ - 1]}
    IN  /\ IF d.race = 0 THEN receive[d.client].pc = "start" ELSE complete[d.race].pc = "done"
        /\ \/ /\ d \in toUser
              /\ toUser' = (toUser \ {d}) \cup rest
              /\ Hear(d.path, d.client)
              /\ UNCHANGED overtaken
           \/ /\ d \in overtaken
              /\ overtaken' = (overtaken \ {d}) \cup rest
              /\ UNCHANGED <<toUser, heard, mixed>>
        /\ UNCHANGED <<pathVars, clientVars, callVars, sentTo, resets, unraced, returned, left>>

\* The goroutine of an idle path, or of removeClient, resets the user.
ResetUser(x) ==
    /\ x \in resets /\ x.by \notin Senders
    /\ GiveReset(x)
    /\ UNCHANGED <<pathVars, clientVars, callVars, sentTo, toUser, overtaken, mixed, unraced,
                   returned, left>>

-----------------------------------------------------------------------------
(* Idle paths and the life of clients                                      *)

\* The calls that work on update u.  A call may wait long for a client that
\* takes its packet or for any client; all else is quick.
SendersOf(u, pcs) == {i \in Senders : send[i].update = u /\ send[i].pc \in pcs}
QuickPcs == {"current", "choose", "set", "race", "end"}
Busy(u) ==
    \/ SendersOf(u, QuickPcs) # {}
    \/ \E c \in Clients : receive[c].pc # "start" /\ receive[c].update = u
    \/ \E r \in DOMAIN complete : complete[r].pc \in {"callback", "end"}
                                   /\ complete[r].update = u

\* A path without a packet for SequenceIdleTimeout is forgotten, then reset.
Idle(p) ==
    LET u == pathUpdates[p]
        c == updates[u].client
    IN  /\ u # 0 /\ ~Busy(u)
        /\ updates' = [updates EXCEPT ![u].client = NoClient]
        /\ pathUpdates' = [pathUpdates EXCEPT ![p] = 0]
        /\ clientUpdates' = [d \in Clients |-> IF d = c THEN clientUpdates[d] \ {u}
                                                       ELSE clientUpdates[d]]
        /\ LetGo({ResetOf(p, u, NoClient)})
        /\ UNCHANGED <<races, phase, callVars, sentTo, heard, mixed, unraced, returned, left>>

\* Its goroutine then resets the user, and cancels the update and with it its
\* race.
CancelUpdate(u) ==
    /\ pathUpdates[updates[u].path] # u /\ ~updates[u].done
    /\ ResetOf(updates[u].path, u, NoClient) \notin resets
    /\ updates' = [updates EXCEPT ![u].done = TRUE]
    /\ races' = [r \in DOMAIN races |->
                   IF races[r].update = u THEN [races[r] EXCEPT !.open = FALSE] ELSE races[r]]
    /\ UNCHANGED <<pathUpdates, clientVars, callVars, sentTo, userVars, left>>

\* expand adds a client that answered a ping; resize sets and clears its
\* warning, and takes a client out of the window that is done; a client may
\* be done at any time, and resize makes done what it removes.
PhaseChanges ==
    {<<"new", "window">>, <<"window", "warning">>, <<"warning", "window">>,
     <<"window", "done">>, <<"warning", "done">>, <<"done", "out">>}

ChangePhase(c) ==
    /\ left.changes > 0 /\ left' = [left EXCEPT !.changes = @ - 1]
    /\ \E x \in PhaseChanges :
          phase[c] = x[1] /\ phase' = [phase EXCEPT ![c] = x[2]]
    /\ UNCHANGED <<pathVars, clientUpdates, callVars, sentTo, userVars>>

\* removeClient, called back by the window.
RemoveClient(c) ==
    LET us == {u \in DOMAIN updates : u \in clientUpdates[c] /\ updates[u].client = c}
    IN  /\ phase[c] = "out"
        /\ phase' = [phase EXCEPT ![c] = "removed"]
        /\ clientUpdates' = [clientUpdates EXCEPT ![c] = {}]
        /\ updates' = [u \in DOMAIN updates |->
                         IF u \in us THEN [updates[u] EXCEPT !.client = NoClient]
                                     ELSE updates[u]]
        /\ LetGo({ResetOf(updates[u].path, u, c) : u \in us})
        /\ UNCHANGED <<pathUpdates, races, callVars, sentTo, heard, mixed, unraced, returned,
                       left>>

-----------------------------------------------------------------------------
MultiNext ==
    \/ \E i \in Senders : SendStep(i)
    \/ \E c \in Clients : \/ ReceiveReserve(c) \/ Receive(c) \/ ReceiveEnd(c)
                           \/ ChangePhase(c) \/ RemoveClient(c)
    \/ \E r \in DOMAIN complete :
          CompleteStops(r) \/ CompleteReserve(r) \/ Complete(r) \/ CompleteEnd(r)
    \/ \E d \in toUser \cup overtaken : GiveUser(d)
    \/ \E x \in resets : ResetUser(x)
    \/ \E p \in Paths : Idle(p)
    \/ \E u \in DOMAIN updates : CancelUpdate(u)

MultiSpec == MultiInit /\ [][MultiNext]_multiVars

-----------------------------------------------------------------------------
(* Properties                                                              *)

\* No call works on update u.
Quiet(u) == ~Busy(u) /\ SendersOf(u, {"sending", "reset", "single", "retry"}) = {}

\* A client that was removed has no update any more, whatever was in flight
\* when removeClient was called ("otherwise it may be re-added by updates in
\* flight").
RemovedIsForgotten ==
    \A c \in Clients : phase[c] = "removed" => clientUpdates[c] = {}

\* The client of an update that nobody works on knows the update, so that the
\* path is reset when the client is removed; except where a call gave the update
\* back to the client it began with, after another call took it away (README,
\* "Where code and comments part").  (The converse, "update associated with
\* incorrect client", the code does not keep either.)
AssignedIsRegistered ==
    \A u \in DOMAIN updates \ returned :
        LET c == updates[u].client
        IN  Quiet(u) /\ c # NoClient /\ ~IsDone(c) => u \in clientUpdates[c]

\* The user of a path is given the packets of one client until the path is
\* reset: "another client already chosen, drop".  Packets and resets are given
\* without the lock, so two clients are heard while a reset is on its way, and a
\* packet that was overtaken comes after the next client's.  And two decisions do
\* not look at what was decided before, and are left out: a race whose buffer is
\* full, and a call that found a single client (README, "Where code and comments
\* part").
OneClientHeard == mixed \subseteq unraced

\* The race of an update in use, where packets are kept, has a goroutine that
\* will complete it; and a race that is open is the race of its update.
RaceIsCompleted ==
    /\ \A p \in Paths :
          LET u == pathUpdates[p]
          IN  u # 0 /\ RaceOf(u) # 0
                => complete[RaceOf(u)].pc \in {"wait", "callback"}
    /\ \A r \in DOMAIN races :
          LET u == races[r].update
          IN  races[r].open /\ pathUpdates[updates[u].path] = u => RaceOf(u) = r
=============================================================================
