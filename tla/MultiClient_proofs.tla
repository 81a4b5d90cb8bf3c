------------------------ MODULE MultiClient_proofs ------------------------
(***************************************************************************)
(* Proofs about MultiClient, for any number of clients, paths and calls,   *)
(* any scenarios and any limits of the race.                               *)
(***************************************************************************)
EXTENDS MultiClient, FiniteSetTheorems, WellFoundedInduction, TLAPS

-----------------------------------------------------------------------------
(* The inductive invariant.                                                *)

ClientOrNone == Clients \cup {NoClient}

UpdateType ==
    [path : Paths, client : ClientOrNone, race : Nat, done : BOOLEAN, normal : BOOLEAN]

RaceType ==
    [update : Nat, open : BOOLEAN, sent : [Clients -> Nat], packets : [Clients -> Nat]]

ReceiveType ==
    [pc : {"start", "callback", "end"}, path : Paths, update : Nat, previous : ClientOrNone]

CompleteType ==
    [pc : {"wait", "callback", "end", "done"}, path : Paths, update : Nat,
     previous : ClientOrNone]

SendType ==
    [pc : {"start", "current", "sending", "reset", "choose", "single", "set", "race", "retry",
           "end", "done"},
     path : Paths, update : Nat, previous : ClientOrNone, client : ClientOrNone,
     toSend : SUBSET Clients, sending : SUBSET Clients, sent : SUBSET Clients,
     success : BOOLEAN]

GivenPackets == [race : Nat, client : Clients, path : Paths, packets : Nat \ {0}]

ResetType == [path : Paths, update : Nat, by : ClientOrNone \cup Senders]

PathType ==
    /\ pathUpdates \in [Paths -> Nat]
    /\ updates \in Seq(UpdateType) /\ races \in Seq(RaceType)
    /\ complete \in Seq(CompleteType) /\ Len(complete) = Len(races)

ClientType ==
    /\ clientUpdates \in [Clients -> SUBSET Nat]
    /\ phase \in [Clients -> {"new", "window", "warning", "done", "out", "removed"}]
    /\ send \in [Senders -> SendType] /\ receive \in [Clients -> ReceiveType]
    /\ sentTo \in [Clients -> SUBSET Paths]
    /\ unraced \subseteq Paths /\ returned \subseteq Nat

GivenType ==
    /\ toUser \subseteq GivenPackets /\ overtaken \subseteq GivenPackets
    /\ resets \subseteq ResetType
    /\ heard \in [Paths -> ClientOrNone] /\ mixed \subseteq Paths

\* The variables have the values the code gives them.
MultiTypeOK == PathType /\ ClientType /\ GivenType

\* The update of a path is an update of this path, and is not cancelled.
PathInv ==
    \A p \in Paths : pathUpdates[p] # 0 =>
        /\ pathUpdates[p] \in DOMAIN updates
        /\ updates[pathUpdates[p]].path = p /\ ~updates[pathUpdates[p]].done

\* A call has an update exactly while it works, and the update is one of its
\* path.  The path stays in use while a packet is received or a race completed.
SendInv ==
    \A i \in Senders :
        IF send[i].pc \in {"start", "done"} THEN send[i].update = 0
        ELSE /\ send[i].update \in DOMAIN updates
             /\ updates[send[i].update].path = send[i].path

ReceiveInv ==
    \A c \in Clients :
        IF receive[c].pc = "start" THEN receive[c].update = 0
        ELSE receive[c].update # 0 /\ pathUpdates[receive[c].path] = receive[c].update

CompleteInv ==
    \A r \in DOMAIN complete :
        IF complete[r].pc \in {"wait", "done"} THEN complete[r].update = 0
        ELSE complete[r].update # 0 /\ pathUpdates[complete[r].path] = complete[r].update

\* An update and its race refer to each other, until the update is cancelled;
\* the goroutine of the race is for the path of the update, and has the race of
\* an update in use still before it.
RaceInv ==
    /\ \A r \in DOMAIN races :
          /\ races[r].update \in DOMAIN updates
          /\ complete[r].path = updates[races[r].update].path
          /\ races[r].open => RaceOf(races[r].update) = r
    /\ \A u \in DOMAIN updates : RaceOf(u) # 0 =>
          /\ RaceOf(u) \in DOMAIN races /\ races[RaceOf(u)].update = u
          /\ ~updates[u].done => races[RaceOf(u)].open
    /\ \A p \in Paths : pathUpdates[p] # 0 /\ RaceOf(pathUpdates[p]) # 0 =>
          complete[RaceOf(pathUpdates[p])].pc \in {"wait", "callback"}

\* Client c is heard by the user of path p, and no reset is on its way, or a
\* packet of it is.
Spoken(p, c) ==
    \/ heard[p] = c /\ p \notin PathsOf(resets)
    \/ \E d \in toUser : d.path = p /\ d.client = c

\* The client that the user of a path hears, or is about to, is the client of its
\* update.
HeardInv ==
    /\ mixed \subseteq unraced
    /\ \A p \in Paths \ unraced, c \in Clients : Spoken(p, c) =>
          pathUpdates[p] # 0 /\ updates[pathUpdates[p]].client = c

\* One of the calls f works on update u and began with another client than c.
Pending(f, u, c) == \E x \in DOMAIN f : f[x].update = u /\ f[x].previous # c

\* The client of an update is registered, or will be by a call that works on it.
RegisteredInv ==
    \A u \in DOMAIN updates \ returned :
        LET c == updates[u].client
        IN  c # NoClient /\ ~IsDone(c) =>
              \/ u \in clientUpdates[c]
              \/ Pending(send, u, c) \/ Pending(receive, u, c) \/ Pending(complete, u, c)

IInv ==
    /\ MultiTypeOK /\ PathInv /\ SendInv /\ ReceiveInv /\ CompleteInv /\ RaceInv
    /\ HeardInv /\ RegisteredInv /\ RemovedIsForgotten

-----------------------------------------------------------------------------
(* Sequences, and the greatest of a set of numbers.                        *)

\* A sequence with the same indices.
LEMMA Changed ==
    ASSUME NEW T, NEW s \in Seq(T), NEW t \in [DOMAIN s -> T]
    PROVE  t \in Seq(T) /\ Len(t) = Len(s) /\ DOMAIN t = DOMAIN s
  OBVIOUS

\* One element of a sequence is replaced.
LEMMA Replaced ==
    ASSUME NEW T, NEW s \in Seq(T), NEW q \in DOMAIN s, NEW x \in T,
           NEW t, t = [s EXCEPT ![q] = x]
    PROVE  /\ t \in Seq(T) /\ Len(t) = Len(s) /\ DOMAIN t = DOMAIN s
           /\ t[q] = x /\ \A p \in DOMAIN s : p # q => t[p] = s[p]
  OBVIOUS

\* An element is added.
LEMMA Added ==
    ASSUME NEW T, NEW s \in Seq(T), NEW x \in T, NEW t, t = Append(s, x)
    PROVE  /\ t \in Seq(T) /\ Len(t) = Len(s) + 1 /\ Len(s) \in Nat
           /\ DOMAIN s = 1 .. Len(s) /\ DOMAIN t = 1 .. Len(s) + 1
           /\ \A p \in DOMAIN s : t[p] = s[p]
           /\ t[Len(s) + 1] = x
  OBVIOUS

\* A set of numbers up to n that is not empty has a greatest one.
LEMMA GreatestExists ==
    ASSUME NEW n \in Nat, NEW S, S \subseteq 1 .. n, S # {}
    PROVE  Max(S) \in S
  <1> DEFINE T == {n - x : x \in S}
  <1>1. T \subseteq Nat /\ T # {}
    <2>1. T \subseteq Nat
      OBVIOUS
    <2>2. PICK x \in S : TRUE
      OBVIOUS
    <2>3. n - x \in T
      OBVIOUS
    <2> QED BY <2>1, <2>3
  <1>2. PICK m \in T : \A y \in T : ~(<<y, m>> \in OpToRel(<, Nat))
    <2> HIDE DEF T
    <2> QED BY <1>1, NatLessThanWellFounded, WFMin
  <1>3. \A y \in T : ~(y < m)
    BY <1>1, <1>2 DEF OpToRel
  <1>4. PICK x \in S : m = n - x
    BY <1>2
  <1>5. \A y \in S : y <= x
    <2>1. TAKE y \in S
    <2>2. n - y \in T
      OBVIOUS
    <2>3. ~(n - y < n - x)
      BY <1>3, <1>4, <2>2
    <2> QED BY <2>3
  <1>6. \E y \in S : \A z \in S : y >= z
    BY <1>5
  <1> QED BY <1>6 DEF Max

-----------------------------------------------------------------------------
(* reserveUpdate.                                                          *)

\* The client that an update is created with.
LEMMA AffinityType ==
    ASSUME PathType, PathInv, NEW p \in Paths
    PROVE  AffinityClient(p) \in ClientOrNone
  <1> DEFINE us == {pathUpdates[q] : q \in Paths \ {p}} \ {0}
             withClient == {u \in us : updates[u].client # NoClient
                                /\ (IpVersion = 4 => phase[updates[u].client] # "warning")}
  <1>1. withClient \subseteq 1 .. Len(updates) /\ Len(updates) \in Nat
    BY DEF PathType, PathInv
  <1>2. CASE withClient = {}
    BY <1>2 DEF AffinityClient, ClientOrNone
  <1>3. CASE withClient # {}
    <2>1. Max(withClient) \in withClient
      <3> HIDE DEF withClient
      <3> QED BY <1>1, <1>3, GreatestExists
    <2>2. Max(withClient) \in 1 .. Len(updates)
      BY <1>1, <2>1
    <2>3. \A u \in 1 .. Len(updates) : updates[u].client \in ClientOrNone
      <3>1. TAKE u \in 1 .. Len(updates)
      <3>2. updates[u] \in UpdateType
        BY <1>1 DEF PathType
      <3> QED BY <3>2 DEF UpdateType
    <2>4. updates[Max(withClient)].client \in ClientOrNone
      <3> HIDE DEF withClient
      <3> QED BY <2>2, <2>3, Zenon
    <2> QED BY <1>3, <2>4 DEF AffinityClient
  <1> QED BY <1>2, <1>3

\* What a call finds, u with the client c: the update of the path, or a new one
\* that had no client before.
Finds(p, u, c) ==
    /\ u # 0 /\ c \in ClientOrNone
    /\ u \in DOMAIN updates' /\ updates'[u].path = p /\ ~updates'[u].done
    /\ \A q \in Paths : pathUpdates'[q] = IF q = p THEN u ELSE pathUpdates[q]
    /\ IF pathUpdates[p] # 0 THEN pathUpdates[p] = u ELSE u \notin DOMAIN updates
    /\ DOMAIN updates \subseteq DOMAIN updates'
    /\ \A v \in DOMAIN updates : updates'[v] = updates[v]
    /\ \A v \in DOMAIN updates' : v \notin DOMAIN updates =>
          v = u /\ c = NoClient /\ pathUpdates[p] = 0 /\ updates'[v].race = 0

LEMMA ReserveStep ==
    ASSUME PathType, PathInv, NEW p \in Paths, Reserve(p)
    PROVE  /\ pathUpdates' \in [Paths -> Nat] /\ updates' \in Seq(UpdateType)
           /\ \E u \in Nat, c \in ClientOrNone :
                 /\ Finds(p, u, c)
                 /\ \A call : Reserved(p, call) =
                       [call EXCEPT !.update = u, !.previous = c]
  <1>0. DOMAIN updates = 1 .. Len(updates) /\ Len(updates) \in Nat
    BY DEF PathType
  <1>1. CASE pathUpdates[p] # 0
    <2> DEFINE u == pathUpdates[p]
               c == updates[u].client
    <2>1. pathUpdates' = pathUpdates /\ updates' = updates
      BY <1>1 DEF Reserve
    <2>2. u \in DOMAIN updates /\ updates[u] \in UpdateType /\ updates[u].path = p
          /\ ~updates[u].done /\ u \in Nat
      BY <1>1 DEF PathType, PathInv
    <2>3. c \in ClientOrNone
      BY <2>2 DEF UpdateType
    <2>4. Finds(p, u, c)
      BY <1>1, <2>1, <2>2, <2>3 DEF Finds
    <2>5. \A call : Reserved(p, call) = [call EXCEPT !.update = u, !.previous = c]
      BY <1>1, Zenon DEF Reserved
    <2>6. pathUpdates' \in [Paths -> Nat] /\ updates' \in Seq(UpdateType)
      BY <2>1 DEF PathType
    <2> HIDE DEF u, c
    <2> QED BY <2>2, <2>3, <2>4, <2>5, <2>6
  <1>2. CASE pathUpdates[p] = 0
    <2> DEFINE u == Len(updates) + 1
               x == NewUpdate(p, AffinityClient(p))
    <2>1. updates' = Append(updates, x) /\ pathUpdates' = [pathUpdates EXCEPT ![p] = u]
      BY <1>2 DEF Reserve
    <2>2. x \in UpdateType /\ x.path = p /\ x.race = 0 /\ ~x.done
      BY AffinityType DEF NewUpdate, UpdateType
    <2>3. updates \in Seq(UpdateType) /\ pathUpdates \in [Paths -> Nat]
      BY DEF PathType
    <2> HIDE DEF x
    <2>4. /\ updates' \in Seq(UpdateType) /\ DOMAIN updates' = 1 .. Len(updates) + 1
          /\ \A v \in DOMAIN updates : updates'[v] = updates[v]
          /\ updates'[u] = x
      BY <2>1, <2>2, <2>3, Added
    <2>5. u \in Nat /\ u # 0 /\ u \notin DOMAIN updates /\ u \in DOMAIN updates'
          /\ DOMAIN updates \subseteq DOMAIN updates'
          /\ \A v \in DOMAIN updates' : v \notin DOMAIN updates => v = u
      BY <1>0, <2>4
    <2> HIDE DEF u
    <2>6. pathUpdates' \in [Paths -> Nat]
          /\ \A q \in Paths : pathUpdates'[q] = IF q = p THEN u ELSE pathUpdates[q]
      BY <2>1, <2>3, <2>5
    <2>7. Finds(p, u, NoClient)
      BY <1>2, <2>2, <2>4, <2>5, <2>6 DEF Finds, ClientOrNone
    <2>8. \A call : Reserved(p, call) = [call EXCEPT !.update = u, !.previous = NoClient]
      BY <1>2, Zenon DEF Reserved, u
    <2> QED BY <2>4, <2>5, <2>6, <2>7, <2>8 DEF ClientOrNone
  <1> QED BY <1>1, <1>2

-----------------------------------------------------------------------------
(* Steps that leave part of the invariant alone.                           *)

\* The calls of f work on the same updates in g.
SameWork(f, g) ==
    /\ DOMAIN f \subseteq DOMAIN g
    /\ \A x \in DOMAIN f : /\ g[x].update = f[x].update /\ g[x].previous = f[x].previous
                           /\ g[x].path = f[x].path

LEMMA SameWorkSame == \A f : SameWork(f, f)
  BY DEF SameWork

LEMMA PendingSame ==
    ASSUME NEW f, NEW g, SameWork(f, g), NEW u, NEW c, Pending(f, u, c)
    PROVE  Pending(g, u, c)
  BY DEF SameWork, Pending

\* The updates stay those of their paths.
KeepsPaths ==
    /\ DOMAIN updates \subseteq DOMAIN updates'
    /\ \A u \in DOMAIN updates : updates'[u].path = updates[u].path

\* Call i goes on as x.
Moves(i, x) ==
    /\ x \in SendType
    /\ send[i].pc \notin {"start", "done"} /\ x.pc \notin {"start", "done"}
    /\ x.path = send[i].path /\ x.update = send[i].update /\ x.previous = send[i].previous

LEMMA SendMoves ==
    ASSUME IInv, KeepsPaths, NEW i \in Senders, NEW x, Moves(i, x),
           send' = [send EXCEPT ![i] = x]
    PROVE  send' \in [Senders -> SendType] /\ SameWork(send, send') /\ SendInv'
  <1>1. send \in [Senders -> SendType]
    BY DEF IInv, MultiTypeOK, ClientType
  <1>2. /\ send' \in [Senders -> SendType] /\ send'[i] = x
        /\ \A j \in Senders : j # i => send'[j] = send[j]
    BY <1>1 DEF Moves
  <1>3. SameWork(send, send')
    BY <1>1, <1>2 DEF SameWork, Moves
  <1>4. SendInv'
    BY <1>2 DEF IInv, SendInv, KeepsPaths, Moves
  <1> QED BY <1>2, <1>3, <1>4

LEMMA SendStays ==
    ASSUME IInv, KeepsPaths, UNCHANGED send
    PROVE  send' \in [Senders -> SendType] /\ SameWork(send, send') /\ SendInv'
  <1>1. send' \in [Senders -> SendType]
    BY DEF IInv, MultiTypeOK, ClientType
  <1>2. SendInv'
    BY DEF IInv, SendInv, KeepsPaths
  <1> QED BY <1>1, <1>2, SameWorkSame

LEMMA ReceiveStays ==
    ASSUME IInv, UNCHANGED <<receive, pathUpdates>>
    PROVE  receive' \in [Clients -> ReceiveType] /\ SameWork(receive, receive') /\ ReceiveInv'
  BY SameWorkSame DEF IInv, MultiTypeOK, ClientType, ReceiveInv

LEMMA CompleteStays ==
    ASSUME IInv, UNCHANGED <<complete, pathUpdates>>
    PROVE  complete' \in Seq(CompleteType) /\ SameWork(complete, complete') /\ CompleteInv'
  BY SameWorkSame DEF IInv, MultiTypeOK, PathType, CompleteInv

\* No client is taken off an update it has, and one that is put there is
\* registered or will be.
LEMMA RegisteredKept ==
    ASSUME RegisteredInv, SameWork(send, send'), SameWork(receive, receive'),
           SameWork(complete, complete'), UNCHANGED clientVars, returned \subseteq returned',
           \A u \in DOMAIN updates' \ returned' :
              /\ u \in DOMAIN updates
              /\ \/ updates'[u].client \in {NoClient, updates[u].client}
                 \/ u \in clientUpdates[updates'[u].client]
                 \/ Pending(send, u, updates'[u].client)
                 \/ Pending(complete, u, updates'[u].client)
    PROVE  RegisteredInv'
  <1>1. SUFFICES ASSUME NEW u \in DOMAIN updates' \ returned',
                        updates'[u].client # NoClient,
                        phase'[updates'[u].client] \notin {"done", "out", "removed"}
                 PROVE  \/ u \in clientUpdates'[updates'[u].client]
                        \/ Pending(send', u, updates'[u].client)
                        \/ Pending(receive', u, updates'[u].client)
                        \/ Pending(complete', u, updates'[u].client)
    BY DEF RegisteredInv, Pending, IsDone
  <1>2. PICK c : c = updates'[u].client
    OBVIOUS
  <1>3. c # NoClient /\ ~IsDone(c) /\ clientUpdates' = clientUpdates
    BY <1>1, <1>2 DEF IsDone, clientVars
  <1>4. u \in DOMAIN updates \ returned
    OBVIOUS
  <1>5. u \in clientUpdates[c] \/ Pending(send, u, c) \/ Pending(receive, u, c)
        \/ Pending(complete, u, c)
    <2>1. CASE c = updates[u].client
      BY <1>3, <1>4, <2>1 DEF RegisteredInv
    <2>2. CASE c # updates[u].client
      BY <1>2, <1>3, <2>2
    <2> QED BY <2>1, <2>2
  <1> QED BY <1>2, <1>3, <1>5, PendingSame

\* The races stay, and the goroutines that are to complete them.
LEMMA RaceStays ==
    ASSUME IInv, UNCHANGED <<pathUpdates, races>>, updates' \in Seq(UpdateType),
           DOMAIN updates' = DOMAIN updates,
           \A u \in DOMAIN updates :
              /\ updates'[u].path = updates[u].path /\ updates'[u].race = updates[u].race
              /\ updates'[u].done = updates[u].done,
           UNCHANGED complete
    PROVE  PathInv' /\ RaceInv' /\ KeepsPaths
  <1>1. PathInv'
    BY DEF IInv, PathInv
  <1>2. RaceInv'
    BY DEF IInv, RaceInv, RaceOf, PathInv
  <1> QED BY <1>1, <1>2 DEF KeepsPaths

-----------------------------------------------------------------------------
(* What the user hears.                                                    *)

\* Client c of path p in use stays the client of its update.
Keeps(p, c) ==
    pathUpdates[p] # 0 /\ updates[pathUpdates[p]].client = c =>
       pathUpdates'[p] # 0 /\ updates'[pathUpdates'[p]].client = c

\* What is on its way to the user does not change.
LEMMA HeardKept ==
    ASSUME IInv, UNCHANGED givenVars, unraced \subseteq unraced',
           \A q \in Paths \ unraced', c \in Clients : Keeps(q, c)
    PROVE  HeardInv' /\ GivenType'
  <1>1. UNCHANGED <<toUser, overtaken, resets, heard, mixed>>
    BY DEF givenVars
  <1>2. GivenType'
    BY <1>1 DEF IInv, MultiTypeOK, GivenType
  <1>3. HeardInv'
    BY <1>1 DEF IInv, HeardInv, Spoken, PathsOf, Keeps
  <1> QED BY <1>2, <1>3

LEMMA HeardStays ==
    ASSUME IInv, UNCHANGED <<pathUpdates, updates, givenVars, unraced>>
    PROVE  HeardInv' /\ GivenType'
  <1>1. \A q \in Paths \ unraced', c \in Clients : Keeps(q, c)
    BY DEF Keeps
  <1> QED BY <1>1, HeardKept

\* The paths that lose their client are let go of.
LEMMA HeardLetGo ==
    ASSUME IInv, NEW xs, xs \subseteq ResetType, LetGo(xs), UNCHANGED <<heard, mixed, unraced>>,
           \A q \in Paths \ unraced, c \in Clients : q \in PathsOf(xs) \/ Keeps(q, c)
    PROVE  HeardInv' /\ GivenType'
  <1>1. /\ resets' = resets \cup xs
        /\ overtaken' = overtaken \cup {d \in toUser : d.path \in PathsOf(xs)}
        /\ toUser' = {d \in toUser : d.path \notin PathsOf(xs)}
    BY DEF LetGo
  <1>2. GivenType'
    BY <1>1 DEF IInv, MultiTypeOK, GivenType
  <1>3. \A q \in PathsOf(xs) : q \in PathsOf(resets')
    BY <1>1 DEF PathsOf
  <1>4. \A q \in PathsOf(resets) : q \in PathsOf(resets')
    BY <1>1 DEF PathsOf
  <1>5. ASSUME NEW q \in Paths \ unraced, NEW c \in Clients,
               \/ heard[q] = c /\ q \notin PathsOf(resets')
               \/ \E d \in toUser' : d.path = q /\ d.client = c
        PROVE  pathUpdates'[q] # 0 /\ updates'[pathUpdates'[q]].client = c
    <2>1. q \notin PathsOf(xs)
      BY <1>1, <1>3, <1>5
    <2>2. Spoken(q, c)
      BY <1>1, <1>4, <1>5 DEF Spoken
    <2> QED BY <1>5, <2>1, <2>2 DEF IInv, HeardInv, Keeps
  <1>6. PathsOf(resets)' = PathsOf(resets')
    BY DEF PathsOf
  <1>7. HeardInv'
    BY <1>5, <1>6 DEF IInv, HeardInv, Spoken
  <1> QED BY <1>2, <1>7

\* Packets of the client of the update are let through, or the path is unraced.
LEMMA HeardLetThrough ==
    ASSUME IInv, NEW r \in Nat, NEW c \in Clients, NEW p \in Paths, NEW n \in Nat \ {0},
           LetThrough(r, c, p, n), UNCHANGED <<overtaken, resets, heard, mixed>>,
           unraced \subseteq unraced',
           \A q \in Paths \ unraced', d \in Clients : Keeps(q, d),
           p \in unraced' \/ (pathUpdates'[p] # 0 /\ updates'[pathUpdates'[p]].client = c)
    PROVE  HeardInv' /\ GivenType'
  <1>1. PICK x \in GivenPackets : toUser' = toUser \cup {x} /\ x.client = c /\ x.path = p
    <2>1. PICK x : x = [race |-> r, client |-> c, path |-> p, packets |-> n]
      OBVIOUS
    <2>2. x \in GivenPackets /\ x.client = c /\ x.path = p
      BY <2>1 DEF GivenPackets
    <2>3. toUser' = toUser \cup {x}
      BY <2>1 DEF LetThrough
    <2> QED BY <2>2, <2>3
  <1>2. GivenType'
    BY <1>1 DEF IInv, MultiTypeOK, GivenType
  <1>3. ASSUME NEW q \in Paths \ unraced', NEW d \in Clients,
               \/ heard[q] = d /\ q \notin PathsOf(resets)
               \/ \E e \in toUser' : e.path = q /\ e.client = d
        PROVE  pathUpdates'[q] # 0 /\ updates'[pathUpdates'[q]].client = d
    <2>1. CASE Spoken(q, d)
      BY <1>3, <2>1 DEF IInv, HeardInv, Keeps
    <2>2. CASE ~Spoken(q, d)
      <3>1. q = p /\ d = c
        BY <1>1, <1>3, <2>2 DEF Spoken
      <3> QED BY <1>3, <3>1
    <2> QED BY <2>1, <2>2
  <1>4. PathsOf(resets)' = PathsOf(resets)
    BY DEF PathsOf
  <1>5. HeardInv'
    BY <1>3, <1>4 DEF IInv, HeardInv, Spoken
  <1> QED BY <1>2, <1>5

\* The user of the path is given a reset.
LEMMA HeardReset ==
    ASSUME IInv, NEW x \in ResetType, GiveReset(x),
           UNCHANGED <<pathUpdates, updates, toUser, overtaken, mixed, unraced>>
    PROVE  HeardInv' /\ GivenType'
  <1>1. resets' = resets \ {x} /\ heard' = [heard EXCEPT ![x.path] = NoClient]
        /\ x.path \in Paths /\ heard \in [Paths -> ClientOrNone]
    BY DEF GiveReset, ResetType, IInv, MultiTypeOK, GivenType
  <1>2. GivenType'
    BY <1>1 DEF IInv, MultiTypeOK, GivenType, ClientOrNone
  <1>3. ASSUME NEW q \in Paths, NEW c \in Clients, heard'[q] = c, q \notin PathsOf(resets')
        PROVE  heard[q] = c /\ q \notin PathsOf(resets)
    <2>1. q # x.path
      BY <1>1, <1>3, MultiAssumption
    <2> QED BY <1>1, <1>3, <2>1 DEF PathsOf
  <1>4. PathsOf(resets)' = PathsOf(resets')
    BY DEF PathsOf
  <1>5. \A q \in Paths, c \in Clients : Spoken(q, c)' => Spoken(q, c)
    BY <1>3, <1>4 DEF Spoken
  <1>6. HeardInv'
    BY <1>5 DEF IInv, HeardInv
  <1> QED BY <1>2, <1>6

-----------------------------------------------------------------------------
(* SendPacket: the steps that only move the call.                          *)

\* What IInv says of one call that works.
LEMMA SendAtWork ==
    ASSUME IInv, NEW i \in Senders, send[i].pc \notin {"start", "done"}
    PROVE  /\ send[i] \in SendType /\ send[i].update \in DOMAIN updates
           /\ updates[send[i].update] \in UpdateType
           /\ updates[send[i].update].path = send[i].path
  BY DEF IInv, MultiTypeOK, PathType, ClientType, SendInv

LEMMA SendOnly ==
    ASSUME IInv, NEW i \in Senders, NEW x, Moves(i, x), send' = [send EXCEPT ![i] = x],
           sentTo' \in [Clients -> SUBSET Paths],
           UNCHANGED <<pathVars, clientVars, receive, complete, userVars>>
    PROVE  IInv'
  <1>1. UNCHANGED <<pathUpdates, updates, races, clientUpdates, phase, receive, complete,
                    givenVars, unraced, returned>>
    BY DEF pathVars, clientVars, userVars
  <1>2. PathInv' /\ RaceInv' /\ KeepsPaths
    <2>1. updates' \in Seq(UpdateType)
      BY <1>1 DEF IInv, MultiTypeOK, PathType
    <2> QED BY <1>1, <2>1, RaceStays
  <1>3. send' \in [Senders -> SendType] /\ SameWork(send, send') /\ SendInv'
    BY <1>2, SendMoves
  <1>4. ReceiveInv' /\ CompleteInv'
    BY <1>1, ReceiveStays, CompleteStays
  <1>5. HeardInv' /\ GivenType'
    BY <1>1, HeardStays
  <1>6. MultiTypeOK' /\ RemovedIsForgotten'
    BY <1>1, <1>3, <1>5 DEF IInv, MultiTypeOK, PathType, ClientType, RemovedIsForgotten
  <1>7. RegisteredInv'
    <2>1. RegisteredInv
      BY DEF IInv
    <2> QED BY <1>1, <1>3, <2>1, SameWorkSame, RegisteredKept
  <1> QED BY <1>2, <1>3, <1>4, <1>5, <1>6, <1>7 DEF IInv

\* The changes a step makes to its call.
LEMMA MovesTo ==
    ASSUME NEW i \in Senders, send[i] \in SendType, send[i].pc \notin {"start", "done"}
    PROVE  /\ \A pc \in {"current", "sending", "reset", "choose", "single", "set", "race",
                         "retry", "end"} :
                 Moves(i, [send[i] EXCEPT !.pc = pc])
           /\ \A c \in ClientOrNone :
                 /\ Moves(i, [send[i] EXCEPT !.pc = "sending", !.client = c])
                 /\ Moves(i, [send[i] EXCEPT !.pc = "single", !.client = c])
           /\ \A w \in SUBSET Clients :
                 Moves(i, [send[i] EXCEPT !.pc = "race", !.toSend = w])
           /\ \A w, v \in SUBSET Clients :
                 /\ Moves(i, [send[i] EXCEPT !.toSend = w, !.sending = v])
                 /\ Moves(i, [send[i] EXCEPT !.sending = w, !.sent = v, !.success = TRUE])
                 /\ Moves(i, [send[i] EXCEPT !.toSend = w])
                 /\ Moves(i, [send[i] EXCEPT !.sending = w])
                 /\ Moves(i, [send[i] EXCEPT !.sent = w])
  <1>1. ASSUME NEW pc \in {"current", "sending", "reset", "choose", "single", "set", "race",
                          "retry", "end"}
        PROVE  Moves(i, [send[i] EXCEPT !.pc = pc])
    BY DEF Moves, SendType
  <1>2. ASSUME NEW c \in ClientOrNone
        PROVE  /\ Moves(i, [send[i] EXCEPT !.pc = "sending", !.client = c])
               /\ Moves(i, [send[i] EXCEPT !.pc = "single", !.client = c])
    BY DEF Moves, SendType
  <1>3. ASSUME NEW w \in SUBSET Clients
        PROVE  Moves(i, [send[i] EXCEPT !.pc = "race", !.toSend = w])
    BY DEF Moves, SendType
  <1>4. ASSUME NEW w \in SUBSET Clients, NEW v \in SUBSET Clients
        PROVE  /\ Moves(i, [send[i] EXCEPT !.toSend = w, !.sending = v])
               /\ Moves(i, [send[i] EXCEPT !.sending = w, !.sent = v, !.success = TRUE])
    BY DEF Moves, SendType
  <1>5. ASSUME NEW w \in SUBSET Clients
        PROVE  /\ Moves(i, [send[i] EXCEPT !.toSend = w])
               /\ Moves(i, [send[i] EXCEPT !.sending = w])
               /\ Moves(i, [send[i] EXCEPT !.sent = w])
    BY DEF Moves, SendType
  <1> QED BY <1>1, <1>2, <1>3, <1>4, <1>5

LEMMA SendCurrentStep ==
    ASSUME IInv, NEW i \in Senders, SendCurrent(i)
    PROVE  IInv'
  <1>1. send[i].pc = "current"
    BY DEF SendCurrent
  <1>2. /\ send[i] \in SendType /\ updates[send[i].update] \in UpdateType
        /\ UNCHANGED <<pathVars, clientVars, receive, complete, sentTo, userVars>>
        /\ sentTo' \in [Clients -> SUBSET Paths]
    BY <1>1, SendAtWork DEF SendCurrent, IInv, MultiTypeOK, ClientType
  <1>3. PICK c \in ClientOrNone : c = updates[send[i].update].client
    BY <1>2 DEF UpdateType
  <1>4. \/ send' = [send EXCEPT ![i] = [send[i] EXCEPT !.pc = "sending", !.client = c]]
        \/ send' = [send EXCEPT ![i] = [send[i] EXCEPT !.pc = "choose"]]
        \/ send' = [send EXCEPT ![i] = [send[i] EXCEPT !.pc = "end"]]
    BY <1>3 DEF SendCurrent
  <1>5. /\ Moves(i, [send[i] EXCEPT !.pc = "sending", !.client = c])
        /\ Moves(i, [send[i] EXCEPT !.pc = "choose"])
        /\ Moves(i, [send[i] EXCEPT !.pc = "end"])
    BY <1>1, <1>2, MovesTo
  <1>6. PICK x : Moves(i, x) /\ send' = [send EXCEPT ![i] = x]
    BY <1>4, <1>5, Zenon
  <1> QED BY <1>2, <1>6, SendOnly

LEMMA SendChooseStep ==
    ASSUME IInv, NEW i \in Senders, SendChoose(i)
    PROVE  IInv'
  <1>1. send[i].pc = "choose"
    BY DEF SendChoose
  <1>2. /\ send[i] \in SendType
        /\ UNCHANGED <<pathVars, clientVars, receive, complete, sentTo, userVars>>
        /\ sentTo' \in [Clients -> SUBSET Paths]
    BY <1>1, SendAtWork DEF SendChoose, IInv, MultiTypeOK, ClientType
  <1>3. PICK w \in SUBSET Clients :
           send' = [send EXCEPT ![i] =
              CASE w = {} -> [send[i] EXCEPT !.pc = "retry"]
                [] Cardinality(w) = 1 ->
                     [send[i] EXCEPT !.pc = "single", !.client = CHOOSE c \in w : TRUE]
                [] OTHER -> [send[i] EXCEPT !.pc = "race", !.toSend = w]]
    BY DEF SendChoose
  <1>4. PICK x : Moves(i, x) /\ send' = [send EXCEPT ![i] = x]
    <2>1. CASE w = {}
      <3>1. Cardinality(w) = 0
        BY <2>1, FS_EmptySet
      <3>2. Cardinality(w) # 1
        BY <3>1
      <3>3. send' = [send EXCEPT ![i] = [send[i] EXCEPT !.pc = "retry"]]
        BY <1>3, <2>1, <3>2, Zenon
      <3>4. Moves(i, [send[i] EXCEPT !.pc = "retry"])
        BY <1>1, <1>2, MovesTo
      <3> QED BY <3>3, <3>4, Zenon
    <2>2. CASE w # {} /\ Cardinality(w) = 1
      <3>1. PICK c \in Clients : c = CHOOSE d \in w : TRUE
        BY <2>2
      <3>2. send' = [send EXCEPT ![i] = [send[i] EXCEPT !.pc = "single", !.client = c]]
        BY <1>3, <2>2, <3>1
      <3>3. Moves(i, [send[i] EXCEPT !.pc = "single", !.client = c])
        BY <1>1, <1>2, MovesTo DEF ClientOrNone
      <3> QED BY <3>2, <3>3, Zenon
    <2>3. CASE w # {} /\ Cardinality(w) # 1
      <3>1. send' = [send EXCEPT ![i] = [send[i] EXCEPT !.pc = "race", !.toSend = w]]
        BY <1>3, <2>3
      <3>2. Moves(i, [send[i] EXCEPT !.pc = "race", !.toSend = w])
        BY <1>1, <1>2, MovesTo
      <3> QED BY <3>1, <3>2, Zenon
    <2> QED BY <2>1, <2>2, <2>3
  <1> QED BY <1>2, <1>4, SendOnly

LEMMA SendSingleStep ==
    ASSUME IInv, NEW i \in Senders, SendSingle(i)
    PROVE  IInv'
  <1>1. send[i].pc = "single"
    BY DEF SendSingle
  <1>2. /\ send[i] \in SendType
        /\ UNCHANGED <<pathVars, clientVars, receive, complete, userVars>>
    BY <1>1, SendAtWork DEF SendSingle
  <1>3. sentTo' \in [Clients -> SUBSET Paths]
    <2>1. sentTo \in [Clients -> SUBSET Paths] /\ send[i].path \in Paths
      BY <1>2 DEF IInv, MultiTypeOK, ClientType, SendType
    <2> QED BY <2>1 DEF SendSingle
  <1>4. \/ send' = [send EXCEPT ![i] = [send[i] EXCEPT !.pc = "set"]]
        \/ send' = [send EXCEPT ![i] = [send[i] EXCEPT !.pc = "retry"]]
    BY DEF SendSingle
  <1>5. /\ Moves(i, [send[i] EXCEPT !.pc = "set"])
        /\ Moves(i, [send[i] EXCEPT !.pc = "retry"])
    BY <1>1, <1>2, MovesTo
  <1>6. PICK x : Moves(i, x) /\ send' = [send EXCEPT ![i] = x]
    BY <1>4, <1>5, Zenon
  <1> QED BY <1>2, <1>3, <1>6, SendOnly

LEMMA RaceCheckStep ==
    ASSUME IInv, NEW i \in Senders, NEW c \in Clients, RaceCheck(i, c)
    PROVE  IInv'
  <1>1. send[i].pc = "race"
    BY DEF RaceCheck
  <1>2. /\ send[i] \in SendType
        /\ UNCHANGED <<pathVars, clientVars, receive, complete, sentTo, userVars>>
        /\ sentTo' \in [Clients -> SUBSET Paths]
    BY <1>1, SendAtWork DEF RaceCheck, IInv, MultiTypeOK, ClientType
  <1>3. PICK w \in SUBSET Clients, v \in SUBSET Clients :
           w = send[i].toSend \ {c} /\ v = send[i].sending \cup {c}
    BY <1>2 DEF SendType
  <1>4. \/ send' = [send EXCEPT ![i] = [send[i] EXCEPT !.toSend = w, !.sending = v]]
        \/ send' = [send EXCEPT ![i] = [send[i] EXCEPT !.toSend = w]]
    BY <1>3 DEF RaceCheck
  <1>5. /\ Moves(i, [send[i] EXCEPT !.toSend = w, !.sending = v])
        /\ Moves(i, [send[i] EXCEPT !.toSend = w])
    BY <1>1, <1>2, MovesTo
  <1>6. PICK x : Moves(i, x) /\ send' = [send EXCEPT ![i] = x]
    BY <1>4, <1>5, Zenon
  <1> QED BY <1>2, <1>6, SendOnly

LEMMA RaceSendStep ==
    ASSUME IInv, NEW i \in Senders, NEW c \in Clients, RaceSend(i, c)
    PROVE  IInv'
  <1>1. send[i].pc = "race"
    BY DEF RaceSend
  <1>2. /\ send[i] \in SendType
        /\ UNCHANGED <<pathVars, clientVars, receive, complete, userVars>>
    BY <1>1, SendAtWork DEF RaceSend
  <1>3. sentTo' \in [Clients -> SUBSET Paths]
    <2>1. sentTo \in [Clients -> SUBSET Paths] /\ send[i].path \in Paths
      BY <1>2 DEF IInv, MultiTypeOK, ClientType, SendType
    <2> QED BY <2>1 DEF RaceSend
  <1>4. PICK w \in SUBSET Clients, v \in SUBSET Clients :
           w = send[i].sending \ {c} /\ v = send[i].sent \cup {c}
    BY <1>2 DEF SendType
  <1>5. \/ send' = [send EXCEPT ![i] =
                      [send[i] EXCEPT !.sending = w, !.sent = v, !.success = TRUE]]
        \/ send' = [send EXCEPT ![i] = [send[i] EXCEPT !.sending = w]]
    BY <1>4 DEF RaceSend
  <1>6. /\ Moves(i, [send[i] EXCEPT !.sending = w, !.sent = v, !.success = TRUE])
        /\ Moves(i, [send[i] EXCEPT !.sending = w])
    BY <1>1, <1>2, MovesTo
  <1>7. PICK x : Moves(i, x) /\ send' = [send EXCEPT ![i] = x]
    BY <1>5, <1>6, Zenon
  <1> QED BY <1>2, <1>3, <1>7, SendOnly

LEMMA SendWaitsStep ==
    ASSUME IInv, NEW i \in Senders, RaceSendsEnd(i) \/ SendRetry(i)
    PROVE  IInv'
  <1>1. send[i].pc \in {"race", "retry"}
    BY DEF RaceSendsEnd, SendRetry
  <1>2. /\ send[i] \in SendType
        /\ UNCHANGED <<pathVars, clientVars, receive, complete, sentTo, userVars>>
        /\ sentTo' \in [Clients -> SUBSET Paths]
    BY <1>1, SendAtWork DEF RaceSendsEnd, SendRetry, IInv, MultiTypeOK, ClientType
  <1>3. PICK pc \in {"end", "retry", "choose"} :
           send' = [send EXCEPT ![i] = [send[i] EXCEPT !.pc = pc]]
    BY DEF RaceSendsEnd, SendRetry
  <1>4. Moves(i, [send[i] EXCEPT !.pc = pc])
    BY <1>1, <1>2, MovesTo
  <1> QED BY <1>2, <1>3, <1>4, SendOnly

-----------------------------------------------------------------------------
(* SendPacket: the steps that change the update.                           *)

\* Update u becomes y, on the same path and with the same race.
Becomes(u, y) ==
    /\ y \in UpdateType /\ updates' = [updates EXCEPT ![u] = y]
    /\ y.path = updates[u].path /\ y.race = updates[u].race /\ y.done = updates[u].done

LEMMA BecomesStep ==
    ASSUME IInv, NEW u \in DOMAIN updates, NEW y, Becomes(u, y),
           UNCHANGED <<pathUpdates, races, complete>>
    PROVE  /\ PathInv' /\ RaceInv' /\ KeepsPaths
           /\ updates' \in Seq(UpdateType) /\ DOMAIN updates' = DOMAIN updates
           /\ updates'[u] = y /\ \A v \in DOMAIN updates : v # u => updates'[v] = updates[v]
  <1>1. updates \in Seq(UpdateType)
    BY DEF IInv, MultiTypeOK, PathType
  <1>2. /\ updates' \in Seq(UpdateType) /\ DOMAIN updates' = DOMAIN updates
        /\ updates'[u] = y /\ \A v \in DOMAIN updates : v # u => updates'[v] = updates[v]
    BY <1>1, Replaced DEF Becomes
  <1>3. \A v \in DOMAIN updates :
           /\ updates'[v].path = updates[v].path /\ updates'[v].race = updates[v].race
           /\ updates'[v].done = updates[v].done
    BY <1>2 DEF Becomes
  <1> QED BY <1>2, <1>3, RaceStays

LEMMA SendUpdates ==
    ASSUME IInv, NEW i \in Senders, NEW x, Moves(i, x), send' = [send EXCEPT ![i] = x],
           NEW y, Becomes(send[i].update, y),
           UNCHANGED <<pathUpdates, races, clientVars, receive, complete>>,
           sentTo' \in [Clients -> SUBSET Paths], unraced' \subseteq Paths,
           returned' \subseteq Nat, returned \subseteq returned', HeardInv', GivenType',
           \/ y.client \in {NoClient, updates[send[i].update].client}
           \/ send[i].update \in returned' \/ send[i].update \in clientUpdates[y.client]
           \/ send[i].previous # y.client
    PROVE  IInv'
  <1> DEFINE u == send[i].update
  <1>1. UNCHANGED <<pathUpdates, races, clientUpdates, phase, receive, complete>>
    BY DEF clientVars
  <1>2. send[i].pc \notin {"start", "done"}
    BY DEF Moves
  <1>3. u \in DOMAIN updates
    BY <1>2, SendAtWork
  <1>4. /\ PathInv' /\ RaceInv' /\ KeepsPaths
        /\ updates' \in Seq(UpdateType) /\ DOMAIN updates' = DOMAIN updates
        /\ updates'[u] = y /\ \A v \in DOMAIN updates : v # u => updates'[v] = updates[v]
    <2> HIDE DEF u
    <2>1. Becomes(u, y)
      BY DEF u
    <2> QED BY <1>1, <1>3, <2>1, BecomesStep
  <1>5. send' \in [Senders -> SendType] /\ SameWork(send, send') /\ SendInv'
    BY <1>4, SendMoves
  <1>6. ReceiveInv' /\ CompleteInv'
    BY <1>1, ReceiveStays, CompleteStays
  <1>7. MultiTypeOK'
    BY <1>1, <1>4, <1>5 DEF IInv, MultiTypeOK, PathType, ClientType
  <1>8. RemovedIsForgotten'
    BY <1>1 DEF IInv, RemovedIsForgotten
  <1>9. RegisteredInv'
    <2>1. RegisteredInv /\ DOMAIN send = Senders
      BY DEF IInv, MultiTypeOK, ClientType
    <2>2. send[i].previous # y.client => Pending(send, u, y.client)
      BY <2>1 DEF Pending
    <2>3. \A v \in DOMAIN updates' \ returned' :
             /\ v \in DOMAIN updates
             /\ \/ updates'[v].client \in {NoClient, updates[v].client}
                \/ v \in clientUpdates[updates'[v].client]
                \/ Pending(send, v, updates'[v].client)
                \/ Pending(complete, v, updates'[v].client)
      <3>1. TAKE v \in DOMAIN updates' \ returned'
      <3>2. CASE v = u
        BY <1>3, <1>4, <2>2, <3>2
      <3>3. CASE v # u
        BY <1>4, <3>3
      <3> QED BY <3>2, <3>3
    <2>4. SameWork(receive, receive') /\ SameWork(complete, complete')
      BY <1>1, SameWorkSame
    <2> QED BY <1>5, <2>1, <2>3, <2>4, RegisteredKept
  <1> QED BY <1>4, <1>5, <1>6, <1>7, <1>8, <1>9 DEF IInv

LEMMA SendToClientStep ==
    ASSUME IInv, NEW i \in Senders, SendToClient(i)
    PROVE  IInv'
  <1> DEFINE u == send[i].update
  <1>1. send[i].pc = "sending"
    BY DEF SendToClient
  <1>2. /\ send[i] \in SendType /\ u \in DOMAIN updates /\ updates[u] \in UpdateType
        /\ UNCHANGED <<pathUpdates, races, clientVars, receive, complete, userVars>>
    BY <1>1, SendAtWork DEF SendToClient
  <1>3. sentTo' \in [Clients -> SUBSET Paths]
    <2>1. sentTo \in [Clients -> SUBSET Paths] /\ send[i].path \in Paths
      BY <1>2 DEF IInv, MultiTypeOK, ClientType, SendType
    <2> QED BY <2>1 DEF SendToClient
  <1>4. PICK x : Moves(i, x) /\ send' = [send EXCEPT ![i] = x]
    <2>1. Moves(i, [send[i] EXCEPT !.pc = "end"])
      BY <1>1, <1>2, MovesTo
    <2>2. send' = [send EXCEPT ![i] = [send[i] EXCEPT !.pc = "end"]]
      BY DEF SendToClient
    <2> QED BY <2>1, <2>2, Zenon
  <1>5. CASE UNCHANGED <<updates, sentTo>>
    BY <1>2, <1>3, <1>4, <1>5, SendOnly DEF pathVars
  <1>6. CASE updates' = [updates EXCEPT ![u].normal = TRUE]
    <2> DEFINE y == [updates[u] EXCEPT !.normal = TRUE]
    <2>1. y.client = updates[u].client /\ Becomes(u, y)
      BY <1>2, <1>6 DEF UpdateType, Becomes
    <2> HIDE DEF y
    <2>2. UNCHANGED <<givenVars, unraced, returned>>
      BY <1>2 DEF userVars
    <2>3. unraced' \subseteq Paths /\ returned' \subseteq Nat /\ returned \subseteq returned'
      BY <2>2 DEF IInv, MultiTypeOK, ClientType
    <2>4. HeardInv' /\ GivenType'
      <3>1. /\ updates'[u] = y
            /\ \A v \in DOMAIN updates : v # u => updates'[v] = updates[v]
        BY <1>2, <2>1, BecomesStep
      <3>2. \A q \in Paths, c \in Clients : Keeps(q, c)
        BY <1>2, <2>1, <3>1 DEF IInv, PathInv, Keeps
      <3> QED BY <2>2, <3>2, HeardKept
    <2> QED BY <1>2, <1>3, <1>4, <2>1, <2>3, <2>4, SendUpdates
  <1> QED BY <1>5, <1>6 DEF SendToClient

LEMMA SendFailsStep ==
    ASSUME IInv, NEW i \in Senders, SendFails(i)
    PROVE  IInv'
  <1> DEFINE u == send[i].update
             y == [updates[u] EXCEPT !.client = NoClient]
  <1>1. send[i].pc = "sending"
    BY DEF SendFails
  <1>2. /\ send[i] \in SendType /\ u \in DOMAIN updates /\ updates[u] \in UpdateType
        /\ updates[u].path = send[i].path
        /\ UNCHANGED <<pathUpdates, races, clientVars, receive, complete, sentTo, heard,
                       mixed, unraced, returned>>
    BY <1>1, SendAtWork DEF SendFails
  <1>3. PICK x : Moves(i, x) /\ send' = [send EXCEPT ![i] = x]
    <2>1. Moves(i, [send[i] EXCEPT !.pc = "reset"])
      BY <1>1, <1>2, MovesTo
    <2>2. send' = [send EXCEPT ![i] = [send[i] EXCEPT !.pc = "reset"]]
      BY DEF SendFails
    <2> QED BY <2>1, <2>2, Zenon
  <1>4. y.client = NoClient /\ Becomes(u, y)
    BY <1>2 DEF UpdateType, Becomes, ClientOrNone, SendFails
  <1> HIDE DEF y
  <1>5. /\ sentTo' \in [Clients -> SUBSET Paths]
        /\ unraced' \subseteq Paths /\ returned' \subseteq Nat /\ returned \subseteq returned'
    BY <1>2 DEF IInv, MultiTypeOK, ClientType
  <1>6. HeardInv' /\ GivenType'
    <2>1. PICK xs : xs = {ResetOf(send[i].path, u, i)}
      OBVIOUS
    <2>2. xs \subseteq ResetType /\ PathsOf(xs) = {send[i].path} /\ LetGo(xs)
      BY <1>2, <2>1 DEF SendFails, ResetOf, ResetType, PathsOf, SendType
    <2>3. \A v \in DOMAIN updates : v # u => updates'[v] = updates[v]
      BY <1>2, <1>4, BecomesStep
    <2>4. \A q \in Paths, c \in Clients : q \in PathsOf(xs) \/ Keeps(q, c)
      BY <1>2, <2>2, <2>3 DEF IInv, PathInv, Keeps
    <2> QED BY <1>2, <2>2, <2>4, HeardLetGo
  <1> QED BY <1>2, <1>3, <1>4, <1>5, <1>6, SendUpdates

LEMMA SendResetStep ==
    ASSUME IInv, NEW i \in Senders, SendReset(i)
    PROVE  IInv'
  <1>1. send[i].pc = "reset"
    BY DEF SendReset
  <1>2. /\ send[i] \in SendType
        /\ UNCHANGED <<pathUpdates, updates, races, clientUpdates, phase, receive, complete,
                       sentTo, toUser, overtaken, mixed, unraced, returned>>
    BY <1>1, SendAtWork DEF SendReset, pathVars, clientVars
  <1>3. PICK x : Moves(i, x) /\ send' = [send EXCEPT ![i] = x]
    <2>1. Moves(i, [send[i] EXCEPT !.pc = "end"])
      BY <1>1, <1>2, MovesTo
    <2>2. send' = [send EXCEPT ![i] = [send[i] EXCEPT !.pc = "end"]]
      BY DEF SendReset
    <2> QED BY <2>1, <2>2, Zenon
  <1>4. HeardInv' /\ GivenType'
    <2>1. PICK y : y = ResetOf(send[i].path, send[i].update, i)
      OBVIOUS
    <2>2. y \in ResetType /\ GiveReset(y)
      BY <1>2, <2>1 DEF SendReset, ResetOf, ResetType, SendType
    <2> QED BY <1>2, <2>2, HeardReset
  <1>5. PathInv' /\ RaceInv' /\ KeepsPaths
    <2>1. updates' \in Seq(UpdateType)
      BY <1>2 DEF IInv, MultiTypeOK, PathType
    <2> QED BY <1>2, <2>1, RaceStays
  <1>6. send' \in [Senders -> SendType] /\ SameWork(send, send') /\ SendInv'
    BY <1>3, <1>5, SendMoves
  <1>7. ReceiveInv' /\ CompleteInv'
    BY <1>2, ReceiveStays, CompleteStays
  <1>8. MultiTypeOK' /\ RemovedIsForgotten'
    BY <1>2, <1>4, <1>6 DEF IInv, MultiTypeOK, PathType, ClientType, RemovedIsForgotten
  <1>9. RegisteredInv'
    <2>1. RegisteredInv
      BY DEF IInv
    <2> QED BY <1>2, <1>6, <2>1, SameWorkSame, RegisteredKept DEF clientVars
  <1> QED BY <1>4, <1>5, <1>6, <1>7, <1>8, <1>9 DEF IInv

LEMMA SetSingleStep ==
    ASSUME IInv, NEW i \in Senders, SetSingle(i)
    PROVE  IInv'
  <1> DEFINE u == send[i].update
             c == send[i].client
             y == [updates[u] EXCEPT !.client = c]
  <1>1. send[i].pc = "set"
    BY DEF SetSingle
  <1>2. /\ send[i] \in SendType /\ u \in DOMAIN updates /\ updates[u] \in UpdateType
        /\ updates[u].path = send[i].path
        /\ UNCHANGED <<pathUpdates, races, clientVars, receive, complete, sentTo, givenVars>>
    BY <1>1, SendAtWork DEF SetSingle
  <1>3. PICK x : Moves(i, x) /\ send' = [send EXCEPT ![i] = x]
    <2>1. Moves(i, [send[i] EXCEPT !.pc = "end"])
      BY <1>1, <1>2, MovesTo
    <2>2. send' = [send EXCEPT ![i] = [send[i] EXCEPT !.pc = "end"]]
      BY DEF SetSingle
    <2> QED BY <2>1, <2>2, Zenon
  <1>4. y.client = c /\ Becomes(u, y)
    <2>1. c \in ClientOrNone
      BY <1>2 DEF SendType
    <2> QED BY <1>2, <2>1 DEF UpdateType, Becomes, SetSingle
  <1>5. /\ updates'[u].client = c
        /\ \A v \in DOMAIN updates : v # u => updates'[v] = updates[v]
    <2> HIDE DEF y
    <2> QED BY <1>2, <1>4, BecomesStep
  <1> HIDE DEF y
  <1>6. sentTo' \in [Clients -> SUBSET Paths] /\ unraced' \subseteq Paths
    BY <1>2 DEF IInv, MultiTypeOK, ClientType, SetSingle, SendType
  <1>7. /\ returned' \subseteq Nat /\ returned \subseteq returned'
        /\ \/ u \in returned' \/ u \in clientUpdates[c] \/ send[i].previous # c
    <2>1. returned \subseteq Nat /\ u \in Nat
      BY <1>2 DEF IInv, MultiTypeOK, ClientType, SendType
    <2> QED BY <2>1 DEF SetSingle, Return
  <1>8. HeardInv' /\ GivenType'
    <2>1. unraced' = IF updates[u].client \in {NoClient, c} THEN unraced
                     ELSE unraced \cup {send[i].path}
      BY DEF SetSingle
    <2>2. ASSUME NEW q \in Paths \ unraced', NEW d \in Clients,
                 pathUpdates[q] # 0, updates[pathUpdates[q]].client = d
          PROVE  pathUpdates'[q] # 0 /\ updates'[pathUpdates'[q]].client = d
      <3>1. pathUpdates[q] \in DOMAIN updates /\ updates[pathUpdates[q]].path = q
        BY <2>2 DEF IInv, PathInv
      <3>2. CASE pathUpdates[q] = u
        BY <1>2, <1>5, <2>1, <2>2, <3>1, <3>2, MultiAssumption
      <3>3. CASE pathUpdates[q] # u
        BY <1>2, <1>5, <2>2, <3>1, <3>3
      <3> QED BY <3>2, <3>3
    <2>3. \A q \in Paths \ unraced', d \in Clients : Keeps(q, d)
      BY <2>2 DEF Keeps
    <2>4. unraced \subseteq unraced'
      BY <2>1
    <2> QED BY <1>2, <2>3, <2>4, HeardKept
  <1> QED BY <1>2, <1>3, <1>4, <1>6, <1>7, <1>8, SendUpdates

-----------------------------------------------------------------------------
(* The steps that reserve an update.                                       *)

\* The calls of g that worked before, in f, go on with their work.
KeepsWork(f, g) ==
    /\ DOMAIN g = DOMAIN f
    /\ \A x \in DOMAIN f : f[x].update # 0 =>
          g[x].update = f[x].update /\ g[x].previous = f[x].previous

LEMMA PendingKept ==
    ASSUME NEW f, NEW g, KeepsWork(f, g), NEW u, u # 0, NEW c, Pending(f, u, c)
    PROVE  Pending(g, u, c)
  BY DEF KeepsWork, Pending

LEMMA FindsKeeps ==
    ASSUME IInv, NEW p \in Paths, NEW u, NEW c, Finds(p, u, c),
           UNCHANGED <<races, givenVars, unraced>>, DOMAIN complete' = DOMAIN complete,
           \A r \in DOMAIN complete :
              /\ complete'[r].path = complete[r].path
              /\ complete[r].pc \in {"wait", "callback"} =>
                    complete'[r].pc \in {"wait", "callback"}
    PROVE  PathInv' /\ KeepsPaths /\ RaceInv' /\ HeardInv' /\ GivenType'
  <1>1. KeepsPaths
    BY DEF Finds, KeepsPaths
  <1>2. PathInv'
    BY DEF IInv, PathInv, Finds
  <1>3. DOMAIN complete = DOMAIN races
    BY DEF IInv, MultiTypeOK, PathType
  <1>4. RaceInv'
    <2>1. \A r \in DOMAIN races' :
             /\ races'[r].update \in DOMAIN updates'
             /\ complete'[r].path = updates'[races'[r].update].path
             /\ races'[r].open => updates'[races'[r].update].race = r
      BY <1>3 DEF IInv, RaceInv, RaceOf, Finds
    <2>2. \A v \in DOMAIN updates' : updates'[v].race # 0 =>
             /\ v \in DOMAIN updates
             /\ updates'[v].race \in DOMAIN races' /\ races'[updates'[v].race].update = v
             /\ ~updates'[v].done => races'[updates'[v].race].open
      BY DEF IInv, RaceInv, RaceOf, Finds
    <2>3. \A q \in Paths : pathUpdates'[q] # 0 /\ updates'[pathUpdates'[q]].race # 0 =>
             complete'[updates'[pathUpdates'[q]].race].pc \in {"wait", "callback"}
      <3>1. SUFFICES ASSUME NEW q \in Paths, NEW v, v = pathUpdates'[q], v # 0,
                            updates'[v].race # 0
                     PROVE  complete'[updates'[v].race].pc \in {"wait", "callback"}
        OBVIOUS
      <3>2. v \in DOMAIN updates'
        BY <1>2, <3>1 DEF PathInv
      <3>3. v \in DOMAIN updates /\ updates'[v] = updates[v]
        BY <2>2, <3>1, <3>2 DEF Finds
      <3>4. pathUpdates[q] = v
        BY <3>1, <3>3 DEF Finds, IInv, PathInv
      <3>5. updates[v].race \in DOMAIN complete
            /\ complete[updates[v].race].pc \in {"wait", "callback"}
        BY <1>3, <3>1, <3>3, <3>4 DEF IInv, RaceInv, RaceOf
      <3> QED BY <3>3, <3>5
    <2> QED BY <2>1, <2>2, <2>3 DEF RaceInv, RaceOf
  <1>5. HeardInv' /\ GivenType'
    <2>1. \A q \in Paths \ unraced', d \in Clients : Keeps(q, d)
      BY DEF IInv, Finds, PathInv, Keeps
    <2> QED BY <2>1, HeardKept
  <1> QED BY <1>1, <1>2, <1>4, <1>5

\* The calls that work find the update of their path in its place.
LEMMA FindsCalls ==
    ASSUME IInv, NEW p \in Paths, NEW u, NEW c, Finds(p, u, c)
    PROVE  /\ pathUpdates'[p] = u /\ u # 0
           /\ \A d \in Clients : receive[d].pc # "start" =>
                 receive[d].update # 0 /\ pathUpdates'[receive[d].path] = receive[d].update
           /\ \A r \in DOMAIN complete : complete[r].pc \notin {"wait", "done"} =>
                 complete[r].update # 0 /\ pathUpdates'[complete[r].path] = complete[r].update
  <1>1. pathUpdates'[p] = u /\ u # 0
        /\ \A q \in Paths : pathUpdates[q] # 0 => pathUpdates'[q] = pathUpdates[q]
    BY DEF Finds
  <1>2. ASSUME NEW d \in Clients, receive[d].pc # "start"
        PROVE  receive[d].update # 0 /\ pathUpdates'[receive[d].path] = receive[d].update
    <2>1. receive[d].path \in Paths
      BY DEF IInv, MultiTypeOK, ClientType, ReceiveType
    <2> QED BY <1>1, <1>2, <2>1 DEF IInv, ReceiveInv
  <1>3. ASSUME NEW r \in DOMAIN complete, complete[r].pc \notin {"wait", "done"}
        PROVE  complete[r].update # 0 /\ pathUpdates'[complete[r].path] = complete[r].update
    <2>1. complete[r] \in CompleteType
      BY DEF IInv, MultiTypeOK, PathType
    <2>2. complete[r].path \in Paths
      BY <2>1 DEF CompleteType
    <2> QED BY <1>1, <1>3, <2>2 DEF IInv, CompleteInv
  <1> QED BY <1>1, <1>2, <1>3

LEMMA FindsRegistered ==
    ASSUME IInv, NEW p \in Paths, NEW u, NEW c, Finds(p, u, c),
           UNCHANGED clientVars, UNCHANGED returned,
           KeepsWork(send, send'), KeepsWork(receive, receive'),
           KeepsWork(complete, complete'),
           \A d : d # c => \/ Pending(send', u, d) \/ Pending(receive', u, d)
                           \/ Pending(complete', u, d)
    PROVE  RegisteredInv'
  <1>1. SUFFICES ASSUME NEW v \in DOMAIN updates' \ returned',
                        updates'[v].client # NoClient,
                        phase'[updates'[v].client] \notin {"done", "out", "removed"}
                 PROVE  \/ v \in clientUpdates'[updates'[v].client]
                        \/ Pending(send', v, updates'[v].client)
                        \/ Pending(receive', v, updates'[v].client)
                        \/ Pending(complete', v, updates'[v].client)
    BY DEF RegisteredInv, Pending, IsDone
  <1>2. PICK d : d = updates'[v].client
    OBVIOUS
  <1>3. d # NoClient /\ ~IsDone(d) /\ clientUpdates' = clientUpdates
    BY <1>1, <1>2 DEF IsDone, clientVars
  <1>4. CASE v \in DOMAIN updates
    <2>1. v # 0 /\ updates[v].client = d
      BY <1>2, <1>4 DEF IInv, MultiTypeOK, PathType, Finds
    <2>2. v \in clientUpdates[d] \/ Pending(send, v, d) \/ Pending(receive, v, d)
          \/ Pending(complete, v, d)
      BY <1>3, <1>4, <2>1 DEF IInv, RegisteredInv
    <2> QED BY <1>2, <1>3, <2>1, <2>2, PendingKept
  <1>5. CASE v \notin DOMAIN updates
    <2>1. v = u /\ c = NoClient
      BY <1>5 DEF Finds
    <2> QED BY <1>2, <1>3, <2>1
  <1> QED BY <1>4, <1>5

LEMMA SendReserveStep ==
    ASSUME IInv, NEW i \in Senders, SendReserve(i)
    PROVE  IInv'
  <1> DEFINE p == send[i].path
  <1>1. /\ send \in [Senders -> SendType] /\ send[i] \in SendType /\ p \in Paths
        /\ send[i].pc = "start" /\ send[i].update = 0 /\ Reserve(p) /\ PathType /\ PathInv
    BY DEF SendReserve, IInv, MultiTypeOK, ClientType, SendType, SendInv
  <1>2. UNCHANGED <<races, clientUpdates, phase, receive, complete, sentTo, givenVars,
                    unraced, returned>>
    BY DEF SendReserve, clientVars, userVars
  <1>3. /\ pathUpdates' \in [Paths -> Nat] /\ updates' \in Seq(UpdateType)
        /\ \E u \in Nat, c \in ClientOrNone :
              /\ Finds(p, u, c)
              /\ \A call : Reserved(p, call) = [call EXCEPT !.update = u, !.previous = c]
    <2> HIDE DEF p
    <2> QED BY <1>1, ReserveStep
  <1>4. PICK u \in Nat, c \in ClientOrNone :
           /\ Finds(p, u, c)
           /\ \A call : Reserved(p, call) = [call EXCEPT !.update = u, !.previous = c]
    BY <1>3
  <1>5. PICK x : x = [[send[i] EXCEPT !.pc = "current"] EXCEPT !.update = u, !.previous = c]
    OBVIOUS
  <1>6. x \in SendType /\ x.pc = "current" /\ x.path = p /\ x.update = u /\ x.previous = c
    BY <1>1, <1>5 DEF SendType
  <1>7. send' = [send EXCEPT ![i] = x]
    BY <1>4, <1>5, Zenon DEF SendReserve
  <1>8. /\ send' \in [Senders -> SendType] /\ send'[i] = x
        /\ \A j \in Senders : j # i => send'[j] = send[j]
    BY <1>1, <1>6, <1>7
  <1>9. PathInv' /\ KeepsPaths /\ RaceInv' /\ HeardInv' /\ GivenType'
    <2> HIDE DEF p
    <2> QED BY <1>1, <1>2, <1>4, FindsKeeps
  <1>10. SendInv'
    <2>1. u \in DOMAIN updates' /\ updates'[u].path = p
      BY <1>4 DEF Finds
    <2> QED BY <1>6, <1>8, <1>9, <2>1 DEF IInv, SendInv, KeepsPaths
  <1>11. ReceiveInv' /\ CompleteInv'
    <2> HIDE DEF p
    <2> QED BY <1>1, <1>2, <1>4, FindsCalls DEF IInv, ReceiveInv, CompleteInv
  <1>12. RegisteredInv'
    <2>1. KeepsWork(send, send')
      BY <1>1, <1>8 DEF KeepsWork
    <2>2. KeepsWork(receive, receive') /\ KeepsWork(complete, complete')
      BY <1>2 DEF KeepsWork
    <2>3. \A d : d # c => Pending(send', u, d)
      BY <1>6, <1>8 DEF Pending
    <2> HIDE DEF p
    <2> QED BY <1>1, <1>2, <1>4, <2>1, <2>2, <2>3, FindsRegistered DEF clientVars
  <1>13. MultiTypeOK'
    BY <1>2, <1>3, <1>8, <1>9 DEF IInv, MultiTypeOK, PathType, ClientType
  <1>14. RemovedIsForgotten'
    BY <1>2 DEF IInv, RemovedIsForgotten
  <1> QED BY <1>9, <1>10, <1>11, <1>12, <1>13, <1>14 DEF IInv

LEMMA ReceiveReserveStep ==
    ASSUME IInv, NEW k \in Clients, ReceiveReserve(k)
    PROVE  IInv'
  <1>1. PICK p \in Paths :
           /\ Reserve(p)
           /\ receive' = [receive EXCEPT ![k] =
                            Reserved(p, [Call(p) EXCEPT !.pc = "callback"])]
    BY DEF ReceiveReserve, IInv, MultiTypeOK, ClientType
  <1>2. /\ receive \in [Clients -> ReceiveType] /\ receive[k].pc = "start"
        /\ receive[k].update = 0 /\ PathType /\ PathInv
    BY DEF ReceiveReserve, IInv, MultiTypeOK, ClientType, ReceiveInv
  <1>3. UNCHANGED <<races, clientUpdates, phase, send, complete, sentTo, givenVars,
                    unraced, returned>>
    BY DEF ReceiveReserve, clientVars, userVars
  <1>4. /\ pathUpdates' \in [Paths -> Nat] /\ updates' \in Seq(UpdateType)
        /\ \E u \in Nat, c \in ClientOrNone :
              /\ Finds(p, u, c)
              /\ \A call : Reserved(p, call) = [call EXCEPT !.update = u, !.previous = c]
    BY <1>1, <1>2, ReserveStep
  <1>5. PICK u \in Nat, c \in ClientOrNone :
           /\ Finds(p, u, c)
           /\ \A call : Reserved(p, call) = [call EXCEPT !.update = u, !.previous = c]
    BY <1>4
  <1>6. PICK x : x = [[Call(p) EXCEPT !.pc = "callback"] EXCEPT !.update = u, !.previous = c]
    OBVIOUS
  <1>7. x \in ReceiveType /\ x.pc = "callback" /\ x.path = p /\ x.update = u /\ x.previous = c
    BY <1>6 DEF ReceiveType, Call, ClientOrNone
  <1>8. receive' = [receive EXCEPT ![k] = x]
    BY <1>1, <1>5, <1>6, Zenon
  <1>9. /\ receive' \in [Clients -> ReceiveType] /\ receive'[k] = x
        /\ \A d \in Clients : d # k => receive'[d] = receive[d]
    BY <1>2, <1>7, <1>8
  <1>10. PathInv' /\ KeepsPaths /\ RaceInv' /\ HeardInv' /\ GivenType'
    BY <1>3, <1>5, FindsKeeps
  <1>11. SendInv'
    BY <1>3, <1>10, SendStays
  <1>12. ReceiveInv' /\ CompleteInv'
    <2>1. /\ pathUpdates'[p] = u /\ u # 0
          /\ \A d \in Clients : receive[d].pc # "start" =>
                receive[d].update # 0 /\ pathUpdates'[receive[d].path] = receive[d].update
          /\ \A r \in DOMAIN complete : complete[r].pc \notin {"wait", "done"} =>
                complete[r].update # 0 /\ pathUpdates'[complete[r].path] = complete[r].update
      BY <1>5, FindsCalls
    <2>2. ReceiveInv'
      BY <1>7, <1>9, <2>1 DEF IInv, ReceiveInv
    <2>3. CompleteInv'
      BY <1>3, <2>1 DEF IInv, CompleteInv
    <2> QED BY <2>2, <2>3
  <1>13. RegisteredInv'
    <2>1. KeepsWork(receive, receive')
      BY <1>2, <1>9 DEF KeepsWork
    <2>2. KeepsWork(send, send') /\ KeepsWork(complete, complete')
      BY <1>3 DEF KeepsWork
    <2>3. \A d : d # c => Pending(receive', u, d)
      BY <1>7, <1>9 DEF Pending
    <2> QED BY <1>3, <1>5, <2>1, <2>2, <2>3, FindsRegistered DEF clientVars
  <1>14. MultiTypeOK'
    BY <1>3, <1>4, <1>9, <1>10 DEF IInv, MultiTypeOK, PathType, ClientType
  <1>15. RemovedIsForgotten'
    BY <1>3 DEF IInv, RemovedIsForgotten
  <1> QED BY <1>10, <1>11, <1>12, <1>13, <1>14, <1>15 DEF IInv

LEMMA CompleteReserveStep ==
    ASSUME IInv, NEW k \in DOMAIN complete, CompleteReserve(k)
    PROVE  IInv'
  <1> DEFINE p == complete[k].path
  <1>1. /\ complete \in Seq(CompleteType) /\ complete[k] \in CompleteType /\ p \in Paths
        /\ complete[k].pc = "wait" /\ complete[k].update = 0 /\ Reserve(p)
        /\ PathType /\ PathInv
    <2>1. complete \in Seq(CompleteType) /\ complete[k] \in CompleteType /\ PathType /\ PathInv
      BY DEF IInv, MultiTypeOK, PathType
    <2>2. complete[k].pc = "wait" /\ Reserve(p)
      BY DEF CompleteReserve
    <2> QED BY <2>1, <2>2 DEF IInv, CompleteType, CompleteInv
  <1>2. UNCHANGED <<races, clientUpdates, phase, send, receive, sentTo, givenVars,
                    unraced, returned>>
    BY DEF CompleteReserve, clientVars, userVars
  <1>3. /\ pathUpdates' \in [Paths -> Nat] /\ updates' \in Seq(UpdateType)
        /\ \E u \in Nat, c \in ClientOrNone :
              /\ Finds(p, u, c)
              /\ \A call : Reserved(p, call) = [call EXCEPT !.update = u, !.previous = c]
    <2> HIDE DEF p
    <2> QED BY <1>1, ReserveStep
  <1>4. PICK u \in Nat, c \in ClientOrNone :
           /\ Finds(p, u, c)
           /\ \A call : Reserved(p, call) = [call EXCEPT !.update = u, !.previous = c]
    BY <1>3
  <1>5. PICK x : x = [[complete[k] EXCEPT !.pc = "callback"] EXCEPT !.update = u, !.previous = c]
    OBVIOUS
  <1>6. x \in CompleteType /\ x.pc = "callback" /\ x.path = p /\ x.update = u /\ x.previous = c
    BY <1>1, <1>5 DEF CompleteType
  <1>7. complete' = [complete EXCEPT ![k] = x]
    BY <1>4, <1>5, Zenon DEF CompleteReserve
  <1>8. /\ complete' \in Seq(CompleteType) /\ Len(complete') = Len(complete)
        /\ DOMAIN complete' = DOMAIN complete
        /\ complete'[k] = x /\ \A r \in DOMAIN complete : r # k => complete'[r] = complete[r]
    BY <1>1, <1>6, <1>7, Replaced
  <1>9. PathInv' /\ KeepsPaths /\ RaceInv' /\ HeardInv' /\ GivenType'
    <2>1. \A r \in DOMAIN complete :
             /\ complete'[r].path = complete[r].path
             /\ complete[r].pc \in {"wait", "callback"} =>
                   complete'[r].pc \in {"wait", "callback"}
      BY <1>1, <1>6, <1>8
    <2> HIDE DEF p
    <2> QED BY <1>1, <1>2, <1>4, <1>8, <2>1, FindsKeeps
  <1>10. SendInv'
    BY <1>2, <1>9, SendStays
  <1>11. ReceiveInv' /\ CompleteInv'
    <2>1. /\ pathUpdates'[p] = u /\ u # 0
          /\ \A d \in Clients : receive[d].pc # "start" =>
                receive[d].update # 0 /\ pathUpdates'[receive[d].path] = receive[d].update
          /\ \A r \in DOMAIN complete : complete[r].pc \notin {"wait", "done"} =>
                complete[r].update # 0 /\ pathUpdates'[complete[r].path] = complete[r].update
      <3> HIDE DEF p
      <3> QED BY <1>1, <1>4, FindsCalls
    <2>2. ReceiveInv'
      BY <1>2, <2>1 DEF IInv, ReceiveInv
    <2>3. CompleteInv'
      BY <1>6, <1>8, <2>1 DEF IInv, CompleteInv
    <2> QED BY <2>2, <2>3
  <1>12. RegisteredInv'
    <2>1. KeepsWork(complete, complete')
      BY <1>1, <1>8 DEF KeepsWork
    <2>2. KeepsWork(receive, receive') /\ KeepsWork(send, send')
      BY <1>2 DEF KeepsWork
    <2>3. \A d : d # c => Pending(complete', u, d)
      BY <1>6, <1>8 DEF Pending
    <2> HIDE DEF p
    <2> QED BY <1>1, <1>2, <1>4, <2>1, <2>2, <2>3, FindsRegistered DEF clientVars
  <1>13. MultiTypeOK'
    BY <1>2, <1>3, <1>8, <1>9 DEF IInv, MultiTypeOK, PathType, ClientType
  <1>14. RemovedIsForgotten'
    BY <1>2 DEF IInv, RemovedIsForgotten
  <1> QED BY <1>9, <1>10, <1>11, <1>12, <1>13, <1>14 DEF IInv

-----------------------------------------------------------------------------
(* The section that ends updateClientPath.                                 *)

\* The client of the update is registered, unless it was before the call or is
\* done; no client is taken off an update it has.
LEMMA Registering ==
    ASSUME IInv, NEW call, call.update \in DOMAIN updates, clientUpdates' = Registered(call)
    PROVE  /\ clientUpdates' \in [Clients -> SUBSET Nat]
           /\ \A c \in Clients : phase[c] = "removed" => clientUpdates'[c] = {}
           /\ \A v \in DOMAIN updates, c \in Clients :
                 c = updates[v].client /\ v \in clientUpdates[c] => v \in clientUpdates'[c]
           /\ \A c \in Clients :
                 c = updates[call.update].client /\ ~IsDone(c) /\ call.previous # c =>
                    call.update \in clientUpdates'[c]
  <1>1. clientUpdates \in [Clients -> SUBSET Nat] /\ call.update \in Nat
    BY DEF IInv, MultiTypeOK, ClientType, PathType
  <1> DEFINE u == call.update
             k == updates[u].client
  <1>2. clientUpdates' = [d \in Clients |->
           IF call.previous = k THEN clientUpdates[d]
           ELSE IF d = k /\ Registers(k) THEN clientUpdates[d] \cup {u}
           ELSE IF d = call.previous THEN clientUpdates[d] \ {u}
           ELSE clientUpdates[d]]
    BY DEF Registered
  <1>3. Registers(k) <=> ~IsDone(k)
    BY DEF Registers
  <1>4. clientUpdates' \in [Clients -> SUBSET Nat]
    BY <1>1, <1>2
  <1>5. \A c \in Clients : phase[c] = "removed" => clientUpdates'[c] = {}
    BY <1>2, <1>3 DEF IInv, RemovedIsForgotten, IsDone
  <1>6. \A v \in DOMAIN updates, c \in Clients :
           c = updates[v].client /\ v \in clientUpdates[c] => v \in clientUpdates'[c]
    BY <1>2
  <1>7. \A c \in Clients :
           c = k /\ ~IsDone(c) /\ call.previous # c => u \in clientUpdates'[c]
    BY <1>2, <1>3
  <1> QED BY <1>4, <1>5, <1>6, <1>7

LEMMA EndRegistered ==
    ASSUME IInv, NEW call, call.update \in DOMAIN updates, clientUpdates' = Registered(call),
           UNCHANGED <<updates, phase, returned>>,
           \A v, c : /\ Pending(send, v, c) =>
                           Pending(send', v, c) \/ (v = call.update /\ call.previous # c)
                     /\ Pending(receive, v, c) =>
                           Pending(receive', v, c) \/ (v = call.update /\ call.previous # c)
                     /\ Pending(complete, v, c) =>
                           Pending(complete', v, c) \/ (v = call.update /\ call.previous # c)
    PROVE  RegisteredInv' /\ RemovedIsForgotten' /\ clientUpdates' \in [Clients -> SUBSET Nat]
  <1>1. /\ clientUpdates' \in [Clients -> SUBSET Nat]
        /\ \A c \in Clients : phase[c] = "removed" => clientUpdates'[c] = {}
        /\ \A v \in DOMAIN updates, c \in Clients :
              c = updates[v].client /\ v \in clientUpdates[c] => v \in clientUpdates'[c]
        /\ \A c \in Clients :
              c = updates[call.update].client /\ ~IsDone(c) /\ call.previous # c =>
                 call.update \in clientUpdates'[c]
    BY Registering
  <1>2. RemovedIsForgotten'
    BY <1>1 DEF RemovedIsForgotten
  <1>3. RegisteredInv'
    <2>1. SUFFICES ASSUME NEW v \in DOMAIN updates' \ returned',
                          updates'[v].client # NoClient,
                          phase'[updates'[v].client] \notin {"done", "out", "removed"}
                   PROVE  \/ v \in clientUpdates'[updates'[v].client]
                          \/ Pending(send', v, updates'[v].client)
                          \/ Pending(receive', v, updates'[v].client)
                          \/ Pending(complete', v, updates'[v].client)
      BY DEF RegisteredInv, Pending, IsDone
    <2>2. PICK c : c = updates[v].client
      OBVIOUS
    <2>3. c # NoClient /\ ~IsDone(c) /\ updates' = updates /\ v \in DOMAIN updates \ returned
      BY <2>1, <2>2 DEF IsDone
    <2>4. c \in Clients
      <3>1. updates[v] \in UpdateType
        BY <2>3 DEF IInv, MultiTypeOK, PathType
      <3> QED BY <2>2, <2>3, <3>1 DEF UpdateType, ClientOrNone
    <2>5. v \in clientUpdates[c] \/ Pending(send, v, c) \/ Pending(receive, v, c)
          \/ Pending(complete, v, c)
      BY <2>2, <2>3 DEF IInv, RegisteredInv
    <2>6. \/ v \in clientUpdates'[c] \/ Pending(send', v, c) \/ Pending(receive', v, c)
          \/ Pending(complete', v, c)
      BY <1>1, <2>2, <2>3, <2>4, <2>5
    <2> QED BY <2>2, <2>3, <2>6
  <1> QED BY <1>1, <1>2, <1>3

LEMMA AnyPathType == AnyPath \in Paths
  BY MultiAssumption DEF AnyPath

LEMMA SendEndStep ==
    ASSUME IInv, NEW i \in Senders, SendEnd(i)
    PROVE  IInv'
  <1>1. /\ send[i].pc = "end" /\ clientUpdates' = Registered(send[i])
        /\ UNCHANGED <<pathUpdates, updates, races, phase, receive, complete, sentTo, givenVars,
                       unraced, returned>>
    BY DEF SendEnd, pathVars, userVars
  <1>2. PICK x : x = NewSend("done", AnyPath)
    OBVIOUS
  <1>3. x \in SendType /\ x.pc = "done" /\ x.update = 0
    BY <1>2, AnyPathType DEF NewSend, SendType, ClientOrNone
  <1>4. send' = [send EXCEPT ![i] = x] /\ send \in [Senders -> SendType]
    BY <1>2 DEF SendEnd, IInv, MultiTypeOK, ClientType
  <1>5. /\ send' \in [Senders -> SendType] /\ send'[i] = x
        /\ \A j \in Senders : j # i => send'[j] = send[j]
    BY <1>3, <1>4
  <1>6. send[i].update \in DOMAIN updates
    BY <1>1, SendAtWork
  <1>7. RegisteredInv' /\ RemovedIsForgotten' /\ clientUpdates' \in [Clients -> SUBSET Nat]
    <2>1. \A v, c : Pending(send, v, c) =>
             Pending(send', v, c) \/ (v = send[i].update /\ send[i].previous # c)
      BY <1>4, <1>5 DEF Pending
    <2> QED BY <1>1, <1>6, <2>1, EndRegistered
  <1>8. PathInv' /\ RaceInv' /\ KeepsPaths
    <2>1. updates' \in Seq(UpdateType)
      BY <1>1 DEF IInv, MultiTypeOK, PathType
    <2> QED BY <1>1, <2>1, RaceStays
  <1>9. SendInv'
    BY <1>3, <1>5, <1>8 DEF IInv, SendInv, KeepsPaths
  <1>10. ReceiveInv' /\ CompleteInv'
    BY <1>1, ReceiveStays, CompleteStays
  <1>11. HeardInv' /\ GivenType'
    BY <1>1, HeardStays
  <1>12. MultiTypeOK'
    BY <1>1, <1>5, <1>7, <1>11 DEF IInv, MultiTypeOK, PathType, ClientType
  <1> QED BY <1>7, <1>8, <1>9, <1>10, <1>11, <1>12 DEF IInv

LEMMA ReceiveEndStep ==
    ASSUME IInv, NEW k \in Clients, ReceiveEnd(k)
    PROVE  IInv'
  <1>1. /\ receive[k].pc = "end" /\ clientUpdates' = Registered(receive[k])
        /\ UNCHANGED <<pathUpdates, updates, races, phase, send, complete, sentTo, givenVars,
                       unraced, returned>>
    BY DEF ReceiveEnd, pathVars, userVars
  <1>2. PICK x : x = Call(AnyPath)
    OBVIOUS
  <1>3. x \in ReceiveType /\ x.pc = "start" /\ x.update = 0
    BY <1>2, AnyPathType DEF Call, ReceiveType, ClientOrNone
  <1>4. receive' = [receive EXCEPT ![k] = x] /\ receive \in [Clients -> ReceiveType]
    BY <1>2 DEF ReceiveEnd, IInv, MultiTypeOK, ClientType
  <1>5. /\ receive' \in [Clients -> ReceiveType] /\ receive'[k] = x
        /\ \A d \in Clients : d # k => receive'[d] = receive[d]
    BY <1>3, <1>4
  <1>6. receive[k].update \in DOMAIN updates
    <2>1. receive[k].path \in Paths
      BY <1>4 DEF ReceiveType
    <2> QED BY <1>1, <2>1 DEF IInv, ReceiveInv, PathInv
  <1>7. RegisteredInv' /\ RemovedIsForgotten' /\ clientUpdates' \in [Clients -> SUBSET Nat]
    <2>1. \A v, c : Pending(receive, v, c) =>
             Pending(receive', v, c) \/ (v = receive[k].update /\ receive[k].previous # c)
      BY <1>4, <1>5 DEF Pending
    <2> QED BY <1>1, <1>6, <2>1, EndRegistered
  <1>8. PathInv' /\ RaceInv' /\ KeepsPaths
    <2>1. updates' \in Seq(UpdateType)
      BY <1>1 DEF IInv, MultiTypeOK, PathType
    <2> QED BY <1>1, <2>1, RaceStays
  <1>9. SendInv' /\ CompleteInv'
    BY <1>1, <1>8, SendStays, CompleteStays
  <1>10. ReceiveInv'
    BY <1>1, <1>3, <1>5 DEF IInv, ReceiveInv
  <1>11. HeardInv' /\ GivenType'
    BY <1>1, HeardStays
  <1>12. MultiTypeOK'
    BY <1>1, <1>5, <1>7, <1>11 DEF IInv, MultiTypeOK, PathType, ClientType
  <1> QED BY <1>7, <1>8, <1>9, <1>10, <1>11, <1>12 DEF IInv

-----------------------------------------------------------------------------
(* Steps on a race and on the goroutine that completes it.                 *)

\* What IInv says of an update with a race.
LEMMA RaceFacts ==
    ASSUME IInv, NEW u \in DOMAIN updates, RaceOf(u) # 0
    PROVE  /\ RaceOf(u) \in DOMAIN races /\ RaceOf(u) \in DOMAIN complete
           /\ races[RaceOf(u)] \in RaceType /\ races[RaceOf(u)].update = u
           /\ complete[RaceOf(u)].path = updates[u].path
  <1>1. RaceOf(u) \in DOMAIN races /\ races[RaceOf(u)].update = u
    BY DEF IInv, RaceInv
  <1>2. DOMAIN complete = DOMAIN races /\ races[RaceOf(u)] \in RaceType
    BY <1>1 DEF IInv, MultiTypeOK, PathType
  <1>3. complete[RaceOf(u)].path = updates[u].path
    BY <1>1 DEF IInv, RaceInv
  <1> QED BY <1>1, <1>2, <1>3

\* Update u gives up its race, which is closed: they become z and y.
LEMMA RaceEnds ==
    ASSUME IInv, NEW u \in DOMAIN updates, RaceOf(u) # 0,
           NEW y \in RaceType, y.update = u, ~y.open,
           races' = [races EXCEPT ![RaceOf(u)] = y],
           NEW z \in UpdateType, z.path = updates[u].path, z.done = updates[u].done, z.race = 0,
           updates' = [updates EXCEPT ![u] = z], UNCHANGED pathUpdates,
           DOMAIN complete' = DOMAIN complete,
           \A r \in DOMAIN complete :
              /\ complete'[r].path = complete[r].path
              /\ r # RaceOf(u) => complete'[r].pc = complete[r].pc
    PROVE  /\ PathInv' /\ KeepsPaths /\ RaceInv'
           /\ updates' \in Seq(UpdateType) /\ DOMAIN updates' = DOMAIN updates
           /\ updates'[u] = z /\ \A v \in DOMAIN updates : v # u => updates'[v] = updates[v]
           /\ races' \in Seq(RaceType) /\ Len(races') = Len(races)
  <1>0. PICK k : k = RaceOf(u)
    OBVIOUS
  <1>1. k \in DOMAIN races /\ k \in DOMAIN complete /\ races[k].update = u
        /\ DOMAIN complete = DOMAIN races
    BY <1>0, RaceFacts DEF IInv, MultiTypeOK, PathType
  <1>2. updates \in Seq(UpdateType) /\ races \in Seq(RaceType)
    BY DEF IInv, MultiTypeOK, PathType
  <1>3. /\ updates' \in Seq(UpdateType) /\ DOMAIN updates' = DOMAIN updates
        /\ updates'[u] = z /\ \A v \in DOMAIN updates : v # u => updates'[v] = updates[v]
    BY <1>2, Replaced
  <1>4. /\ races' \in Seq(RaceType) /\ Len(races') = Len(races) /\ DOMAIN races' = DOMAIN races
        /\ races'[k] = y /\ \A r \in DOMAIN races : r # k => races'[r] = races[r]
    <2>1. races' = [races EXCEPT ![k] = y]
      BY <1>0
    <2>2. k \in DOMAIN races /\ races \in Seq(RaceType) /\ y \in RaceType
      BY <1>1, <1>2
    <2> QED BY ONLY <2>1, <2>2, Replaced
  <1>5. KeepsPaths /\ PathInv'
    BY <1>3 DEF IInv, PathInv, KeepsPaths
  <1>6. RaceInv'
    <2>1. \A r \in DOMAIN races' :
             /\ races'[r].update \in DOMAIN updates'
             /\ complete'[r].path = updates'[races'[r].update].path
             /\ races'[r].open => updates'[races'[r].update].race = r
      <3>1. TAKE r \in DOMAIN races'
      <3>2. races'[r].update = races[r].update /\ races[r].update \in DOMAIN updates
            /\ complete[r].path = updates[races[r].update].path
            /\ (races[r].open => updates[races[r].update].race = r)
        BY <1>1, <1>4 DEF IInv, RaceInv, RaceOf
      <3>3. races'[r].open => races[r].open /\ r # k
        BY <1>4
      <3>4. races[r].open /\ r # k => races[r].update # u
        BY <1>0, <3>2 DEF RaceOf
      <3> QED BY <1>1, <1>3, <1>4, <3>2, <3>3, <3>4
    <2>2. \A v \in DOMAIN updates' : updates'[v].race # 0 =>
             /\ updates'[v].race \in DOMAIN races' /\ races'[updates'[v].race].update = v
             /\ ~updates'[v].done => races'[updates'[v].race].open
      <3>1. SUFFICES ASSUME NEW v \in DOMAIN updates, v # u, updates[v].race # 0
                     PROVE  /\ updates[v].race \in DOMAIN races'
                            /\ races'[updates[v].race].update = v
                            /\ ~updates[v].done => races'[updates[v].race].open
        BY <1>3
      <3>2. /\ updates[v].race \in DOMAIN races /\ races[updates[v].race].update = v
            /\ ~updates[v].done => races[updates[v].race].open
        BY <3>1 DEF IInv, RaceInv, RaceOf
      <3>3. updates[v].race # k
        BY <1>1, <3>1, <3>2
      <3> QED BY <1>4, <3>2, <3>3
    <2>3. \A q \in Paths : pathUpdates'[q] # 0 /\ updates'[pathUpdates'[q]].race # 0 =>
             complete'[updates'[pathUpdates'[q]].race].pc \in {"wait", "callback"}
      <3>1. SUFFICES ASSUME NEW q \in Paths, NEW v, v = pathUpdates[q], v # 0,
                            updates'[v].race # 0
                     PROVE  complete'[updates'[v].race].pc \in {"wait", "callback"}
        OBVIOUS
      <3>2. v \in DOMAIN updates
        BY <3>1 DEF IInv, PathInv
      <3>3. v # u /\ updates'[v] = updates[v]
        BY <1>3, <3>1, <3>2
      <3>4. /\ updates[v].race \in DOMAIN races /\ races[updates[v].race].update = v
            /\ complete[updates[v].race].pc \in {"wait", "callback"}
        BY <3>1, <3>2, <3>3 DEF IInv, RaceInv, RaceOf
      <3>5. updates[v].race # k
        BY <1>1, <3>3, <3>4
      <3> QED BY <1>0, <1>1, <3>3, <3>4, <3>5
    <2> QED BY <2>1, <2>2, <2>3 DEF RaceInv, RaceOf
  <1> QED BY <1>3, <1>4, <1>5, <1>6

\* A race that stays is changed to y, and its goroutine goes on.
LEMMA RaceGoes ==
    ASSUME IInv, NEW k \in DOMAIN races, NEW y \in RaceType,
           y.update = races[k].update, y.open = races[k].open,
           races' = [races EXCEPT ![k] = y], UNCHANGED <<pathUpdates, updates, complete>>
    PROVE  /\ PathInv' /\ KeepsPaths /\ RaceInv'
           /\ races' \in Seq(RaceType) /\ Len(races') = Len(races)
  <1>1. races \in Seq(RaceType) /\ DOMAIN complete = DOMAIN races
    BY DEF IInv, MultiTypeOK, PathType
  <1>2. /\ races' \in Seq(RaceType) /\ Len(races') = Len(races) /\ DOMAIN races' = DOMAIN races
        /\ races'[k] = y /\ \A r \in DOMAIN races : r # k => races'[r] = races[r]
    BY <1>1, Replaced
  <1>3. \A r \in DOMAIN races : races'[r].update = races[r].update
                                /\ races'[r].open = races[r].open
    BY <1>2
  <1>4. KeepsPaths /\ PathInv'
    BY DEF IInv, PathInv, KeepsPaths
  <1>5. RaceInv'
    BY <1>2, <1>3 DEF IInv, RaceInv, RaceOf
  <1> QED BY <1>2, <1>4, <1>5

\* The goroutine k goes on as x; it leaves a race of an update in use only by
\* giving it up.
LEMMA CompleteMoves ==
    ASSUME IInv, NEW k \in DOMAIN complete, NEW x \in CompleteType,
           x.path = complete[k].path, complete' = [complete EXCEPT ![k] = x],
           UNCHANGED <<pathUpdates, updates, races>>,
           \/ x.pc \in {"wait", "callback"}
           \/ \A p \in Paths : pathUpdates[p] # 0 => RaceOf(pathUpdates[p]) # k
    PROVE  /\ PathInv' /\ KeepsPaths /\ RaceInv'
           /\ complete' \in Seq(CompleteType) /\ Len(complete') = Len(complete)
           /\ DOMAIN complete' = DOMAIN complete
           /\ complete'[k] = x
           /\ \A r \in DOMAIN complete : r # k => complete'[r] = complete[r]
  <1>1. complete \in Seq(CompleteType) /\ DOMAIN complete = DOMAIN races
    BY DEF IInv, MultiTypeOK, PathType
  <1>2. /\ complete' \in Seq(CompleteType) /\ Len(complete') = Len(complete)
        /\ DOMAIN complete' = DOMAIN complete
        /\ complete'[k] = x /\ \A r \in DOMAIN complete : r # k => complete'[r] = complete[r]
    BY <1>1, Replaced
  <1>3. KeepsPaths /\ PathInv'
    BY DEF IInv, PathInv, KeepsPaths
  <1>4. RaceInv'
    <2>1. \A r \in DOMAIN races : complete'[r].path = complete[r].path
      BY <1>1, <1>2
    <2>2. \A p \in Paths : pathUpdates[p] # 0 /\ RaceOf(pathUpdates[p]) # 0 =>
             complete'[RaceOf(pathUpdates[p])].pc \in {"wait", "callback"}
      <3>1. SUFFICES ASSUME NEW p \in Paths, pathUpdates[p] # 0, RaceOf(pathUpdates[p]) # 0
                     PROVE  complete'[RaceOf(pathUpdates[p])].pc
                               \in {"wait", "callback"}
        OBVIOUS
      <3>2. pathUpdates[p] \in DOMAIN updates
        BY <3>1 DEF IInv, PathInv
      <3>3. /\ RaceOf(pathUpdates[p]) \in DOMAIN complete
            /\ complete[RaceOf(pathUpdates[p])].pc \in {"wait", "callback"}
        BY <1>1, <3>1, <3>2 DEF IInv, RaceInv
      <3> QED BY <1>2, <3>1, <3>3
    <2> QED BY <2>1, <2>2 DEF IInv, RaceInv, RaceOf
  <1> QED BY <1>2, <1>3, <1>4

LEMMA CompleteFiresStep ==
    ASSUME IInv, NEW k \in DOMAIN complete, CompleteStops(k)
    PROVE  IInv'
  <1>1. /\ complete[k].pc = "wait" /\ ~races[k].open
        /\ UNCHANGED <<pathUpdates, updates, races, clientUpdates, phase, send, receive,
                       sentTo, givenVars, unraced, returned>>
    BY DEF CompleteStops, pathVars, clientVars, userVars
  <1>2. complete[k] \in CompleteType /\ DOMAIN complete = DOMAIN races
    BY DEF IInv, MultiTypeOK, PathType
  <1>4. PICK x : x = [complete[k] EXCEPT !.pc = "done"]
    OBVIOUS
  <1>5. /\ x \in CompleteType /\ x.pc = "done" /\ x.path = complete[k].path
        /\ x.update = complete[k].update /\ x.previous = complete[k].previous
        /\ complete' = [complete EXCEPT ![k] = x]
    BY <1>2, <1>4 DEF CompleteType, CompleteStops
  <1>6. \A p \in Paths : pathUpdates[p] # 0 => RaceOf(pathUpdates[p]) # k
    <2>1. SUFFICES ASSUME NEW p \in Paths, pathUpdates[p] # 0, RaceOf(pathUpdates[p]) = k
                   PROVE  FALSE
      OBVIOUS
    <2>2. pathUpdates[p] \in DOMAIN updates /\ ~updates[pathUpdates[p]].done
      BY <2>1 DEF IInv, PathInv
    <2>3. k # 0
      BY DEF IInv, MultiTypeOK, PathType
    <2>4. races[k].open
      BY <2>1, <2>2, <2>3 DEF IInv, RaceInv
    <2> QED BY <1>1, <2>4
  <1>7. /\ PathInv' /\ KeepsPaths /\ RaceInv'
        /\ complete' \in Seq(CompleteType) /\ Len(complete') = Len(complete)
        /\ DOMAIN complete' = DOMAIN complete
        /\ complete'[k] = x
        /\ \A r \in DOMAIN complete : r # k => complete'[r] = complete[r]
    BY <1>1, <1>5, <1>6, CompleteMoves
  <1>8. SendInv' /\ ReceiveInv'
    BY <1>1, <1>7, SendStays, ReceiveStays
  <1>9. CompleteInv'
    BY <1>1, <1>5, <1>7 DEF IInv, CompleteInv
  <1>10. RegisteredInv'
    <2>1. SameWork(complete, complete')
      BY <1>5, <1>7 DEF SameWork
    <2>2. RegisteredInv
      BY DEF IInv
    <2> QED BY <1>1, <2>1, <2>2, SameWorkSame, RegisteredKept DEF clientVars
  <1>11. HeardInv' /\ GivenType'
    BY <1>1, HeardStays
  <1>12. MultiTypeOK' /\ RemovedIsForgotten'
    BY <1>1, <1>7, <1>11 DEF IInv, MultiTypeOK, PathType, ClientType, RemovedIsForgotten
  <1> QED BY <1>7, <1>8, <1>9, <1>10, <1>11, <1>12 DEF IInv

LEMMA CompleteEndStep ==
    ASSUME IInv, NEW k \in DOMAIN complete, CompleteEnd(k)
    PROVE  IInv'
  <1>1. /\ complete[k].pc = "end" /\ clientUpdates' = Registered(complete[k])
        /\ UNCHANGED <<pathUpdates, updates, races, phase, send, receive, sentTo, givenVars,
                       unraced, returned>>
    BY DEF CompleteEnd, pathVars, userVars
  <1>2. complete[k] \in CompleteType /\ complete[k].path \in Paths
    <2>1. complete[k] \in CompleteType
      BY DEF IInv, MultiTypeOK, PathType
    <2> QED BY <2>1 DEF CompleteType
  <1>3. PICK x : x = [Call(complete[k].path) EXCEPT !.pc = "done"]
    OBVIOUS
  <1>4. x \in CompleteType /\ x.pc = "done" /\ x.update = 0 /\ x.path = complete[k].path
    BY <1>2, <1>3 DEF Call, CompleteType, ClientOrNone
  <1>5. complete' = [complete EXCEPT ![k] = x]
    BY <1>3 DEF CompleteEnd
  <1>6. \A p \in Paths : pathUpdates[p] # 0 => RaceOf(pathUpdates[p]) # k
    <2>1. k # 0
      BY DEF IInv, MultiTypeOK, PathType
    <2> QED BY <1>1, <2>1 DEF IInv, RaceInv
  <1>7. /\ PathInv' /\ KeepsPaths /\ RaceInv'
        /\ complete' \in Seq(CompleteType) /\ Len(complete') = Len(complete)
        /\ DOMAIN complete' = DOMAIN complete
        /\ complete'[k] = x
        /\ \A r \in DOMAIN complete : r # k => complete'[r] = complete[r]
    BY <1>1, <1>4, <1>5, <1>6, CompleteMoves
  <1>8. SendInv' /\ ReceiveInv'
    BY <1>1, <1>7, SendStays, ReceiveStays
  <1>9. CompleteInv'
    BY <1>1, <1>4, <1>7 DEF IInv, CompleteInv
  <1>10. complete[k].update \in DOMAIN updates
    BY <1>1, <1>2 DEF IInv, CompleteInv, PathInv
  <1>11. RegisteredInv' /\ RemovedIsForgotten' /\ clientUpdates' \in [Clients -> SUBSET Nat]
    <2>1. \A v, c : Pending(complete, v, c) =>
             Pending(complete', v, c) \/ (v = complete[k].update /\ complete[k].previous # c)
      BY <1>7 DEF Pending
    <2> QED BY <1>1, <1>10, <2>1, EndRegistered
  <1>12. HeardInv' /\ GivenType'
    BY <1>1, HeardStays
  <1>13. MultiTypeOK'
    BY <1>1, <1>7, <1>11, <1>12 DEF IInv, MultiTypeOK, PathType, ClientType
  <1> QED BY <1>7, <1>8, <1>9, <1>11, <1>12, <1>13 DEF IInv

LEMMA CompleteStep ==
    ASSUME IInv, NEW k \in DOMAIN complete, Complete(k)
    PROVE  IInv'
  <1> DEFINE u == complete[k].update
             p == complete[k].path
  <1>1. /\ complete[k].pc = "callback"
        /\ UNCHANGED <<pathUpdates, clientUpdates, phase, send, receive, sentTo, overtaken,
                       resets, heard, mixed, unraced>>
    BY DEF Complete, clientVars
  <1>2. complete[k] \in CompleteType /\ p \in Paths /\ k # 0 /\ DOMAIN complete = DOMAIN races
    <2>1. complete[k] \in CompleteType /\ k # 0 /\ DOMAIN complete = DOMAIN races
      BY DEF IInv, MultiTypeOK, PathType
    <2> QED BY <2>1 DEF CompleteType
  <1>3. pathUpdates[p] = u /\ u # 0
    BY <1>1 DEF IInv, CompleteInv
  <1>4. u \in DOMAIN updates /\ updates[u].path = p /\ updates[u] \in UpdateType
    <2>1. u \in DOMAIN updates /\ updates[u].path = p
      BY <1>2, <1>3 DEF IInv, PathInv
    <2> QED BY <2>1 DEF IInv, MultiTypeOK, PathType
  <1>5. PICK x : x = [complete[k] EXCEPT !.pc = "end"]
    OBVIOUS
  <1>6. /\ x \in CompleteType /\ x.pc = "end" /\ x.path = p
        /\ x.update = complete[k].update /\ x.previous = complete[k].previous
        /\ complete' = [complete EXCEPT ![k] = x]
    BY <1>2, <1>5 DEF CompleteType, Complete
  <1>7. /\ complete' \in Seq(CompleteType) /\ Len(complete') = Len(complete)
        /\ DOMAIN complete' = DOMAIN complete
        /\ complete'[k] = x
        /\ \A r \in DOMAIN complete : r # k => complete'[r] = complete[r]
    <2>1. complete \in Seq(CompleteType)
      BY DEF IInv, MultiTypeOK, PathType
    <2> QED BY <1>6, <2>1, Replaced
  <1>8. CompleteInv' /\ SameWork(complete, complete')
    BY <1>1, <1>3, <1>6, <1>7 DEF IInv, CompleteInv, SameWork
  <1>9. RemovedIsForgotten' /\ ReceiveInv'
    BY <1>1, ReceiveStays DEF IInv, RemovedIsForgotten
  <1>10. RegisteredInv /\ SameWork(send, send') /\ SameWork(receive, receive')
    BY <1>1, SameWorkSame DEF IInv
  <1>11. CASE ~IsRaceOf(u, k)
    <2>1. UNCHANGED <<updates, races, givenVars, returned>>
      BY <1>1, <1>11 DEF Complete, givenVars
    <2>2. \A q \in Paths : pathUpdates[q] # 0 => RaceOf(pathUpdates[q]) # k
      <3>1. SUFFICES ASSUME NEW q \in Paths, pathUpdates[q] # 0, RaceOf(pathUpdates[q]) = k
                     PROVE  FALSE
        OBVIOUS
      <3>2. PICK v : v = pathUpdates[q]
        OBVIOUS
      <3>3. v \in DOMAIN updates /\ updates[v].path = q /\ RaceOf(v) = k
        BY <3>1, <3>2 DEF IInv, PathInv
      <3>4. complete[k].path = q
        BY <1>2, <3>3, RaceFacts
      <3>5. v = u
        BY <1>3, <3>2, <3>4
      <3> QED BY <1>11, <3>3, <3>5 DEF IsRaceOf
    <2>3. PathInv' /\ KeepsPaths /\ RaceInv'
      BY <1>1, <1>6, <2>1, <2>2, CompleteMoves
    <2>4. SendInv'
      BY <1>1, <2>3, SendStays
    <2>5. HeardInv' /\ GivenType'
      BY <1>1, <2>1, HeardStays
    <2>6. MultiTypeOK'
      BY <1>1, <1>7, <2>1, <2>5 DEF IInv, MultiTypeOK, PathType, ClientType
    <2>7. RegisteredInv'
      BY <1>1, <1>8, <1>10, <2>1, RegisteredKept DEF clientVars
    <2> QED BY <1>8, <1>9, <2>3, <2>4, <2>5, <2>6, <2>7 DEF IInv
  <1>12. CASE IsRaceOf(u, k)
    <2>1. RaceOf(u) = k /\ RaceOf(u) # 0
      BY <1>2, <1>12 DEF IsRaceOf
    <2>2. k \in DOMAIN races /\ races[k] \in RaceType /\ races[k].update = u
      BY <1>4, <2>1, RaceFacts
    <2>3. PICK y : y = [races[k] EXCEPT !.open = FALSE]
      OBVIOUS
    <2>4. y \in RaceType /\ y.update = u /\ ~y.open
      BY <2>2, <2>3 DEF RaceType
    <2>5. races' = [races EXCEPT ![k] = y]
      BY <1>2, <1>12, <2>3 DEF Complete, ClearRace
    <2>6. PICK c \in ClientOrNone :
             /\ updates' = [updates EXCEPT ![u].race = 0, ![u].client = c]
             /\ \/ /\ updates[u].client = NoClient /\ c \in Clients /\ races[k].packets[c] > 0
                   /\ LetThrough(k, c, p, races[k].packets[c]) /\ Return(complete[k], c)
                \/ c = updates[u].client /\ UNCHANGED <<givenVars, returned>>
      <3>1. updates[u].client \in ClientOrNone
        BY <1>4 DEF UpdateType
      <3> QED BY <1>1, <1>12, <3>1 DEF Complete, Cleared, ClientOrNone, givenVars
    <2>7. PICK z : z = [updates[u] EXCEPT !.race = 0, !.client = c]
      OBVIOUS
    <2>8. /\ z \in UpdateType /\ z.path = updates[u].path /\ z.done = updates[u].done
          /\ z.race = 0 /\ z.client = c
      BY <1>4, <2>7 DEF UpdateType
    <2>9. updates' = [updates EXCEPT ![u] = z]
      BY <1>4, <2>6, <2>7
    <2>10. /\ PathInv' /\ KeepsPaths /\ RaceInv'
           /\ updates' \in Seq(UpdateType) /\ DOMAIN updates' = DOMAIN updates
           /\ updates'[u] = z /\ \A v \in DOMAIN updates : v # u => updates'[v] = updates[v]
           /\ races' \in Seq(RaceType) /\ Len(races') = Len(races)
      <3>1. \A r \in DOMAIN complete :
               /\ complete'[r].path = complete[r].path
               /\ r # RaceOf(u) => complete'[r].pc = complete[r].pc
        BY <1>6, <1>7, <2>1
      <3>2. PICK v \in DOMAIN updates : v = u
        BY <1>4
      <3>3. /\ RaceOf(v) # 0 /\ y.update = v /\ races' = [races EXCEPT ![RaceOf(v)] = y]
            /\ z.path = updates[v].path /\ z.done = updates[v].done
            /\ updates' = [updates EXCEPT ![v] = z]
            /\ \A r \in DOMAIN complete : r # RaceOf(v) => complete'[r].pc = complete[r].pc
        BY <2>1, <2>4, <2>5, <2>8, <2>9, <3>1, <3>2
      <3> HIDE DEF u
      <3> QED BY <1>1, <1>7, <2>4, <2>8, <3>1, <3>2, <3>3, RaceEnds
    <2>11. SendInv'
      BY <1>1, <2>10, SendStays
    <2>12. /\ returned' \subseteq Nat /\ returned \subseteq returned'
           /\ \/ c = updates[u].client \/ u \in returned' \/ u \in clientUpdates[c]
              \/ complete[k].previous # c
      <3>1. returned \subseteq Nat /\ u \in Nat
        BY <1>2 DEF IInv, MultiTypeOK, ClientType, CompleteType
      <3> QED BY <1>2, <2>6, <3>1 DEF Return
    <2>13. HeardInv' /\ GivenType'
      <3>1. c = updates[u].client \/ updates[u].client = NoClient
        BY <2>6
      <3>2. \A q \in Paths, d \in Clients : Keeps(q, d)
        BY <1>1, <1>4, <2>8, <2>10, <3>1, MultiAssumption DEF IInv, PathInv, Keeps
      <3>3. CASE UNCHANGED givenVars
        BY <1>1, <3>2, <3>3, HeardKept
      <3>4. CASE /\ c \in Clients /\ races[k].packets[c] > 0
                 /\ LetThrough(k, c, p, races[k].packets[c])
        <4>1. races[k].packets[c] \in Nat \ {0} /\ k \in Nat
          BY <2>2, <3>4 DEF RaceType, IInv, MultiTypeOK, PathType
        <4>2. pathUpdates'[p] # 0 /\ updates'[pathUpdates'[p]].client = c
          BY <1>1, <1>3, <2>8, <2>10
        <4> HIDE DEF p
        <4> QED BY <1>1, <1>2, <3>2, <3>4, <4>1, <4>2, HeardLetThrough
      <3> QED BY <2>6, <3>3, <3>4
    <2>14. RegisteredInv'
      <3>1. complete[k].previous # c => Pending(complete, u, c)
        BY DEF Pending
      <3>2. \A v \in DOMAIN updates' \ returned' :
               /\ v \in DOMAIN updates
               /\ \/ updates'[v].client \in {NoClient, updates[v].client}
                  \/ v \in clientUpdates[updates'[v].client]
                  \/ Pending(send, v, updates'[v].client)
                  \/ Pending(complete, v, updates'[v].client)
        <4>1. TAKE v \in DOMAIN updates' \ returned'
        <4>2. CASE v = u
          BY <1>4, <2>8, <2>10, <2>12, <3>1, <4>2
        <4>3. CASE v # u
          BY <2>10, <4>3
        <4> QED BY <4>2, <4>3
      <3> QED BY <1>1, <1>8, <1>10, <2>12, <3>2, RegisteredKept DEF clientVars
    <2>15. MultiTypeOK'
      BY <1>1, <1>7, <2>10, <2>12, <2>13 DEF IInv, MultiTypeOK, PathType, ClientType
    <2> QED BY <1>8, <1>9, <2>10, <2>11, <2>13, <2>14, <2>15 DEF IInv
  <1> QED BY <1>11, <1>12

-----------------------------------------------------------------------------
(* clientReceivePacket.                                                    *)

LEMMA ReceiveStep ==
    ASSUME IInv, NEW k \in Clients, Receive(k)
    PROVE  IInv'
  <1> DEFINE u == receive[k].update
             p == receive[k].path
             r == RaceOf(u)
  <1>1. /\ receive[k].pc = "callback"
        /\ UNCHANGED <<pathUpdates, clientUpdates, phase, send, complete, sentTo, overtaken,
                       resets, heard, mixed>>
    BY DEF Receive, clientVars
  <1>2. receive \in [Clients -> ReceiveType] /\ receive[k] \in ReceiveType /\ p \in Paths
    BY DEF IInv, MultiTypeOK, ClientType, ReceiveType
  <1>3. pathUpdates[p] = u /\ u # 0
    BY <1>1 DEF IInv, ReceiveInv
  <1>4. u \in DOMAIN updates /\ updates[u].path = p /\ updates[u] \in UpdateType
    <2>1. u \in DOMAIN updates /\ updates[u].path = p
      BY <1>2, <1>3 DEF IInv, PathInv
    <2> QED BY <2>1 DEF IInv, MultiTypeOK, PathType
  <1>5. PICK x : x = [receive[k] EXCEPT !.pc = "end"]
    OBVIOUS
  <1>6. /\ x \in ReceiveType /\ x.pc = "end" /\ x.path = p
        /\ x.update = receive[k].update /\ x.previous = receive[k].previous
        /\ receive' = [receive EXCEPT ![k] = x]
    BY <1>2, <1>5 DEF ReceiveType, Receive
  <1>7. /\ receive' \in [Clients -> ReceiveType] /\ receive'[k] = x
        /\ \A d \in Clients : d # k => receive'[d] = receive[d]
    BY <1>2, <1>6
  <1>8. ReceiveInv' /\ SameWork(receive, receive')
    BY <1>1, <1>2, <1>3, <1>6, <1>7 DEF IInv, ReceiveInv, SameWork
  <1>9. RemovedIsForgotten' /\ CompleteInv'
    BY <1>1, CompleteStays DEF IInv, RemovedIsForgotten
  <1>10. RegisteredInv /\ SameWork(send, send') /\ SameWork(complete, complete')
    BY <1>1, SameWorkSame DEF IInv
  <1>11. ASSUME UNCHANGED <<updates, races, returned>>
         PROVE  PathInv' /\ RaceInv' /\ SendInv' /\ RegisteredInv'
    <2>1. updates' \in Seq(UpdateType)
      BY <1>11 DEF IInv, MultiTypeOK, PathType
    <2>2. PathInv' /\ RaceInv' /\ KeepsPaths
      BY <1>1, <1>11, <2>1, RaceStays
    <2>3. SendInv'
      BY <1>1, <2>2, SendStays
    <2>4. RegisteredInv'
      BY <1>1, <1>8, <1>10, <1>11, RegisteredKept DEF clientVars
    <2> QED BY <2>2, <2>3, <2>4
  <1>12. ASSUME UNCHANGED <<updates, races, toUser, unraced, returned>>
         PROVE  IInv'
    <2>1. HeardInv' /\ GivenType'
      BY <1>1, <1>12, HeardStays DEF givenVars
    <2>2. MultiTypeOK'
      BY <1>1, <1>7, <1>12, <2>1 DEF IInv, MultiTypeOK, PathType, ClientType
    <2> QED BY <1>8, <1>9, <1>11, <1>12, <2>1, <2>2 DEF IInv
  <1>13. CASE Accepts(u, k)
    <2>1. LetThrough(0, k, p, 1) /\ UNCHANGED <<updates, races, unraced, returned>>
      <3>1. ~(updates[u].client = NoClient /\ r # 0)
        BY <1>13, MultiAssumption DEF Accepts
      <3> QED BY <1>13, <3>1 DEF Receive
    <2>2. pathUpdates'[p] # 0 /\ updates'[pathUpdates'[p]].client = k
      BY <1>1, <1>3, <1>13, <2>1 DEF Accepts
    <2>3. \A q \in Paths \ unraced', d \in Clients : Keeps(q, d)
      BY <1>1, <2>1 DEF Keeps
    <2>4. HeardInv' /\ GivenType'
      <3> HIDE DEF p
      <3> QED BY <1>1, <1>2, <2>1, <2>2, <2>3, HeardLetThrough
    <2>5. MultiTypeOK'
      BY <1>1, <1>7, <2>1, <2>4 DEF IInv, MultiTypeOK, PathType, ClientType
    <2> QED BY <1>8, <1>9, <1>11, <2>1, <2>4, <2>5 DEF IInv
  <1>14. CASE ~Accepts(u, k) /\ (updates[u].client # NoClient \/ r = 0)
    <2>1. UNCHANGED <<updates, races, toUser, unraced, returned>>
      BY <1>14 DEF Receive
    <2> QED BY <1>12, <2>1
  <1>15. CASE updates[u].client = NoClient /\ r # 0
    <2>1. ~Accepts(u, k)
      BY <1>15, MultiAssumption DEF Accepts
    <2>2. IF races[r].sent[k] = 0
          THEN UNCHANGED <<updates, races, toUser, unraced, returned>>
          ELSE IF HasRoomFor(races[r], k)
          THEN /\ races' = [races EXCEPT ![r].packets[k] = @ + 1]
               /\ UNCHANGED <<updates, toUser, unraced, returned>>
          ELSE /\ races' = ClearRace(races, r)
               /\ updates' = Cleared(u, NoClient)
               /\ LetThrough(0, k, p, races[r].packets[k] + 1)
               /\ unraced' = unraced \cup {p}
               /\ UNCHANGED returned
      BY <1>15, <2>1 DEF Receive
    <2>3. r \in DOMAIN races /\ races[r] \in RaceType /\ races[r].update = u
      BY <1>4, <1>15, RaceFacts
    <2>4. CASE UNCHANGED <<updates, races, toUser, unraced, returned>>
      BY <1>12, <2>4
    <2>5. CASE /\ races' = [races EXCEPT ![r].packets[k] = @ + 1]
               /\ UNCHANGED <<updates, toUser, unraced, returned>>
      <3>1. PICK n \in Nat : n = races[r].packets[k] + 1
        BY <2>3 DEF RaceType
      <3>2. PICK w : w = [races[r].packets EXCEPT ![k] = n]
        OBVIOUS
      <3>3. PICK y : y = [races[r] EXCEPT !.packets = w]
        OBVIOUS
      <3>4. /\ y \in RaceType /\ y.update = races[r].update /\ y.open = races[r].open
            /\ races' = [races EXCEPT ![r] = y]
        BY <2>3, <2>5, <3>1, <3>2, <3>3 DEF RaceType
      <3>5. PICK j \in DOMAIN races : j = r
        BY <2>3
      <3>6. /\ PathInv' /\ KeepsPaths /\ RaceInv'
            /\ races' \in Seq(RaceType) /\ Len(races') = Len(races)
        <4>1. /\ y.update = races[j].update /\ y.open = races[j].open
              /\ races' = [races EXCEPT ![j] = y]
          BY <3>4, <3>5
        <4> HIDE DEF r
        <4> QED BY <1>1, <2>5, <3>4, <4>1, RaceGoes
      <3>7. UNCHANGED <<updates, givenVars, unraced, returned>>
        BY <1>1, <2>5 DEF givenVars
      <3>8. SendInv'
        BY <1>1, <3>6, SendStays
      <3>9. RegisteredInv'
        BY <1>1, <1>8, <1>10, <3>7, RegisteredKept DEF clientVars
      <3>10. HeardInv' /\ GivenType'
        BY <1>1, <3>7, HeardStays
      <3>11. MultiTypeOK'
        BY <1>1, <1>7, <3>6, <3>7, <3>10 DEF IInv, MultiTypeOK, PathType, ClientType
      <3> QED BY <1>8, <1>9, <3>6, <3>8, <3>9, <3>10, <3>11 DEF IInv
    <2>6. CASE /\ races' = ClearRace(races, r) /\ updates' = Cleared(u, NoClient)
               /\ LetThrough(0, k, p, races[r].packets[k] + 1)
               /\ unraced' = unraced \cup {p} /\ UNCHANGED returned
      <3>1. PICK y : y = [races[r] EXCEPT !.open = FALSE]
        OBVIOUS
      <3>2. y \in RaceType /\ y.update = u /\ ~y.open
        BY <2>3, <3>1 DEF RaceType
      <3>3. races' = [races EXCEPT ![r] = y]
        BY <1>15, <2>6, <3>1 DEF ClearRace
      <3>4. PICK z : z = [updates[u] EXCEPT !.race = 0, !.client = NoClient]
        OBVIOUS
      <3>5. /\ z \in UpdateType /\ z.path = updates[u].path /\ z.done = updates[u].done
            /\ z.race = 0 /\ z.client = NoClient
        BY <1>4, <3>4 DEF UpdateType, ClientOrNone
      <3>6. updates' = [updates EXCEPT ![u] = z]
        BY <1>4, <2>6, <3>4 DEF Cleared
      <3>7. /\ PathInv' /\ KeepsPaths /\ RaceInv'
            /\ updates' \in Seq(UpdateType) /\ DOMAIN updates' = DOMAIN updates
            /\ updates'[u] = z /\ \A v \in DOMAIN updates : v # u => updates'[v] = updates[v]
            /\ races' \in Seq(RaceType) /\ Len(races') = Len(races)
        <4>1. PICK v \in DOMAIN updates : v = u
          BY <1>4
        <4>2. /\ RaceOf(v) # 0 /\ y.update = v /\ races' = [races EXCEPT ![RaceOf(v)] = y]
              /\ z.path = updates[v].path /\ z.done = updates[v].done
              /\ updates' = [updates EXCEPT ![v] = z]
          BY <1>15, <3>2, <3>3, <3>5, <3>6, <4>1
        <4> HIDE DEF u
        <4> QED BY <1>1, <3>2, <3>5, <4>1, <4>2, RaceEnds
      <3>8. SendInv'
        BY <1>1, <3>7, SendStays
      <3>9. \A v \in DOMAIN updates' : v \in DOMAIN updates
                /\ updates'[v].client \in {NoClient, updates[v].client}
        BY <3>5, <3>7
      <3>10. RegisteredInv'
        BY <1>1, <1>8, <1>10, <2>6, <3>9, RegisteredKept DEF clientVars
      <3>11. unraced' \subseteq Paths /\ unraced \subseteq unraced' /\ p \in unraced'
        BY <1>2, <2>6 DEF IInv, MultiTypeOK, ClientType
      <3>12. HeardInv' /\ GivenType'
        <4>1. \A q \in Paths \ unraced', d \in Clients : Keeps(q, d)
          BY <1>1, <1>4, <2>6, <3>7 DEF IInv, PathInv, Keeps
        <4>2. PICK n \in Nat \ {0} : n = races[r].packets[k] + 1
          BY <2>3 DEF RaceType
        <4>3. LetThrough(0, k, p, n)
          BY <2>6, <4>2
        <4> HIDE DEF p
        <4> QED BY <1>1, <1>2, <3>11, <4>1, <4>3, HeardLetThrough
      <3>13. MultiTypeOK'
        BY <1>1, <1>7, <2>6, <3>7, <3>11, <3>12 DEF IInv, MultiTypeOK, PathType, ClientType
      <3> QED BY <1>8, <1>9, <3>7, <3>8, <3>10, <3>12, <3>13 DEF IInv
    <2> QED BY <2>2, <2>4, <2>5, <2>6
  <1> QED BY <1>13, <1>14, <1>15

-----------------------------------------------------------------------------
(* SendPacket: a client is entered in the race.                            *)

\* A new race r of update u, with its goroutine.
LEMMA RaceStarts ==
    ASSUME IInv, NEW u \in DOMAIN updates, RaceOf(u) = 0,
           NEW y \in RaceType, y.update = u, ~updates[u].done => y.open,
           races' = Append(races, y),
           NEW z \in UpdateType, z.path = updates[u].path, z.done = updates[u].done,
           z.race = Len(races) + 1, updates' = [updates EXCEPT ![u] = z],
           NEW g \in CompleteType, g.path = updates[u].path, g.pc = "wait",
           complete' = Append(complete, g), UNCHANGED pathUpdates
    PROVE  /\ PathInv' /\ KeepsPaths /\ RaceInv'
           /\ updates' \in Seq(UpdateType) /\ DOMAIN updates' = DOMAIN updates
           /\ updates'[u] = z /\ \A v \in DOMAIN updates : v # u => updates'[v] = updates[v]
           /\ races' \in Seq(RaceType) /\ complete' \in Seq(CompleteType)
           /\ Len(complete') = Len(races')
  <1>1. /\ updates \in Seq(UpdateType) /\ races \in Seq(RaceType)
        /\ complete \in Seq(CompleteType) /\ Len(complete) = Len(races)
    BY DEF IInv, MultiTypeOK, PathType
  <1>2. PICK k : k = Len(races) + 1
    OBVIOUS
  <1>3. /\ updates' \in Seq(UpdateType) /\ DOMAIN updates' = DOMAIN updates
        /\ updates'[u] = z /\ \A v \in DOMAIN updates : v # u => updates'[v] = updates[v]
    BY <1>1, Replaced
  <1>4. /\ races' \in Seq(RaceType) /\ Len(races') = k /\ k \notin DOMAIN races
        /\ DOMAIN races' = DOMAIN races \cup {k} /\ races'[k] = y /\ k \in Nat /\ k # 0
        /\ \A r \in DOMAIN races : races'[r] = races[r]
    <2>1. /\ races' \in Seq(RaceType) /\ Len(races') = Len(races) + 1 /\ Len(races) \in Nat
          /\ DOMAIN races = 1 .. Len(races) /\ DOMAIN races' = 1 .. Len(races) + 1
          /\ \A r \in DOMAIN races : races'[r] = races[r]
          /\ races'[Len(races) + 1] = y
      BY <1>1, Added
    <2> QED BY <1>2, <2>1
  <1>5. /\ complete' \in Seq(CompleteType) /\ Len(complete') = k /\ complete'[k] = g
        /\ DOMAIN complete = DOMAIN races
        /\ \A r \in DOMAIN complete : complete'[r] = complete[r]
    <2>1. /\ complete' \in Seq(CompleteType) /\ Len(complete') = Len(complete) + 1
          /\ \A r \in DOMAIN complete : complete'[r] = complete[r]
          /\ complete'[Len(complete) + 1] = g
      BY <1>1, Added
    <2>2. DOMAIN complete = DOMAIN races
      BY <1>1
    <2> QED BY <1>1, <1>2, <2>1, <2>2
  <1>6. KeepsPaths /\ PathInv'
    BY <1>3 DEF IInv, PathInv, KeepsPaths
  <1>7. RaceInv'
    <2>1. \A r \in DOMAIN races' :
             /\ races'[r].update \in DOMAIN updates'
             /\ complete'[r].path = updates'[races'[r].update].path
             /\ races'[r].open => updates'[races'[r].update].race = r
      <3>1. TAKE r \in DOMAIN races'
      <3>2. CASE r = k
        BY <1>2, <1>3, <1>4, <1>5, <3>2
      <3>3. CASE r # k
        <4>1. r \in DOMAIN races /\ races'[r] = races[r] /\ complete'[r] = complete[r]
          BY <1>4, <1>5, <3>3
        <4>2. /\ races[r].update \in DOMAIN updates
              /\ complete[r].path = updates[races[r].update].path
              /\ races[r].open => updates[races[r].update].race = r
          BY <4>1 DEF IInv, RaceInv, RaceOf
        <4>3. r # 0
          BY <1>1, <4>1
        <4>4. races[r].open => races[r].update # u
          BY <4>2, <4>3 DEF RaceOf
        <4> QED BY <1>3, <4>1, <4>2, <4>4
      <3> QED BY <3>2, <3>3
    <2>2. \A v \in DOMAIN updates' : updates'[v].race # 0 =>
             /\ updates'[v].race \in DOMAIN races' /\ races'[updates'[v].race].update = v
             /\ ~updates'[v].done => races'[updates'[v].race].open
      <3>1. TAKE v \in DOMAIN updates'
      <3>2. CASE v = u
        BY <1>2, <1>3, <1>4, <3>2
      <3>3. CASE v # u
        <4>1. updates[v].race # 0 =>
                 /\ updates[v].race \in DOMAIN races /\ races[updates[v].race].update = v
                 /\ ~updates[v].done => races[updates[v].race].open
          BY <1>3 DEF IInv, RaceInv, RaceOf
        <4> QED BY <1>3, <1>4, <3>3, <4>1
      <3> QED BY <3>2, <3>3
    <2>3. \A q \in Paths : pathUpdates'[q] # 0 /\ updates'[pathUpdates'[q]].race # 0 =>
             complete'[updates'[pathUpdates'[q]].race].pc \in {"wait", "callback"}
      <3>1. SUFFICES ASSUME NEW q \in Paths, NEW v, v = pathUpdates[q], v # 0,
                            updates'[v].race # 0
                     PROVE  complete'[updates'[v].race].pc \in {"wait", "callback"}
        OBVIOUS
      <3>2. v \in DOMAIN updates
        BY <3>1 DEF IInv, PathInv
      <3>3. CASE v = u
        BY <1>2, <1>3, <1>5, <3>3
      <3>4. CASE v # u
        <4>1. updates'[v] = updates[v]
          BY <1>3, <3>2, <3>4
        <4>2. /\ updates[v].race \in DOMAIN races
              /\ complete[updates[v].race].pc \in {"wait", "callback"}
          BY <3>1, <3>2, <4>1 DEF IInv, RaceInv, RaceOf
        <4> QED BY <1>5, <4>1, <4>2
      <3> QED BY <3>3, <3>4
    <2> QED BY <2>1, <2>2, <2>3 DEF RaceInv, RaceOf
  <1> QED BY <1>3, <1>4, <1>5, <1>6, <1>7

\* The last element of a sequence is replaced.
LEMMA AppendReplaced ==
    ASSUME NEW T, NEW s \in Seq(T), NEW a \in T, NEW b \in T
    PROVE  /\ [Append(s, a) EXCEPT ![Len(s) + 1] = b] = Append(s, b)
           /\ Append(s, a)[Len(s) + 1] = a
  <1> DEFINE t == Append(s, a)
             v == [t EXCEPT ![Len(s) + 1] = b]
             w == Append(s, b)
  <1>1. /\ t \in Seq(T) /\ Len(s) \in Nat /\ Len(t) = Len(s) + 1
        /\ DOMAIN t = 1 .. Len(s) + 1 /\ DOMAIN s = 1 .. Len(s)
        /\ t[Len(s) + 1] = a /\ \A p \in DOMAIN s : t[p] = s[p]
    <2> HIDE DEF t
    <2>1. t = Append(s, a)
      BY DEF t
    <2> QED BY <2>1, Added
  <1>2. /\ w \in Seq(T) /\ Len(w) = Len(s) + 1 /\ DOMAIN w = 1 .. Len(s) + 1
        /\ w[Len(s) + 1] = b /\ \A p \in DOMAIN s : w[p] = s[p]
    <2> HIDE DEF w
    <2>1. w = Append(s, b)
      BY DEF w
    <2> QED BY <2>1, Added
  <1> HIDE DEF t
  <1>3. /\ v \in Seq(T) /\ DOMAIN v = 1 .. Len(s) + 1
        /\ v[Len(s) + 1] = b /\ \A p \in DOMAIN t : p # Len(s) + 1 => v[p] = t[p]
    <2> HIDE DEF v
    <2>1. v = [t EXCEPT ![Len(s) + 1] = b]
      BY DEF v
    <2> QED BY <1>1, <2>1, Replaced
  <1> HIDE DEF v, w
  <1>4. \A p \in 1 .. Len(s) + 1 : v[p] = w[p]
    BY <1>1, <1>2, <1>3
  <1>5. v = w
    BY <1>2, <1>3, <1>4
  <1> QED BY <1>1, <1>5 DEF t, v, w

\* What is left to show for a step of the race that may give its update, which
\* has no client, a client.
LEMMA RaceSentKeeps ==
    ASSUME IInv, NEW i \in Senders, NEW x, Moves(i, x), send' = [send EXCEPT ![i] = x],
           NEW u, u = send[i].update, updates[u].client = NoClient,
           PathInv', KeepsPaths, RaceInv', CompleteInv',
           updates' \in Seq(UpdateType), DOMAIN updates' = DOMAIN updates,
           \A v \in DOMAIN updates : v # u => updates'[v] = updates[v],
           races' \in Seq(RaceType), complete' \in Seq(CompleteType),
           Len(complete') = Len(races'), SameWork(complete, complete'),
           UNCHANGED <<pathUpdates, clientUpdates, phase, receive, sentTo, givenVars,
                       unraced>>,
           returned' \subseteq Nat, returned \subseteq returned',
           \/ updates'[u].client = NoClient \/ u \in returned'
           \/ u \in clientUpdates[updates'[u].client]
           \/ send[i].previous # updates'[u].client
    PROVE  IInv'
  <1>1. send' \in [Senders -> SendType] /\ SameWork(send, send') /\ SendInv'
    BY SendMoves
  <1>2. ReceiveInv' /\ RemovedIsForgotten'
    BY ReceiveStays DEF IInv, RemovedIsForgotten
  <1>3. HeardInv' /\ GivenType'
    <2>1. \A q \in Paths \ unraced', c \in Clients : Keeps(q, c)
      BY MultiAssumption DEF IInv, PathInv, Keeps
    <2> QED BY <2>1, HeardKept
  <1>4. MultiTypeOK'
    BY <1>1, <1>3 DEF IInv, MultiTypeOK, PathType, ClientType
  <1>5. RegisteredInv'
    <2>1. RegisteredInv /\ DOMAIN send = Senders /\ SameWork(receive, receive')
      BY SameWorkSame DEF IInv, MultiTypeOK, ClientType
    <2>2. send[i].previous # updates'[u].client => Pending(send, u, updates'[u].client)
      BY <2>1 DEF Pending
    <2>3. \A v \in DOMAIN updates' \ returned' :
             /\ v \in DOMAIN updates
             /\ \/ updates'[v].client \in {NoClient, updates[v].client}
                \/ v \in clientUpdates[updates'[v].client]
                \/ Pending(send, v, updates'[v].client)
                \/ Pending(complete, v, updates'[v].client)
      <3>1. TAKE v \in DOMAIN updates' \ returned'
      <3>2. CASE v = u
        BY <2>2, <3>2
      <3>3. CASE v # u
        BY <3>3
      <3> QED BY <3>2, <3>3
    <2> QED BY <1>1, <2>1, <2>3, RegisteredKept DEF clientVars
  <1> QED BY <1>1, <1>2, <1>3, <1>4, <1>5 DEF IInv

LEMMA RaceSentStep ==
    ASSUME IInv, NEW i \in Senders, NEW c \in Clients, RaceSent(i, c)
    PROVE  IInv'
  <1>1. send[i].pc = "race"
    BY DEF RaceSent
  <1>2. /\ send[i] \in SendType
        /\ UNCHANGED <<pathUpdates, clientUpdates, phase, receive, sentTo, givenVars,
                       unraced>>
    BY <1>1, SendAtWork DEF RaceSent, clientVars
  <1>3. PICK u \in DOMAIN updates :
           u = send[i].update /\ updates[u] \in UpdateType /\ u \in Nat
    BY <1>1, SendAtWork DEF IInv, MultiTypeOK, PathType
  <1>4. PICK x : Moves(i, x) /\ send' = [send EXCEPT ![i] = x]
    <2>1. PICK w \in SUBSET Clients : w = send[i].sent \ {c}
      BY <1>2 DEF SendType
    <2>2. Moves(i, [send[i] EXCEPT !.sent = w])
      BY <1>1, <1>2, MovesTo
    <2>3. send' = [send EXCEPT ![i] = [send[i] EXCEPT !.sent = w]]
      BY <2>1 DEF RaceSent
    <2> QED BY <2>2, <2>3, Zenon
  <1>5. /\ races \in Seq(RaceType) /\ complete \in Seq(CompleteType) /\ returned \subseteq Nat
        /\ updates \in Seq(UpdateType) /\ Len(complete) = Len(races)
        /\ sentTo' \in [Clients -> SUBSET Paths]
    BY <1>2 DEF IInv, MultiTypeOK, PathType, ClientType
  <1>6. CASE updates[u].client # NoClient
    <2>1. UNCHANGED <<updates, races, complete, returned>>
      BY <1>3, <1>6 DEF RaceSent
    <2> QED BY <1>2, <1>4, <1>5, <2>1, SendOnly DEF pathVars, clientVars, userVars
  <1>7. CASE updates[u].client = NoClient /\ RaceOf(u) = 0
    <2>1. PICK n : n = NewRace(u)
      OBVIOUS
    <2>2. /\ n \in RaceType /\ n.update = u /\ n.open = ~updates[u].done
          /\ n.sent = [k \in Clients |-> 0]
      BY <1>3, <2>1 DEF NewRace, RaceType, UpdateType
    <2>3. PICK r \in Nat : r = Len(races) + 1
      BY <1>5
    <2>4. /\ complete' = Append(complete, [Call(updates[u].path) EXCEPT !.pc = "wait"])
          /\ \/ /\ races' = [Append(races, n) EXCEPT ![r].sent[c] = 1]
                /\ updates' = [updates EXCEPT ![u].race = r] /\ UNCHANGED returned
             \/ Append(races, n)[r].sent[c] > 0
      BY <1>3, <1>7, <2>1, <2>3 DEF RaceSent
    <2>5. Append(races, n)[r] = n
      BY <1>5, <2>2, <2>3, AppendReplaced
    <2>6. /\ races' = [Append(races, n) EXCEPT ![r].sent[c] = 1]
          /\ updates' = [updates EXCEPT ![u].race = r] /\ UNCHANGED returned
      BY <2>2, <2>4, <2>5
    <2>7. PICK s : s = [n.sent EXCEPT ![c] = 1]
      OBVIOUS
    <2>8. PICK y : y = [n EXCEPT !.sent = s]
      OBVIOUS
    <2>9. y \in RaceType /\ y.update = u /\ y.open = n.open
      BY <2>2, <2>7, <2>8 DEF RaceType
    <2>10. races' = Append(races, y)
      <3>1. races' = [Append(races, n) EXCEPT ![r] = [n EXCEPT !.sent = [n.sent EXCEPT ![c] = 1]]]
        BY <2>5, <2>6
      <3>2. races' = [Append(races, n) EXCEPT ![Len(races) + 1] = y]
        BY <2>3, <2>7, <2>8, <3>1
      <3> QED BY <1>5, <2>2, <2>9, <3>2, AppendReplaced
    <2>11. ~updates[u].done => y.open
      BY <2>2, <2>9
    <2>12. PICK z : z = [updates[u] EXCEPT !.race = r]
      OBVIOUS
    <2>13. /\ z \in UpdateType /\ z.path = updates[u].path /\ z.done = updates[u].done
           /\ z.race = Len(races) + 1 /\ z.client = NoClient
           /\ updates' = [updates EXCEPT ![u] = z]
      <3>1. updates' = [updates EXCEPT ![u] = z]
        BY <1>3, <2>6, <2>12
      <3> QED BY <1>3, <1>7, <2>3, <2>12, <3>1 DEF UpdateType
    <2>14. PICK g : g = [Call(updates[u].path) EXCEPT !.pc = "wait"]
      OBVIOUS
    <2>15. g \in CompleteType /\ g.path = updates[u].path /\ g.pc = "wait" /\ g.update = 0
      BY <1>3, <2>14 DEF Call, CompleteType, ClientOrNone, UpdateType
    <2>16. /\ PathInv' /\ KeepsPaths /\ RaceInv'
           /\ updates' \in Seq(UpdateType) /\ DOMAIN updates' = DOMAIN updates
           /\ updates'[u] = z /\ \A v \in DOMAIN updates : v # u => updates'[v] = updates[v]
           /\ races' \in Seq(RaceType) /\ complete' \in Seq(CompleteType)
           /\ Len(complete') = Len(races')
      <3>1. complete' = Append(complete, g) /\ pathUpdates' = pathUpdates
        BY <1>2, <2>4, <2>14
      <3> QED BY <1>7, <2>9, <2>10, <2>11, <2>13, <2>15, <3>1, RaceStarts
    <2>17. /\ DOMAIN complete \subseteq DOMAIN complete'
           /\ \A k \in DOMAIN complete : complete'[k] = complete[k]
           /\ \A k \in DOMAIN complete' : k \notin DOMAIN complete => complete'[k] = g
      <3>1. /\ Len(complete) \in Nat /\ DOMAIN complete = 1 .. Len(complete)
            /\ DOMAIN complete' = 1 .. Len(complete) + 1
            /\ \A k \in DOMAIN complete : complete'[k] = complete[k]
            /\ complete'[Len(complete) + 1] = g
        BY <1>5, <2>4, <2>14, <2>15, Added
      <3> QED BY <3>1
    <2>18. CompleteInv' /\ SameWork(complete, complete')
      <3>1. SameWork(complete, complete')
        BY <2>17 DEF SameWork
      <3>2. ASSUME NEW k \in DOMAIN complete'
            PROVE  IF complete'[k].pc \in {"wait", "done"} THEN complete'[k].update = 0
                   ELSE /\ complete'[k].update # 0
                        /\ pathUpdates'[complete'[k].path] = complete'[k].update
        <4>1. CASE k \in DOMAIN complete
          BY <1>2, <2>17, <4>1 DEF IInv, CompleteInv
        <4>2. CASE k \notin DOMAIN complete
          BY <2>15, <2>17, <4>2
        <4> QED BY <4>1, <4>2
      <3> QED BY <3>1, <3>2 DEF CompleteInv
    <2>19. updates'[u].client = NoClient
      BY <2>13, <2>16
    <2> QED BY <1>2, <1>3, <1>4, <1>5, <1>7, <2>6, <2>16, <2>18, <2>19, RaceSentKeeps
  <1>8. CASE updates[u].client = NoClient /\ RaceOf(u) # 0
    <2>1. PICK r \in DOMAIN races :
             r = RaceOf(u) /\ races[r] \in RaceType /\ races[r].update = u /\ r # 0
      BY <1>8, RaceFacts
    <2>2. PICK s : s = [races[r].sent EXCEPT ![c] = 1]
      OBVIOUS
    <2>3. PICK w : w = [races[r] EXCEPT !.sent = s]
      OBVIOUS
    <2>4. w \in RaceType /\ w.update = races[r].update /\ w.open = races[r].open
      BY <2>1, <2>2, <2>3 DEF RaceType
    <2>5. /\ UNCHANGED complete
          /\ \/ /\ races' = [races EXCEPT ![r].sent[c] = 1]
                /\ updates' = [updates EXCEPT ![u].race = r] /\ UNCHANGED returned
             \/ /\ races' = ClearRace([races EXCEPT ![r].sent[c] = 1], r)
                /\ updates' = Cleared(u, c) /\ Return(send[i], c)
      BY <1>3, <1>8, <2>1 DEF RaceSent
    <2>6. [races EXCEPT ![r].sent[c] = 1] = [races EXCEPT ![r] = w]
      BY <2>1, <2>2, <2>3
    <2>7. SameWork(complete, complete') /\ CompleteInv' /\ Len(races) \in Nat
      BY <1>2, <1>5, <2>5, CompleteStays
    <2>8. CASE /\ races' = [races EXCEPT ![r].sent[c] = 1]
               /\ updates' = [updates EXCEPT ![u].race = r] /\ UNCHANGED returned
      <3>1. updates' = updates
        <4>1. [updates[u] EXCEPT !.race = r] = updates[u]
          BY <1>3, <2>1 DEF RaceOf, UpdateType
        <4> QED BY <1>3, <1>5, <2>8, <4>1
      <3>2. /\ PathInv' /\ KeepsPaths /\ RaceInv'
            /\ races' \in Seq(RaceType) /\ Len(races') = Len(races)
        BY <1>2, <2>4, <2>5, <2>6, <2>8, <3>1, RaceGoes
      <3>3. updates'[u].client = NoClient /\ Len(complete') = Len(races')
            /\ complete' \in Seq(CompleteType)
        BY <1>5, <1>8, <2>5, <3>1, <3>2
      <3>4. /\ updates' \in Seq(UpdateType) /\ DOMAIN updates' = DOMAIN updates
            /\ \A v \in DOMAIN updates : v # u => updates'[v] = updates[v]
            /\ returned' \subseteq Nat /\ returned \subseteq returned'
        BY <1>5, <2>8, <3>1
      <3>5. UNCHANGED <<pathUpdates, clientUpdates, phase, receive, sentTo, givenVars,
                        unraced>>
        BY <1>2
      <3>6. IInv /\ i \in Senders /\ u = send[i].update /\ updates[u].client = NoClient /\ Moves(i, x)
            /\ send' = [send EXCEPT ![i] = x]
        BY <1>3, <1>4, <1>8
      <3> QED BY ONLY <2>7, <3>2, <3>3, <3>4, <3>5, <3>6, RaceSentKeeps
    <2>9. CASE /\ races' = ClearRace([races EXCEPT ![r].sent[c] = 1], r)
               /\ updates' = Cleared(u, c) /\ Return(send[i], c)
      <3>1. PICK y : y = [w EXCEPT !.open = FALSE]
        OBVIOUS
      <3>2. y \in RaceType /\ y.update = u /\ ~y.open
        BY <2>1, <2>4, <3>1 DEF RaceType
      <3>3. races' = [races EXCEPT ![r] = y]
        <4>1. races' = [[races EXCEPT ![r] = w] EXCEPT ![r].open = FALSE]
          BY <2>1, <2>6, <2>9 DEF ClearRace
        <4> QED BY <1>5, <2>1, <3>1, <4>1
      <3>4. PICK z : z = [updates[u] EXCEPT !.race = 0, !.client = c]
        OBVIOUS
      <3>5. /\ z \in UpdateType /\ z.path = updates[u].path /\ z.done = updates[u].done
            /\ z.race = 0 /\ z.client = c
        BY <1>3, <3>4 DEF UpdateType, ClientOrNone
      <3>6. updates' = [updates EXCEPT ![u] = z]
        BY <1>3, <2>9, <3>4 DEF Cleared
      <3>7. /\ PathInv' /\ KeepsPaths /\ RaceInv'
            /\ updates' \in Seq(UpdateType) /\ DOMAIN updates' = DOMAIN updates
            /\ updates'[u] = z /\ \A v \in DOMAIN updates : v # u => updates'[v] = updates[v]
            /\ races' \in Seq(RaceType) /\ Len(races') = Len(races)
        <4>1. RaceOf(u) # 0 /\ races' = [races EXCEPT ![RaceOf(u)] = y]
          BY <1>8, <2>1, <3>3
        <4> QED BY <1>2, <2>5, <3>2, <3>5, <3>6, <4>1, RaceEnds
      <3>8. /\ returned' \subseteq Nat /\ returned \subseteq returned'
            /\ u \in returned' \/ u \in clientUpdates[c] \/ send[i].previous # c
        BY <1>3, <1>5, <2>9 DEF Return
      <3>9. updates'[u].client = c /\ Len(complete') = Len(races')
            /\ complete' \in Seq(CompleteType)
        BY <1>5, <2>5, <3>5, <3>7
      <3>10. UNCHANGED <<pathUpdates, clientUpdates, phase, receive, sentTo, givenVars,
                         unraced>>
        BY <1>2
      <3>11. IInv /\ i \in Senders /\ u = send[i].update /\ updates[u].client = NoClient /\ Moves(i, x)
             /\ send' = [send EXCEPT ![i] = x]
        BY <1>3, <1>4, <1>8
      <3>12. /\ returned' \subseteq Nat /\ returned \subseteq returned'
             /\ \/ u \in returned' \/ u \in clientUpdates[updates'[u].client]
                \/ send[i].previous # updates'[u].client
        BY <3>8, <3>9
      <3> QED BY ONLY <2>7, <3>7, <3>9, <3>10, <3>11, <3>12, RaceSentKeeps
    <2> QED BY <2>5, <2>8, <2>9
  <1> QED BY <1>6, <1>7, <1>8

-----------------------------------------------------------------------------
(* What follows the lock.                                                  *)

\* Only what the user is given changes.
LEMMA OnlyGiven ==
    ASSUME IInv, HeardInv', GivenType',
           UNCHANGED <<pathVars, clientVars, callVars, sentTo, unraced, returned>>
    PROVE  IInv'
  <1>1. UNCHANGED <<pathUpdates, updates, races, clientUpdates, phase, send, receive, complete,
                    sentTo, unraced, returned>>
    BY DEF pathVars, clientVars, callVars
  <1>2. MultiTypeOK'
    BY <1>1 DEF IInv, MultiTypeOK, PathType, ClientType
  <1>3. /\ PathInv' /\ SendInv' /\ ReceiveInv' /\ CompleteInv' /\ RaceInv'
        /\ RemovedIsForgotten'
    BY <1>1 DEF IInv, PathInv, SendInv, ReceiveInv, CompleteInv, RaceInv, RaceOf,
                RemovedIsForgotten
  <1>4. RegisteredInv'
    BY <1>1 DEF IInv, RegisteredInv, Pending, IsDone
  <1> QED BY <1>2, <1>3, <1>4 DEF IInv

LEMMA GiveUserStep ==
    ASSUME IInv, NEW d \in toUser \cup overtaken, GiveUser(d)
    PROVE  IInv'
  <1> DEFINE rest == IF d.packets = 1 THEN {} ELSE {[d EXCEPT !.packets = @ - 1]}
  <1>1. UNCHANGED <<pathVars, clientVars, callVars, sentTo, resets, unraced, returned>>
    BY DEF GiveUser
  <1>2. \/ /\ d \in toUser /\ toUser' = (toUser \ {d}) \cup rest
           /\ Hear(d.path, d.client) /\ UNCHANGED overtaken
        \/ /\ d \in overtaken /\ overtaken' = (overtaken \ {d}) \cup rest
           /\ UNCHANGED <<toUser, heard, mixed>>
    BY DEF GiveUser
  <1>3. d \in GivenPackets /\ toUser \subseteq GivenPackets /\ overtaken \subseteq GivenPackets
        /\ heard \in [Paths -> ClientOrNone] /\ mixed \subseteq Paths
    BY DEF IInv, MultiTypeOK, GivenType
  <1>4. \A e \in rest : e \in GivenPackets /\ e.path = d.path /\ e.client = d.client
    BY <1>3 DEF GivenPackets
  <1>5. d.path \in Paths /\ d.client \in Clients
    BY <1>3 DEF GivenPackets
  <1> HIDE DEF rest
  <1>6. UNCHANGED <<pathUpdates, updates>>
    BY <1>1 DEF pathVars
  <1>7. CASE /\ d \in toUser /\ toUser' = (toUser \ {d}) \cup rest
             /\ Hear(d.path, d.client) /\ UNCHANGED overtaken
    <2>1. /\ heard' = [heard EXCEPT ![d.path] = d.client]
          /\ mixed' = IF heard[d.path] \in {NoClient, d.client} \/ d.path \in PathsOf(resets)
                      THEN mixed ELSE mixed \cup {d.path}
      BY <1>7 DEF Hear
    <2>2. GivenType'
      BY <1>1, <1>3, <1>4, <1>5, <1>7, <2>1 DEF IInv, MultiTypeOK, GivenType, ClientOrNone
    <2>3. Spoken(d.path, d.client)
      BY <1>7 DEF Spoken
    <2>4. PathsOf(resets)' = PathsOf(resets)
      BY <1>1 DEF PathsOf
    <2>5. \A q \in Paths, c \in Clients : Spoken(q, c)' => Spoken(q, c)
      BY <1>3, <1>4, <1>5, <1>7, <2>1, <2>3, <2>4 DEF Spoken
    <2>6. mixed' \subseteq unraced
      <3>1. CASE d.path \in unraced
        BY <2>1, <3>1 DEF IInv, HeardInv
      <3>2. CASE d.path \notin unraced /\ heard[d.path] \notin {NoClient, d.client}
                 /\ d.path \notin PathsOf(resets)
        <4>1. heard[d.path] \in Clients
          BY <1>3, <1>5, <3>2 DEF ClientOrNone
        <4>2. Spoken(d.path, heard[d.path])
          BY <3>2 DEF Spoken
        <4> QED BY <1>5, <2>3, <3>2, <4>1, <4>2 DEF IInv, HeardInv
      <3>3. CASE heard[d.path] \in {NoClient, d.client} \/ d.path \in PathsOf(resets)
        BY <2>1, <3>3 DEF IInv, HeardInv
      <3> QED BY <3>1, <3>2, <3>3
    <2>7. HeardInv'
      BY <1>1, <1>6, <2>5, <2>6 DEF IInv, HeardInv
    <2> QED BY <1>1, <2>2, <2>7, OnlyGiven
  <1>8. CASE /\ d \in overtaken /\ overtaken' = (overtaken \ {d}) \cup rest
             /\ UNCHANGED <<toUser, heard, mixed>>
    <2>1. GivenType'
      BY <1>1, <1>3, <1>4, <1>8 DEF IInv, MultiTypeOK, GivenType
    <2>2. HeardInv'
      BY <1>1, <1>6, <1>8 DEF IInv, HeardInv, Spoken, PathsOf
    <2> QED BY <1>1, <2>1, <2>2, OnlyGiven
  <1> QED BY <1>2, <1>7, <1>8

LEMMA ResetUserStep ==
    ASSUME IInv, NEW x \in resets, ResetUser(x)
    PROVE  IInv'
  <1>1. /\ x \in ResetType /\ GiveReset(x)
        /\ UNCHANGED <<pathVars, clientVars, callVars, sentTo, toUser, overtaken, mixed,
                       unraced, returned>>
    BY DEF ResetUser, IInv, MultiTypeOK, GivenType
  <1>2. UNCHANGED <<pathUpdates, updates>>
    BY <1>1 DEF pathVars
  <1>3. HeardInv' /\ GivenType'
    BY <1>1, <1>2, HeardReset
  <1> QED BY <1>1, <1>3, OnlyGiven

-----------------------------------------------------------------------------
(* Idle paths and the life of clients.                                     *)

\* Updates lose their client, and nothing else; their paths are let go of.
LEMMA ClientsLeave ==
    ASSUME IInv, UNCHANGED <<pathUpdates, races, send, receive, complete, sentTo, heard, mixed,
                             unraced, returned>>,
           updates' \in [DOMAIN updates -> UpdateType],
           \A v \in DOMAIN updates :
              /\ updates'[v].path = updates[v].path /\ updates'[v].race = updates[v].race
              /\ updates'[v].done = updates[v].done,
           NEW xs, xs \subseteq ResetType, LetGo(xs),
           \A v \in DOMAIN updates : updates'[v].client # updates[v].client =>
              updates[v].path \in PathsOf(xs)
    PROVE  /\ PathType' /\ PathInv' /\ RaceInv' /\ SendInv' /\ ReceiveInv' /\ CompleteInv'
           /\ HeardInv' /\ GivenType' /\ DOMAIN updates' = DOMAIN updates
  <1>1. updates' \in Seq(UpdateType) /\ DOMAIN updates' = DOMAIN updates
    <2>1. updates \in Seq(UpdateType)
      BY DEF IInv, MultiTypeOK, PathType
    <2> QED BY <2>1, Changed
  <1>2. PathInv' /\ RaceInv' /\ KeepsPaths
    BY <1>1, RaceStays
  <1>3. SendInv' /\ ReceiveInv' /\ CompleteInv'
    BY <1>2, SendStays, ReceiveStays, CompleteStays
  <1>4. PathType'
    BY <1>1 DEF IInv, MultiTypeOK, PathType
  <1>5. HeardInv' /\ GivenType'
    <2>1. \A q \in Paths, c \in Clients : q \in PathsOf(xs) \/ Keeps(q, c)
      BY DEF IInv, PathInv, Keeps
    <2> QED BY <2>1, HeardLetGo
  <1> QED BY <1>1, <1>2, <1>3, <1>4, <1>5

\* A client may be done, but not the other way round.
LEMMA ChangePhaseStep ==
    ASSUME IInv, NEW c \in Clients, ChangePhase(c)
    PROVE  IInv'
  <1>1. UNCHANGED <<pathUpdates, updates, races, clientUpdates, send, receive, complete,
                    sentTo, givenVars, unraced, returned>>
    BY DEF ChangePhase, pathVars, callVars, userVars
  <1>2. phase \in [Clients -> {"new", "window", "warning", "done", "out", "removed"}]
    BY DEF IInv, MultiTypeOK, ClientType
  <1>3. /\ phase' \in [Clients -> {"new", "window", "warning", "done", "out", "removed"}]
        /\ \A d \in Clients : d # c => phase'[d] = phase[d]
        /\ phase'[c] # "removed"
        /\ phase[c] \in {"done", "out", "removed"} => phase'[c] \in {"done", "out", "removed"}
    BY <1>2 DEF ChangePhase, PhaseChanges
  <1>4. PathInv' /\ RaceInv' /\ SendInv' /\ ReceiveInv' /\ CompleteInv'
    BY <1>1 DEF IInv, PathInv, RaceInv, RaceOf, SendInv, ReceiveInv, CompleteInv
  <1>5. HeardInv' /\ MultiTypeOK' /\ RemovedIsForgotten'
    BY <1>1, <1>3, HeardStays DEF IInv, MultiTypeOK, PathType, ClientType, RemovedIsForgotten
  <1>6. RegisteredInv'
    <2>1. SUFFICES ASSUME NEW v \in DOMAIN updates \ returned,
                          updates[v].client # NoClient,
                          phase'[updates[v].client] \notin {"done", "out", "removed"}
                   PROVE  \/ v \in clientUpdates[updates[v].client]
                          \/ Pending(send, v, updates[v].client)
                          \/ Pending(receive, v, updates[v].client)
                          \/ Pending(complete, v, updates[v].client)
      BY <1>1 DEF RegisteredInv, Pending, IsDone
    <2>2. updates[v].client \in Clients
      <3>1. updates[v] \in UpdateType
        BY DEF IInv, MultiTypeOK, PathType
      <3> QED BY <2>1, <3>1 DEF UpdateType, ClientOrNone
    <2>3. ~IsDone(updates[v].client)
      BY <1>3, <2>1, <2>2 DEF IsDone
    <2> QED BY <2>1, <2>3 DEF IInv, RegisteredInv
  <1> QED BY <1>4, <1>5, <1>6 DEF IInv

LEMMA CancelUpdateStep ==
    ASSUME IInv, NEW u \in DOMAIN updates, CancelUpdate(u)
    PROVE  IInv'
  <1>1. /\ pathUpdates[updates[u].path] # u
        /\ UNCHANGED <<pathUpdates, clientUpdates, phase, send, receive, complete, sentTo,
                       givenVars, unraced, returned>>
    BY DEF CancelUpdate, clientVars, callVars, userVars
  <1>2. updates \in Seq(UpdateType) /\ races \in Seq(RaceType) /\ updates[u] \in UpdateType
        /\ DOMAIN complete = DOMAIN races
    BY DEF IInv, MultiTypeOK, PathType
  <1>3. PICK z : z = [updates[u] EXCEPT !.done = TRUE]
    OBVIOUS
  <1>4. /\ z \in UpdateType /\ z.path = updates[u].path /\ z.race = updates[u].race
        /\ z.client = updates[u].client /\ z.done /\ updates' = [updates EXCEPT ![u] = z]
    BY <1>2, <1>3 DEF UpdateType, CancelUpdate
  <1>5. /\ updates' \in Seq(UpdateType) /\ DOMAIN updates' = DOMAIN updates
        /\ updates'[u] = z /\ \A v \in DOMAIN updates : v # u => updates'[v] = updates[v]
    BY <1>2, <1>4, Replaced
  <1>6. /\ races' \in [DOMAIN races -> RaceType]
        /\ \A r \in DOMAIN races : /\ races'[r].update = races[r].update
                                   /\ races'[r].open => races[r].open
                                   /\ races[r].update # u => races'[r] = races[r]
    <2>1. races' = [r \in DOMAIN races |->
             IF races[r].update = u THEN [races[r] EXCEPT !.open = FALSE] ELSE races[r]]
      BY DEF CancelUpdate
    <2>2. \A r \in DOMAIN races : races[r] \in RaceType
      BY <1>2
    <2>3. \A r \in DOMAIN races : /\ [races[r] EXCEPT !.open = FALSE] \in RaceType
                                  /\ [races[r] EXCEPT !.open = FALSE].update = races[r].update
                                  /\ ~[races[r] EXCEPT !.open = FALSE].open
      BY <2>2 DEF RaceType
    <2> QED BY <2>1, <2>2, <2>3
  <1>7. races' \in Seq(RaceType) /\ Len(races') = Len(races) /\ DOMAIN races' = DOMAIN races
    BY <1>2, <1>6, Changed
  <1>8. KeepsPaths
    BY <1>4, <1>5 DEF KeepsPaths
  <1>9. \A p \in Paths : pathUpdates[p] # 0 =>
           pathUpdates[p] # u /\ pathUpdates[p] \in DOMAIN updates
    BY <1>1 DEF IInv, PathInv
  <1>10. PathInv'
    BY <1>1, <1>5, <1>9 DEF IInv, PathInv
  <1>11. RaceInv'
    <2>1. \A v \in DOMAIN updates : updates'[v].race = updates[v].race
                                    /\ updates'[v].path = updates[v].path
      BY <1>4, <1>5
    <2>2. \A r \in DOMAIN races' :
             /\ races'[r].update \in DOMAIN updates'
             /\ complete'[r].path = updates'[races'[r].update].path
             /\ races'[r].open => updates'[races'[r].update].race = r
      BY <1>1, <1>5, <1>6, <1>7, <2>1 DEF IInv, RaceInv, RaceOf
    <2>3. \A v \in DOMAIN updates' : updates'[v].race # 0 =>
             /\ updates'[v].race \in DOMAIN races' /\ races'[updates'[v].race].update = v
             /\ ~updates'[v].done => races'[updates'[v].race].open
      <3>1. TAKE v \in DOMAIN updates'
      <3>2. updates[v].race # 0 =>
               /\ updates[v].race \in DOMAIN races /\ races[updates[v].race].update = v
               /\ ~updates[v].done => races[updates[v].race].open
        BY <1>5 DEF IInv, RaceInv, RaceOf
      <3>3. CASE v = u
        BY <1>4, <1>5, <1>6, <1>7, <2>1, <3>2, <3>3
      <3>4. CASE v # u
        BY <1>5, <1>6, <1>7, <2>1, <3>2, <3>4
      <3> QED BY <3>3, <3>4
    <2>4. \A q \in Paths : pathUpdates'[q] # 0 /\ updates'[pathUpdates'[q]].race # 0 =>
             complete'[updates'[pathUpdates'[q]].race].pc \in {"wait", "callback"}
      BY <1>1, <1>9, <2>1 DEF IInv, RaceInv, RaceOf
    <2> QED BY <2>2, <2>3, <2>4 DEF RaceInv, RaceOf
  <1>12. SendInv' /\ ReceiveInv' /\ CompleteInv'
    BY <1>1, <1>8, SendStays, ReceiveStays, CompleteStays
  <1>13. \A v \in DOMAIN updates' : v \in DOMAIN updates
                                    /\ updates'[v].client = updates[v].client
    BY <1>4, <1>5
  <1>14. HeardInv' /\ GivenType' /\ RemovedIsForgotten'
    <2>1. \A q \in Paths, c \in Clients : Keeps(q, c)
      BY <1>1, <1>9, <1>13, <1>5 DEF Keeps
    <2> QED BY <1>1, <2>1, HeardKept DEF IInv, RemovedIsForgotten
  <1>15. RegisteredInv'
    <2>1. RegisteredInv /\ SameWork(send, send') /\ SameWork(receive, receive')
          /\ SameWork(complete, complete')
      BY <1>1, SameWorkSame DEF IInv
    <2> QED BY <1>1, <1>13, <2>1, RegisteredKept DEF clientVars
  <1>16. MultiTypeOK'
    BY <1>1, <1>5, <1>7, <1>14 DEF IInv, MultiTypeOK, PathType, ClientType
  <1> QED BY <1>10, <1>11, <1>12, <1>14, <1>15, <1>16 DEF IInv

LEMMA IdleStep ==
    ASSUME IInv, NEW p \in Paths, Idle(p)
    PROVE  IInv'
  <1>1. PICK u : u = pathUpdates[p]
    OBVIOUS
  <1>2. /\ u # 0 /\ ~Busy(u)
        /\ pathUpdates' = [pathUpdates EXCEPT ![p] = 0]
        /\ UNCHANGED <<races, phase, send, receive, complete, sentTo, heard, mixed, unraced,
                       returned>>
    BY <1>1 DEF Idle, callVars
  <1>3. u \in DOMAIN updates /\ updates[u].path = p /\ updates[u] \in UpdateType
        /\ updates \in Seq(UpdateType) /\ pathUpdates \in [Paths -> Nat]
    <2>1. u \in DOMAIN updates /\ updates[u].path = p
      BY <1>1, <1>2 DEF IInv, PathInv
    <2> QED BY <2>1 DEF IInv, MultiTypeOK, PathType
  <1>4. PICK z : z = [updates[u] EXCEPT !.client = NoClient]
    OBVIOUS
  <1>5. /\ z \in UpdateType /\ z.path = p /\ z.race = updates[u].race
        /\ z.done = updates[u].done /\ z.client = NoClient
        /\ updates' = [updates EXCEPT ![u] = z]
    BY <1>1, <1>3, <1>4 DEF UpdateType, ClientOrNone, Idle
  <1>6. /\ updates' \in Seq(UpdateType) /\ DOMAIN updates' = DOMAIN updates
        /\ updates'[u] = z /\ \A v \in DOMAIN updates : v # u => updates'[v] = updates[v]
    BY <1>3, <1>5, Replaced
  <1>7. /\ pathUpdates' \in [Paths -> Nat] /\ pathUpdates'[p] = 0
        /\ \A q \in Paths : q # p => pathUpdates'[q] = pathUpdates[q]
    BY <1>2, <1>3
  <1>8. KeepsPaths
    BY <1>3, <1>5, <1>6 DEF KeepsPaths
  <1>9. \A q \in Paths : pathUpdates'[q] # 0 =>
           /\ q # p /\ pathUpdates'[q] = pathUpdates[q] /\ pathUpdates[q] # u
           /\ pathUpdates[q] \in DOMAIN updates
    BY <1>3, <1>7 DEF IInv, PathInv
  <1>10. PathInv'
    BY <1>6, <1>9 DEF IInv, PathInv
  <1>11. RaceInv'
    <2>1. \A v \in DOMAIN updates : /\ updates'[v].race = updates[v].race
                                    /\ updates'[v].path = updates[v].path
                                    /\ updates'[v].done = updates[v].done
      BY <1>3, <1>5, <1>6
    <2>2. \A q \in Paths : pathUpdates'[q] # 0 /\ updates'[pathUpdates'[q]].race # 0 =>
             complete'[updates'[pathUpdates'[q]].race].pc \in {"wait", "callback"}
      BY <1>2, <1>9, <2>1 DEF IInv, RaceInv, RaceOf
    <2> QED BY <1>2, <1>6, <2>1, <2>2 DEF IInv, RaceInv, RaceOf
  <1>12. SendInv'
    BY <1>2, <1>8, SendStays
  <1>13. ReceiveInv'
    <2>1. ASSUME NEW c \in Clients, receive[c].pc # "start"
          PROVE  receive[c].update # 0 /\ pathUpdates'[receive[c].path] = receive[c].update
      <3>1. receive[c].path \in Paths
        BY DEF IInv, MultiTypeOK, ClientType, ReceiveType
      <3>2. receive[c].update # 0 /\ pathUpdates[receive[c].path] = receive[c].update
        BY <2>1 DEF IInv, ReceiveInv
      <3>3. receive[c].update # u
        BY <1>2, <2>1 DEF Busy
      <3> QED BY <1>1, <1>7, <3>1, <3>2, <3>3
    <2> QED BY <1>2, <2>1 DEF IInv, ReceiveInv
  <1>14. CompleteInv'
    <2>1. ASSUME NEW r \in DOMAIN complete, complete[r].pc \notin {"wait", "done"}
          PROVE  complete[r].update # 0 /\ pathUpdates'[complete[r].path] = complete[r].update
      <3>1. complete[r] \in CompleteType
        BY DEF IInv, MultiTypeOK, PathType
      <3>2. complete[r].path \in Paths /\ complete[r].pc \in {"callback", "end"}
        BY <2>1, <3>1 DEF CompleteType
      <3>3. complete[r].update # 0 /\ pathUpdates[complete[r].path] = complete[r].update
        BY <2>1 DEF IInv, CompleteInv
      <3>4. complete[r].update # u
        BY <1>2, <3>2 DEF Busy
      <3> QED BY <1>1, <1>7, <3>2, <3>3, <3>4
    <2> QED BY <1>2, <2>1 DEF IInv, CompleteInv
  <1>15. PICK xs : xs = {ResetOf(p, u, NoClient)}
    OBVIOUS
  <1>16. HeardInv' /\ GivenType'
    <2>1. u \in Nat
      BY <1>1 DEF IInv, MultiTypeOK, PathType
    <2>2. xs \subseteq ResetType /\ PathsOf(xs) = {p} /\ LetGo(xs)
      BY <1>1, <1>15, <2>1 DEF Idle, ResetOf, ResetType, PathsOf, ClientOrNone
    <2>3. \A q \in Paths, c \in Clients : q \in PathsOf(xs) \/ Keeps(q, c)
      BY <1>3, <1>6, <1>7, <2>2 DEF IInv, PathInv, Keeps
    <2> QED BY <1>2, <2>2, <2>3, HeardLetGo
  <1>17. /\ clientUpdates' \in [Clients -> SUBSET Nat]
         /\ \A d \in Clients : clientUpdates'[d] \subseteq clientUpdates[d]
         /\ \A d \in Clients : clientUpdates[d] \subseteq clientUpdates'[d] \cup {u}
    BY <1>1 DEF Idle, IInv, MultiTypeOK, ClientType
  <1>18. RemovedIsForgotten'
    BY <1>2, <1>17 DEF IInv, RemovedIsForgotten
  <1>19. RegisteredInv'
    <2>1. SUFFICES ASSUME NEW v \in DOMAIN updates' \ returned',
                          updates'[v].client # NoClient,
                          phase'[updates'[v].client] \notin {"done", "out", "removed"}
                   PROVE  \/ v \in clientUpdates'[updates'[v].client]
                          \/ Pending(send', v, updates'[v].client)
                          \/ Pending(receive', v, updates'[v].client)
                          \/ Pending(complete', v, updates'[v].client)
      BY DEF RegisteredInv, Pending, IsDone
    <2>2. v # u /\ v \in DOMAIN updates \ returned /\ updates'[v] = updates[v]
      BY <1>2, <1>5, <1>6, <2>1
    <2>3. PICK c : c = updates[v].client
      OBVIOUS
    <2>4. c \in Clients /\ c # NoClient /\ ~IsDone(c)
      <3>1. updates[v] \in UpdateType
        BY <2>2 DEF IInv, MultiTypeOK, PathType
      <3> QED BY <1>2, <2>1, <2>2, <2>3, <3>1 DEF UpdateType, ClientOrNone, IsDone
    <2>5. v \in clientUpdates[c] \/ Pending(send, v, c) \/ Pending(receive, v, c)
          \/ Pending(complete, v, c)
      BY <2>2, <2>3, <2>4 DEF IInv, RegisteredInv
    <2>6. v \in clientUpdates[c] => v \in clientUpdates'[c]
      BY <1>17, <2>2, <2>4
    <2> QED BY <1>2, <2>2, <2>3, <2>5, <2>6
  <1>20. MultiTypeOK'
    BY <1>2, <1>6, <1>7, <1>16, <1>17 DEF IInv, MultiTypeOK, PathType, ClientType
  <1> QED BY <1>10, <1>11, <1>12, <1>13, <1>14, <1>16, <1>18, <1>19, <1>20 DEF IInv

LEMMA RemoveClientStep ==
    ASSUME IInv, NEW c \in Clients, RemoveClient(c)
    PROVE  IInv'
  <1> DEFINE us == {u \in DOMAIN updates : u \in clientUpdates[c] /\ updates[u].client = c}
  <1>1. /\ phase[c] = "out" /\ phase' = [phase EXCEPT ![c] = "removed"]
        /\ clientUpdates' = [clientUpdates EXCEPT ![c] = {}]
        /\ updates' = [u \in DOMAIN updates |->
                         IF u \in us THEN [updates[u] EXCEPT !.client = NoClient]
                                     ELSE updates[u]]
        /\ LetGo({ResetOf(updates[u].path, u, c) : u \in us})
        /\ UNCHANGED <<pathUpdates, races, send, receive, complete, sentTo, heard, mixed,
                       unraced, returned>>
    BY DEF RemoveClient, callVars
  <1>2. \A v \in DOMAIN updates :
           /\ updates[v] \in UpdateType
           /\ [updates[v] EXCEPT !.client = NoClient] \in UpdateType
           /\ [updates[v] EXCEPT !.client = NoClient].path = updates[v].path
           /\ [updates[v] EXCEPT !.client = NoClient].race = updates[v].race
           /\ [updates[v] EXCEPT !.client = NoClient].done = updates[v].done
           /\ [updates[v] EXCEPT !.client = NoClient].client = NoClient
    <2>1. TAKE v \in DOMAIN updates
    <2>2. updates[v] \in UpdateType
      BY DEF IInv, MultiTypeOK, PathType
    <2> QED BY <2>2 DEF UpdateType, ClientOrNone
  <1> HIDE DEF us
  <1>3. /\ updates' \in [DOMAIN updates -> UpdateType]
        /\ \A v \in DOMAIN updates :
              /\ updates'[v].path = updates[v].path /\ updates'[v].race = updates[v].race
              /\ updates'[v].done = updates[v].done
              /\ updates'[v].client \in {NoClient, updates[v].client}
              /\ v \notin us => updates'[v] = updates[v]
    BY <1>1, <1>2
  <1>4. PICK xs : xs = {ResetOf(updates[u].path, u, c) : u \in us}
    OBVIOUS
  <1>5. /\ PathType' /\ PathInv' /\ RaceInv' /\ SendInv' /\ ReceiveInv' /\ CompleteInv'
        /\ HeardInv' /\ GivenType' /\ DOMAIN updates' = DOMAIN updates
    <2>1. \A u \in us : u \in DOMAIN updates
      BY DEF us
    <2>2. \A u \in us : ResetOf(updates[u].path, u, c) \in ResetType
      <3>1. TAKE u \in us
      <3>2. u \in Nat /\ updates[u].path \in Paths
        <4>1. u \in DOMAIN updates /\ updates[u] \in UpdateType
          BY <1>2, <2>1
        <4>2. updates \in Seq(UpdateType)
          BY DEF IInv, MultiTypeOK, PathType
        <4> QED BY <4>1, <4>2 DEF UpdateType
      <3> QED BY <3>2 DEF ResetOf, ResetType, ClientOrNone
    <2>3. xs \subseteq ResetType /\ LetGo(xs)
      BY <1>1, <1>4, <2>2
    <2>4. \A u \in us : updates[u].path \in PathsOf(xs)
      <3>1. \A u \in us : ResetOf(updates[u].path, u, c).path = updates[u].path
        BY DEF ResetOf
      <3> QED BY <1>4, <3>1 DEF PathsOf
    <2>5. \A v \in DOMAIN updates : updates'[v].client # updates[v].client =>
             updates[v].path \in PathsOf(xs)
      BY <1>3, <2>4
    <2> QED BY <1>1, <1>3, <2>3, <2>5, ClientsLeave
  <1>6. /\ clientUpdates' \in [Clients -> SUBSET Nat] /\ clientUpdates'[c] = {}
        /\ \A d \in Clients : d # c => clientUpdates'[d] = clientUpdates[d]
        /\ phase' \in [Clients -> {"new", "window", "warning", "done", "out", "removed"}]
        /\ phase'[c] = "removed" /\ \A d \in Clients : d # c => phase'[d] = phase[d]
    BY <1>1 DEF IInv, MultiTypeOK, ClientType
  <1>7. RemovedIsForgotten'
    BY <1>6 DEF IInv, RemovedIsForgotten
  <1>8. MultiTypeOK'
    BY <1>1, <1>5, <1>6 DEF IInv, MultiTypeOK, ClientType
  <1>9. RegisteredInv'
    <2>1. SUFFICES ASSUME NEW v \in DOMAIN updates' \ returned',
                          updates'[v].client # NoClient,
                          phase'[updates'[v].client] \notin {"done", "out", "removed"}
                   PROVE  \/ v \in clientUpdates'[updates'[v].client]
                          \/ Pending(send', v, updates'[v].client)
                          \/ Pending(receive', v, updates'[v].client)
                          \/ Pending(complete', v, updates'[v].client)
      BY DEF RegisteredInv, Pending, IsDone
    <2>2. v \in DOMAIN updates \ returned /\ updates'[v].client = updates[v].client
      BY <1>1, <1>3, <1>5, <2>1
    <2>3. PICK d : d = updates[v].client
      OBVIOUS
    <2>4. d \in Clients /\ d # NoClient /\ d # c /\ ~IsDone(d)
      <3>1. d \in Clients /\ d # NoClient
        BY <1>2, <2>1, <2>2, <2>3 DEF UpdateType, ClientOrNone
      <3> QED BY <1>6, <2>1, <2>2, <2>3, <3>1 DEF IsDone
    <2>5. v \in clientUpdates[d] \/ Pending(send, v, d) \/ Pending(receive, v, d)
          \/ Pending(complete, v, d)
      BY <2>2, <2>3, <2>4 DEF IInv, RegisteredInv
    <2> QED BY <1>1, <1>6, <2>2, <2>3, <2>4, <2>5
  <1> QED BY <1>5, <1>7, <1>8, <1>9 DEF IInv, MultiTypeOK

-----------------------------------------------------------------------------
(* The theorems.                                                           *)

LEMMA InitInvariant == MultiInit => IInv
  <1> SUFFICES ASSUME MultiInit PROVE IInv
    OBVIOUS
  <1>1. PICK s \in Scenarios :
           /\ pathUpdates = [p \in Paths |-> 0]
           /\ updates = <<>> /\ races = <<>> /\ complete = <<>>
           /\ clientUpdates = [c \in Clients |-> {}]
           /\ phase = [c \in Clients |-> IF c \in s.window THEN "window" ELSE "new"]
           /\ send = [i \in Senders |->
                        IF i \in DOMAIN s.sends THEN NewSend("start", s.sends[i])
                                                ELSE NewSend("done", AnyPath)]
           /\ receive = [c \in Clients |-> Call(AnyPath)]
           /\ sentTo = [c \in Clients |-> {}]
           /\ toUser = {} /\ overtaken = {} /\ resets = {}
           /\ heard = [p \in Paths |-> NoClient]
           /\ mixed = {} /\ unraced = {} /\ returned = {}
    BY DEF MultiInit
  <1>2. \A p \in Paths : \A pc \in {"start", "done"} :
           NewSend(pc, p) \in SendType /\ NewSend(pc, p).pc = pc /\ NewSend(pc, p).update = 0
    BY DEF NewSend, SendType, ClientOrNone
  <1>3. \A i \in Senders : /\ send[i] \in SendType /\ send[i].update = 0
                           /\ send[i].pc \in {"start", "done"}
    <2>1. \A i \in DOMAIN s.sends : s.sends[i] \in Paths
      BY MultiAssumption
    <2> QED BY <1>1, <1>2, <2>1, AnyPathType
  <1>4. \A c \in Clients : receive[c] \in ReceiveType /\ receive[c].pc = "start"
                           /\ receive[c].update = 0
    <2>1. Call(AnyPath) \in ReceiveType /\ Call(AnyPath).pc = "start" /\ Call(AnyPath).update = 0
      BY AnyPathType DEF Call, ReceiveType, ClientOrNone
    <2> QED BY <1>1, <2>1
  <1>5. PathType
    BY <1>1 DEF PathType
  <1>6. send \in [Senders -> SendType] /\ receive \in [Clients -> ReceiveType]
    BY <1>1, <1>3, <1>4
  <1>7. ClientType /\ GivenType
    BY <1>1, <1>6 DEF ClientType, GivenType, ClientOrNone
  <1>8. DOMAIN updates = {} /\ DOMAIN races = {} /\ DOMAIN complete = {}
    BY <1>1
  <1>9. PathInv /\ SendInv /\ ReceiveInv /\ CompleteInv
    BY <1>1, <1>3, <1>4, <1>8 DEF PathInv, SendInv, ReceiveInv, CompleteInv
  <1>10. RaceInv /\ RegisteredInv /\ RemovedIsForgotten
    BY <1>1, <1>8 DEF RaceInv, RegisteredInv, RemovedIsForgotten
  <1>11. HeardInv
    BY <1>1, MultiAssumption DEF HeardInv, Spoken
  <1> QED BY <1>5, <1>7, <1>9, <1>10, <1>11 DEF IInv, MultiTypeOK

LEMMA StutterInvariant == IInv /\ UNCHANGED multiVars => IInv'
  <1> SUFFICES ASSUME IInv, UNCHANGED multiVars PROVE IInv'
    OBVIOUS
  <1>1. UNCHANGED <<pathUpdates, updates, races, clientUpdates, phase, send, receive, complete,
                    sentTo, givenVars, unraced, returned>>
    BY DEF multiVars, pathVars, clientVars, callVars, userVars
  <1>2. MultiTypeOK' /\ HeardInv'
    BY <1>1, HeardStays DEF IInv, MultiTypeOK, PathType, ClientType
  <1>3. /\ PathInv' /\ SendInv' /\ ReceiveInv' /\ CompleteInv' /\ RaceInv'
        /\ RemovedIsForgotten'
    BY <1>1 DEF IInv, PathInv, SendInv, ReceiveInv, CompleteInv, RaceInv, RaceOf,
                RemovedIsForgotten
  <1>4. RegisteredInv'
    BY <1>1 DEF IInv, RegisteredInv, Pending, IsDone
  <1> QED BY <1>2, <1>3, <1>4 DEF IInv

LEMMA NextInvariant == IInv /\ [MultiNext]_multiVars => IInv'
  <1> SUFFICES ASSUME IInv, MultiNext PROVE IInv'
    BY StutterInvariant
  <1>1. CASE \E i \in Senders : SendStep(i)
    <2>1. PICK i \in Senders : SendStep(i)
      BY <1>1
    <2>2. CASE SendReserve(i) \/ SendEnd(i)
      BY <2>2, SendReserveStep, SendEndStep
    <2>3. CASE SendCurrent(i) \/ SendChoose(i) \/ SendSingle(i) \/ RaceSendsEnd(i) \/ SendRetry(i)
      BY <2>3, SendCurrentStep, SendChooseStep, SendSingleStep, SendWaitsStep
    <2>4. CASE SendToClient(i) \/ SendFails(i) \/ SendReset(i) \/ SetSingle(i)
      BY <2>4, SendToClientStep, SendFailsStep, SendResetStep, SetSingleStep
    <2>5. CASE \E c \in Clients : RaceCheck(i, c) \/ RaceSend(i, c) \/ RaceSent(i, c)
      BY <2>5, RaceCheckStep, RaceSendStep, RaceSentStep
    <2> QED BY <2>1, <2>2, <2>3, <2>4, <2>5 DEF SendStep
  <1>2. CASE \E c \in Clients : \/ ReceiveReserve(c) \/ Receive(c) \/ ReceiveEnd(c)
                                \/ ChangePhase(c) \/ RemoveClient(c)
    BY <1>2, ReceiveReserveStep, ReceiveStep, ReceiveEndStep, ChangePhaseStep, RemoveClientStep
  <1>3. CASE \E r \in DOMAIN complete :
                CompleteStops(r) \/ CompleteReserve(r) \/ Complete(r) \/ CompleteEnd(r)
    BY <1>3, CompleteFiresStep, CompleteReserveStep, CompleteStep, CompleteEndStep
  <1>4. CASE \E d \in toUser \cup overtaken : GiveUser(d)
    BY <1>4, GiveUserStep
  <1>5. CASE \E x \in resets : ResetUser(x)
    BY <1>5, ResetUserStep
  <1>6. CASE \E p \in Paths : Idle(p)
    BY <1>6, IdleStep
  <1>7. CASE \E u \in DOMAIN updates : CancelUpdate(u)
    BY <1>7, CancelUpdateStep
  <1> QED BY <1>1, <1>2, <1>3, <1>4, <1>5, <1>6, <1>7 DEF MultiNext

\* The inductive invariant holds in every state of updateClientPath, of races
\* and of clients that come and go.
THEOREM Invariance == MultiSpec => []IInv
  BY InitInvariant, NextInvariant, PTL DEF MultiSpec

\* The updates, races, calls and clients have the values the code gives them.
THEOREM TypeCorrect == MultiSpec => []MultiTypeOK
  <1>1. IInv => MultiTypeOK
    BY DEF IInv
  <1> QED BY <1>1, Invariance, PTL

\* removeClient leaves no update with the client, and none is added by the calls
\* that were in flight.
THEOREM RemovedStaysForgotten == MultiSpec => []RemovedIsForgotten
  <1>1. IInv => RemovedIsForgotten
    BY DEF IInv
  <1> QED BY <1>1, Invariance, PTL

\* The client of an update that no call works on has the update registered,
\* unless it was given back to a client that had let go of it.
THEOREM ClientKnowsItsUpdates == MultiSpec => []AssignedIsRegistered
  <1>1. IInv => AssignedIsRegistered
    <2> SUFFICES ASSUME IInv, NEW u \in DOMAIN updates \ returned, Quiet(u),
                          updates[u].client # NoClient, ~IsDone(updates[u].client)
                   PROVE  u \in clientUpdates[updates[u].client]
      BY DEF AssignedIsRegistered
    <2>2. u # 0
      BY DEF IInv, MultiTypeOK, PathType
    <2>3. \A c : ~Pending(send, u, c)
      <3>1. SUFFICES ASSUME NEW i \in Senders, send[i].update = u PROVE FALSE
        BY DEF Pending, IInv, MultiTypeOK, ClientType
      <3>2. send[i].pc \notin {"start", "done"}
        BY <2>2, <3>1 DEF IInv, SendInv
      <3>3. send[i].pc \in {"current", "sending", "reset", "choose", "single", "set", "race",
                            "retry", "end"}
        BY <3>2 DEF IInv, MultiTypeOK, ClientType, SendType
      <3>4. /\ i \notin SendersOf(u, QuickPcs)
            /\ i \notin SendersOf(u, {"sending", "reset", "single", "retry"})
        BY DEF Quiet, Busy
      <3> QED BY <3>1, <3>3, <3>4 DEF SendersOf, QuickPcs
    <2>4. \A c : ~Pending(receive, u, c)
      <3>1. SUFFICES ASSUME NEW d \in Clients, receive[d].update = u PROVE FALSE
        BY DEF Pending, IInv, MultiTypeOK, ClientType
      <3>2. receive[d].pc # "start"
        BY <2>2, <3>1 DEF IInv, ReceiveInv
      <3> QED BY <3>1, <3>2 DEF Quiet, Busy
    <2>5. \A c : ~Pending(complete, u, c)
      <3>1. SUFFICES ASSUME NEW r \in DOMAIN complete, complete[r].update = u PROVE FALSE
        BY DEF Pending
      <3>2. complete[r] \in CompleteType
        BY DEF IInv, MultiTypeOK, PathType
      <3>3. complete[r].pc \in {"callback", "end"}
        BY <2>2, <3>1, <3>2 DEF IInv, CompleteInv, CompleteType
      <3> QED BY <3>1, <3>3 DEF Quiet, Busy
    <2> QED BY <2>3, <2>4, <2>5 DEF IInv, RegisteredInv
  <1> QED BY <1>1, Invariance, PTL

\* The user of a path hears one client until a reset is on its way to it, the
\* packets aside that were overtaken by a reset, unless a client was taken without
\* regard to the race.
THEOREM UserHearsOneClient == MultiSpec => []OneClientHeard
  <1>1. IInv => OneClientHeard
    BY DEF IInv, HeardInv, OneClientHeard
  <1> QED BY <1>1, Invariance, PTL

\* The race of a path in use has a goroutine that has yet to complete it, and an
\* open race is the race of its update.
THEOREM RacesAreCompleted == MultiSpec => []RaceIsCompleted
  <1>1. IInv => RaceIsCompleted
    BY DEF IInv, RaceInv, RaceIsCompleted, RaceOf
  <1> QED BY <1>1, Invariance, PTL
=============================================================================
