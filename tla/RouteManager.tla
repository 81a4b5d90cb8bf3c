---------------------------- MODULE RouteManager ----------------------------
(***************************************************************************)
(* RouteManager, MatchState and MultiRouteSelector                         *)
(* (src/transfer_route_manager.go).                                        *)
(*                                                                         *)
(* A transport brings routes (channels) to the manager and takes them away;*)
(* a selector is the view of one reader or writer of a destination on the  *)
(* routes of the transports that match it.  Open, close and update run     *)
(* under the manager's mutex and are one step each.  Write and Read take   *)
(* the notify channel, then the active routes, then wait, each under the   *)
(* selector's own lock, so transports come and go between those steps.     *)
(*                                                                         *)
(* The weights only choose the order in which routes are tried, so they    *)
(* are left out: a write or read takes any route of its list that is ready.*)
(* Frames are counted, not told apart.                                     *)
(***************************************************************************)
EXTENDS Integers

CONSTANTS
    Transports,
    Routes,
    Destinations,
    Selectors,        \* identities: records with an id, a dir, a destination and
                      \* whether its owner calls Write or Read on it
    MatchesSend,      \* MatchesSend[t], MatchesReceive[t]: the destinations
    MatchesReceive,   \* a transport matches, fixed for each transport in src/
    TransportBufferSize

Dirs == {"send", "receive"}

ASSUME RouteAssumption ==
    /\ \A s \in Selectors : s.dir \in Dirs /\ s.destination \in Destinations
                             /\ s.calls \in BOOLEAN
    /\ MatchesSend \in [Transports -> SUBSET Destinations]
    /\ MatchesReceive \in [Transports -> SUBSET Destinations]
    /\ TransportBufferSize \in Nat \ {0}

VARIABLES
    transportRoutes,  \* transport -> its routes, in both match states
    matched,          \* transportMatchedDestinations of each direction
    known,            \* keys of destinationMultiRouteSelectors of each direction
    sel,              \* selector -> its state and its user's place in Write/Read
    route             \* route -> frames in the channel, whether it is closed

routeVars == <<transportRoutes, matched, known, sel, route>>

MatchesIn(dir) == IF dir = "send" THEN MatchesSend ELSE MatchesReceive

NewMultiRouteSelector ==
    [state |-> "new", routes |-> [t \in Transports |-> {}], active |-> {},
     at |-> "idle", notified |-> FALSE, taken |-> {}]

ClosedSelector == [NewMultiRouteSelector EXCEPT !.state = "closed"]

\* users: the selectors that are used in a behaviour; the others are over.
RouteInit(users) ==
    /\ transportRoutes = [t \in {} |-> {}]
    /\ matched = [dir \in Dirs |-> [t \in {} |-> {}]]
    /\ known = [dir \in Dirs |-> {}]
    /\ sel = [s \in Selectors |-> IF s \in users THEN NewMultiRouteSelector ELSE ClosedSelector]
    /\ route = [r \in Routes |-> [len |-> 0, closed |-> FALSE]]

SelectorType ==
    [state : {"new", "open", "closed"}, routes : [Transports -> SUBSET Routes],
     active : SUBSET Routes, at : {"idle", "notify", "wait"},
     notified : BOOLEAN, taken : SUBSET Routes]

RouteTypeOK ==
    /\ DOMAIN transportRoutes \subseteq Transports
    /\ \A t \in DOMAIN transportRoutes : transportRoutes[t] \in (SUBSET Routes) \ {{}}
    /\ DOMAIN matched = Dirs
    /\ \A dir \in Dirs :
          /\ DOMAIN matched[dir] \subseteq Transports
          /\ \A t \in DOMAIN matched[dir] : matched[dir][t] \subseteq known[dir]
    /\ known \in [Dirs -> SUBSET Destinations]
    /\ sel \in [Selectors -> SelectorType]
    /\ route \in [Routes -> [len : 0..TransportBufferSize, closed : BOOLEAN]]

-----------------------------------------------------------------------------
(* The match states. *)

Opened(dir, d) ==
    {s \in Selectors : sel[s].state = "open" /\ s.dir = dir /\ s.destination = d}

\* Fault: the routes of a selector change without a notification.
WithTransportUnnoticed(x, t, rs) ==
    [x EXCEPT !.routes[t] = rs, !.active = (@ \ x.routes[t]) \union rs]

\* MultiRouteSelector.updateTransport: x is the selector, rs the routes the
\* transport has now.  An update that changes anything wakes whoever waits.
WithTransport(x, t, rs) ==
    LET gone == x.routes[t] \ rs
        new  == rs \ x.routes[t]
    IN  IF rs = {} /\ x.routes[t] = {}
        THEN x
        ELSE [x EXCEPT !.routes[t] = rs,
                       !.active = (@ \ gone) \union new,
                       !.notified = TRUE]

KnownWith(s) == [known EXCEPT ![s.dir] = @ \union {s.destination}]

\* openMultiRouteSelector: the new selector gets the routes of the transports
\* that match now.  The lookup of a transport without an entry in matched
\* would write to a nil map: that is the state EntryForEachTransport excludes.
OpenMultiRouteSelector(s) ==
    LET matches == {t \in DOMAIN transportRoutes : s.destination \in MatchesIn(s.dir)[t]}
    IN  /\ sel[s].state = "new"
        /\ known' = KnownWith(s)
        /\ matched' = [matched EXCEPT ![s.dir] =
                          [t \in DOMAIN @ |-> IF t \in matches THEN @[t] \union {s.destination}
                                                               ELSE @[t]]]
        /\ sel' = [sel EXCEPT ![s].state = "open",
                              ![s].routes = [t \in Transports |->
                                               IF t \in matches THEN transportRoutes[t] ELSE {}],
                              ![s].active = UNION {transportRoutes[t] : t \in matches}]
        /\ UNCHANGED <<transportRoutes, route>>

\* Fault: closing one of two selectors takes the destination away from both.
AlwaysLast(s) == TRUE

LastOfDestination(s) == Opened(s.dir, s.destination) = {s}

\* closeMultiRouteSelector: the destination keeps its key when its last
\* selector goes, only the matches are dropped.  Nobody uses s any more, so
\* what it holds is forgotten.
CloseMultiRouteSelector(s) ==
    /\ sel[s].state = "open" /\ sel[s].at = "idle"
    /\ sel' = [sel EXCEPT ![s] = ClosedSelector]
    /\ matched' = IF LastOfDestination(s)
                  THEN [matched EXCEPT ![s.dir] =
                           [t \in DOMAIN @ |-> @[t] \ {s.destination}]]
                  ELSE matched
    /\ UNCHANGED <<transportRoutes, known, route>>

Matched(dir, t) == IF t \in DOMAIN matched[dir] THEN matched[dir][t] ELSE {}

Without(f, t) == [u \in DOMAIN f \ {t} |-> f[u]]
With(f, t, x) == [u \in DOMAIN f \union {t} |-> IF u = t THEN x ELSE f[u]]

\* MatchState.updateTransport with no routes: the selectors of the matched
\* destinations lose the transport, then its entries go.
RemoveTransport(t) ==
    /\ sel' = [s \in Selectors |->
                 IF sel[s].state = "open" /\ s.destination \in Matched(s.dir, t)
                 THEN WithTransport(sel[s], t, {}) ELSE sel[s]]
    /\ matched' = [dir \in Dirs |-> Without(matched[dir], t)]
    /\ transportRoutes' = Without(transportRoutes, t)
    /\ UNCHANGED <<known, route>>

\* The destinations of an updated transport: all known ones that match.
MatchedAgain(t) ==
    [dir \in Dirs |-> With(matched[dir], t, known[dir] \intersect MatchesIn(dir)[t])]

\* MatchState.updateTransport with routes, in both match states.
UpdateTransport(t, rs) ==
    /\ rs # {}
    /\ sel' = [s \in Selectors |->
                 IF sel[s].state # "open" THEN sel[s]
                 ELSE IF s.destination \in MatchesIn(s.dir)[t] THEN WithTransport(sel[s], t, rs)
                 ELSE IF s.destination \in Matched(s.dir, t) THEN WithTransport(sel[s], t, {})
                 ELSE sel[s]]
    /\ matched' = MatchedAgain(t)
    /\ transportRoutes' = With(transportRoutes, t, rs)
    /\ UNCHANGED <<known, route>>

-----------------------------------------------------------------------------
(* Write and Read: one user for each selector. *)

\* The first statement of the loop of WriteDetailed and Read.
TakeNotifyChannel(s) ==
    /\ s.calls /\ sel[s].state = "open" /\ sel[s].at = "idle"
    /\ sel' = [sel EXCEPT ![s].at = "notify", ![s].notified = FALSE]
    /\ UNCHANGED <<transportRoutes, matched, known, route>>

\* GetActiveRoutes, the next one.
TakeActiveRoutes(s) ==
    /\ sel[s].at = "notify"
    /\ sel' = [sel EXCEPT ![s].at = "wait", ![s].taken = sel[s].active]
    /\ UNCHANGED <<transportRoutes, matched, known, route>>

Returned(x) == [x EXCEPT !.at = "idle", !.notified = FALSE, !.taken = {}]

\* A route of the list has room, although its transport may be gone by now.
WriteRoute(s, r) ==
    /\ s.dir = "send" /\ sel[s].at = "wait" /\ r \in sel[s].taken
    /\ route[r].len < TransportBufferSize
    /\ route' = [route EXCEPT ![r].len = @ + 1]
    /\ sel' = [sel EXCEPT ![s] = Returned(@)]
    /\ UNCHANGED <<transportRoutes, matched, known>>

ReadRoute(s, r) ==
    /\ s.dir = "receive" /\ sel[s].at = "wait" /\ r \in sel[s].taken
    /\ route[r].len > 0
    /\ route' = [route EXCEPT ![r].len = @ - 1]
    /\ sel' = [sel EXCEPT ![s] = Returned(@)]
    /\ UNCHANGED <<transportRoutes, matched, known>>

\* A read of a closed route: setActive(route, false), and the loop goes on.
ReadClosedRoute(s, r) ==
    /\ s.dir = "receive" /\ sel[s].at = "wait" /\ r \in sel[s].taken
    /\ route[r].len = 0 /\ route[r].closed
    /\ sel' = [sel EXCEPT ![s] = [Returned(@) EXCEPT !.at = "notify",
                                                    !.active = sel[s].active \ {r}]]
    /\ UNCHANGED <<transportRoutes, matched, known, route>>

\* The transport update wakes the select: the loop goes on.
RoutesUpdated(s) ==
    /\ sel[s].at = "wait" /\ sel[s].notified
    /\ sel' = [sel EXCEPT ![s] = [Returned(@) EXCEPT !.at = "notify"]]
    /\ UNCHANGED <<transportRoutes, matched, known, route>>

\* The timeout, or a context that is done.
GiveUp(s) ==
    /\ sel[s].at = "wait"
    /\ sel' = [sel EXCEPT ![s] = Returned(@)]
    /\ UNCHANGED <<transportRoutes, matched, known, route>>

RouteUserNext ==
    \E s \in Selectors :
        \/ OpenMultiRouteSelector(s)
        \/ CloseMultiRouteSelector(s)
        \/ TakeNotifyChannel(s)
        \/ TakeActiveRoutes(s)
        \/ \E r \in Routes : WriteRoute(s, r) \/ ReadRoute(s, r) \/ ReadClosedRoute(s, r)
        \/ RoutesUpdated(s)
        \/ GiveUp(s)

-----------------------------------------------------------------------------
(* Properties. *)

\* An open selector has exactly the routes its matching transports have now:
\* it never keeps a route of a transport that was removed, and a selector
\* opened after the last one of its destination was closed misses none.  Every
\* transport with routes has its (possibly empty) set of matched destinations,
\* so opening a selector never writes to a nil map
\* (src/transfer_route_manager.go:216-224).
SelectorsAreCurrent ==
    /\ \A s \in Selectors : sel[s].state = "open" =>
          \A t \in Transports :
              sel[s].routes[t] = IF t \in DOMAIN transportRoutes
                                       /\ s.destination \in MatchesIn(s.dir)[t]
                                 THEN transportRoutes[t] ELSE {}
    /\ \A dir \in Dirs : DOMAIN matched[dir] = DOMAIN transportRoutes

\* A reader or writer that waits and has not been woken waits on every route
\* that is active now: no update falls between the notify channel and the list.
NoMissedUpdate ==
    \A s \in Selectors :
        sel[s].state = "open" /\ sel[s].at = "wait" /\ ~sel[s].notified
            => sel[s].active \subseteq sel[s].taken
=============================================================================
