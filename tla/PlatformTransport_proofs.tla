----------------------- MODULE PlatformTransport_proofs -----------------------
(***************************************************************************)
(* Proofs about RouteManager and PlatformTransport, for any number of      *)
(* transports, destinations, selectors and connections, any size of the    *)
(* channels and whatever each transport matches.                           *)
(***************************************************************************)
EXTENDS PlatformTransport, TLAPS

-----------------------------------------------------------------------------
(* The inductive invariant of the route manager.                           *)

\* The destination of an open selector is known, and it is among the matches
\* of a transport exactly when the transport matches it: only then does the
\* removal of the transport reach the selector.  A match that is kept for a
\* destination without a selector is a match of the transport.
MatchInv ==
    /\ \A dir \in Dirs : \A t \in DOMAIN matched[dir] : matched[dir][t] \subseteq MatchesIn(dir)[t]
    /\ \A s \in Selectors : sel[s].state = "open" =>
          /\ s.destination \in known[s.dir]
          /\ \A t \in DOMAIN matched[s.dir] :
                s.destination \in MatchesIn(s.dir)[t] => s.destination \in matched[s.dir][t]

\* Nobody writes to or reads from a selector that is not open.
IdleInv == \A s \in Selectors : sel[s].state # "open" => sel[s].at = "idle"

RouteInv == RouteTypeOK /\ MatchInv /\ IdleInv /\ SelectorsAreCurrent /\ NoMissedUpdate

\* What the matches of a transport are for each direction.
LEMMA MatchesType ==
    /\ \A dir \in Dirs : MatchesIn(dir) \in [Transports -> SUBSET Destinations]
    /\ \A s \in Selectors : s.dir \in Dirs /\ s.destination \in Destinations
  BY RouteAssumption DEF MatchesIn, Dirs

\* What a selector is before and after its use.
LEMMA UnusedSelector ==
    ASSUME NEW x \in {NewMultiRouteSelector, ClosedSelector}
    PROVE  /\ x \in SelectorType
           /\ x.state # "open" /\ x.at = "idle"
  <1> DEFINE new == NewMultiRouteSelector
  <1>1. /\ new \in SelectorType
        /\ new.state = "new" /\ new.at = "idle"
    BY DEF NewMultiRouteSelector, SelectorType
  <1>2. ClosedSelector = [new EXCEPT !.state = "closed"]
    BY Zenon DEF ClosedSelector
  <1> QED BY <1>1, <1>2 DEF SelectorType

\* The initial states satisfy it, whichever selectors are used.
LEMMA RouteInitInv ==
    ASSUME NEW users, RouteInit(users)
    PROVE  RouteInv
  <1> USE DEF RouteInit
  <1>1. \A s \in Selectors : sel[s] \in {NewMultiRouteSelector, ClosedSelector}
    OBVIOUS
  <1>2. sel \in [Selectors -> SelectorType]
    BY <1>1, UnusedSelector
  <1>3. \A s \in Selectors : sel[s].state # "open" /\ sel[s].at = "idle"
    BY <1>1, UnusedSelector
  <1>4. RouteTypeOK
    BY <1>2, RouteAssumption DEF RouteTypeOK
  <1>5. MatchInv /\ IdleInv /\ SelectorsAreCurrent /\ NoMissedUpdate
    BY <1>3 DEF MatchInv, IdleInv, SelectorsAreCurrent, NoMissedUpdate
  <1> QED BY <1>4, <1>5 DEF RouteInv

\* Steps that only move frames in the routes preserve it.
LEMMA RouteFrameInv ==
    ASSUME RouteInv, UNCHANGED <<transportRoutes, matched, known, sel>>,
           route' \in [Routes -> [len : 0..TransportBufferSize, closed : BOOLEAN]]
    PROVE  RouteInv'
  BY DEF RouteInv, RouteTypeOK, MatchInv, IdleInv, SelectorsAreCurrent, NoMissedUpdate, Matched,
         MatchesIn

\* Steps that change a selector only in where its user is.
LEMMA SelectorStep ==
    ASSUME RouteInv, NEW s \in Selectors, NEW x,
           x \in SelectorType,
           x.state = sel[s].state, x.routes = sel[s].routes,
           x.state = "open",
           x.at = "wait" /\ ~x.notified => x.active \subseteq x.taken,
           sel' = [sel EXCEPT ![s] = x],
           UNCHANGED <<transportRoutes, matched, known>>,
           route' \in [Routes -> [len : 0..TransportBufferSize, closed : BOOLEAN]]
    PROVE  RouteInv'
  <1> USE DEF RouteInv
  <1>0. sel' \in [Selectors -> SelectorType]
    BY DEF RouteTypeOK
  <1>1. RouteTypeOK'
    BY <1>0 DEF RouteTypeOK
  <1>2. \A u \in Selectors : sel'[u].state = sel[u].state /\ sel'[u].routes = sel[u].routes
    BY DEF RouteTypeOK
  <1>3. \A u \in Selectors : sel'[u] = IF u = s THEN x ELSE sel[u]
    BY DEF RouteTypeOK
  <1>4. MatchInv'
    BY <1>2 DEF MatchInv, MatchesIn
  <1>5. IdleInv'
    BY <1>3 DEF IdleInv
  <1>6. SelectorsAreCurrent'
    BY <1>2 DEF SelectorsAreCurrent, MatchesIn
  <1>7. NoMissedUpdate'
    BY <1>3 DEF NoMissedUpdate
  <1> QED BY <1>1, <1>4, <1>5, <1>6, <1>7

\* A transport that changes its routes leaves a selector well formed, with
\* these routes, and wakes its user unless nothing changed.
LEMMA WithTransportStep ==
    ASSUME NEW t \in Transports, NEW rs \in SUBSET Routes, NEW x,
           x \in SelectorType,
           NEW y, y = WithTransport(x, t, rs)
    PROVE  /\ y \in SelectorType
           /\ y.state = x.state /\ y.at = x.at
           /\ y.routes = [x.routes EXCEPT ![t] = rs]
           /\ y = x \/ y.notified
  <1>1. CASE rs = {} /\ x.routes[t] = {}
    BY <1>1 DEF WithTransport, SelectorType
  <1>2. CASE ~(rs = {} /\ x.routes[t] = {})
    <2> DEFINE a == (x.active \ (x.routes[t] \ rs)) \union (rs \ x.routes[t])
               r == [x.routes EXCEPT ![t] = rs]
    <2>1. y = [x EXCEPT !.routes = r, !.active = a, !.notified = TRUE]
      BY <1>2 DEF WithTransport
    <2>2. a \in SUBSET Routes /\ r \in [Transports -> SUBSET Routes]
      BY DEF SelectorType
    <2> HIDE DEF a, r
    <2>3. /\ y.routes = r /\ y.active = a /\ y.notified = TRUE
          /\ y.state = x.state /\ y.at = x.at /\ y.taken = x.taken
      BY <2>1
    <2>4. y \in SelectorType
      BY <2>1, <2>2 DEF SelectorType
    <2>5. r = [x.routes EXCEPT ![t] = rs]
      BY DEF r
    <2> QED BY <2>3, <2>4, <2>5
  <1> QED BY <1>1, <1>2

\* openMultiRouteSelector.
LEMMA OpenInv ==
    ASSUME RouteInv, NEW s \in Selectors, OpenMultiRouteSelector(s)
    PROVE  RouteInv'
  <1> DEFINE matches == {t \in DOMAIN transportRoutes : s.destination \in MatchesIn(s.dir)[t]}
             rts == [t \in Transports |-> IF t \in matches THEN transportRoutes[t] ELSE {}]
             act == UNION {transportRoutes[t] : t \in matches}
             mtd == [t \in DOMAIN matched[s.dir] |->
                        IF t \in matches THEN matched[s.dir][t] \union {s.destination}
                                         ELSE matched[s.dir][t]]
             x == [sel[s] EXCEPT !.state = "open", !.routes = rts, !.active = act]
  <1>1. /\ sel[s].state = "new" /\ UNCHANGED <<transportRoutes, route>>
        /\ known' = [known EXCEPT ![s.dir] = @ \union {s.destination}]
        /\ matched' = [matched EXCEPT ![s.dir] = mtd]
    BY DEF OpenMultiRouteSelector, KnownWith
  <1>2. rts \in [Transports -> SUBSET Routes] /\ act \in SUBSET Routes
    BY DEF RouteInv, RouteTypeOK
  <1>3. sel' = [sel EXCEPT ![s] = x]
    BY DEF OpenMultiRouteSelector, RouteInv, RouteTypeOK
  <1>4. x \in SelectorType
        /\ x.state = "open" /\ x.routes = rts /\ x.at = "idle"
    <2>1. sel[s] \in SelectorType
      BY DEF RouteInv, RouteTypeOK
    <2>2. sel[s].at = "idle"
      BY <1>1 DEF RouteInv, IdleInv
    <2> HIDE DEF rts, act
    <2> QED BY <1>2, <2>1, <2>2 DEF SelectorType
  <1>5. \A t \in Transports : rts[t] = IF t \in DOMAIN transportRoutes
                                            /\ s.destination \in MatchesIn(s.dir)[t]
                                       THEN transportRoutes[t] ELSE {}
    OBVIOUS
  <1>6. /\ DOMAIN mtd = DOMAIN matched[s.dir]
        /\ \A t \in DOMAIN mtd : mtd[t] \subseteq matched[s.dir][t] \union {s.destination}
        /\ \A t \in DOMAIN mtd : matched[s.dir][t] \subseteq mtd[t]
        /\ \A t \in DOMAIN mtd : s.destination \in MatchesIn(s.dir)[t] => s.destination \in mtd[t]
        /\ \A t \in DOMAIN mtd : s.destination \notin MatchesIn(s.dir)[t] => mtd[t] = matched[s.dir][t]
    BY MatchesType DEF RouteInv, SelectorsAreCurrent
  <1> HIDE DEF x, rts, act, mtd, matches
  <1> USE MatchesType DEF RouteInv
  <1>7. \A u \in Selectors : sel'[u] = IF u = s THEN x ELSE sel[u]
    BY <1>3 DEF RouteTypeOK
  <1>8. \A dir \in Dirs : /\ matched'[dir] = IF dir = s.dir THEN mtd ELSE matched[dir]
                          /\ known'[dir] = IF dir = s.dir THEN known[dir] \union {s.destination}
                                                          ELSE known[dir]
    BY <1>1 DEF RouteTypeOK
  <1>9. RouteTypeOK'
    <2>1. sel' \in [Selectors -> SelectorType]
      BY <1>3, <1>4 DEF RouteTypeOK
    <2>2. known' \in [Dirs -> SUBSET Destinations]
      BY <1>1 DEF RouteTypeOK
    <2>3. DOMAIN matched' = Dirs
      BY <1>1 DEF RouteTypeOK
    <2>4. \A dir \in Dirs :
            /\ DOMAIN matched'[dir] \subseteq Transports
            /\ \A t \in DOMAIN matched'[dir] : matched'[dir][t] \subseteq known'[dir]
      BY <1>6, <1>8 DEF RouteTypeOK
    <2> QED BY <1>1, <2>1, <2>2, <2>3, <2>4 DEF RouteTypeOK
  <1>10. MatchInv'
    <2> SUFFICES ASSUME NEW u \in Selectors, sel'[u].state = "open"
                 PROVE  /\ u.destination \in known'[u.dir]
                        /\ \A t \in DOMAIN matched'[u.dir] :
                              u.destination \in MatchesIn(u.dir)[t]
                                 => u.destination \in matched'[u.dir][t]
      <3>1. ASSUME NEW dir \in Dirs, NEW t \in DOMAIN matched'[dir]
            PROVE  matched'[dir][t] \subseteq MatchesIn(dir)[t]
        <4>1. CASE dir # s.dir
          BY <1>8, <4>1 DEF MatchInv
        <4>2. CASE dir = s.dir /\ s.destination \notin MatchesIn(s.dir)[t]
          BY <1>6, <1>8, <4>2 DEF MatchInv
        <4>3. CASE dir = s.dir /\ s.destination \in MatchesIn(s.dir)[t]
          <5>1. t \in DOMAIN mtd /\ matched'[dir][t] \subseteq matched[s.dir][t] \union {s.destination}
            BY <1>6, <1>8, <4>3
          <5>2. matched[s.dir][t] \subseteq MatchesIn(s.dir)[t]
            BY <1>6, <4>3, <5>1 DEF MatchInv
          <5> QED BY <5>1, <5>2, <4>3
        <4> QED BY <4>1, <4>2, <4>3
      <3> QED BY <3>1 DEF MatchInv, MatchesIn
    <2>1. CASE u.dir = s.dir /\ u.destination = s.destination
      BY <1>6, <1>8, <2>1
    <2>2. CASE u.dir # s.dir \/ u.destination # s.destination
      BY <1>4, <1>6, <1>7, <1>8, <2>2 DEF MatchInv
    <2> QED BY <2>1, <2>2
  <1>11. IdleInv'
    BY <1>4, <1>7 DEF IdleInv
  <1>12. SelectorsAreCurrent'
    BY <1>1, <1>4, <1>5, <1>6, <1>7, <1>8 DEF SelectorsAreCurrent, MatchesIn
  <1>13. NoMissedUpdate'
    BY <1>4, <1>7 DEF NoMissedUpdate
  <1> QED BY <1>9, <1>10, <1>11, <1>12, <1>13

\* closeMultiRouteSelector.
LEMMA CloseInv ==
    ASSUME RouteInv, NEW s \in Selectors, CloseMultiRouteSelector(s)
    PROVE  RouteInv'
  <1> USE MatchesType DEF RouteInv
  <1> DEFINE mtd == [t \in DOMAIN matched[s.dir] |-> matched[s.dir][t] \ {s.destination}]
  <1>1. /\ sel' = [sel EXCEPT ![s] = ClosedSelector]
        /\ UNCHANGED <<transportRoutes, known, route>>
    BY DEF CloseMultiRouteSelector
  <1>2. matched' = matched \/ (LastOfDestination(s) /\ matched' = [matched EXCEPT ![s.dir] = mtd])
    BY DEF CloseMultiRouteSelector
  <1>3. \A u \in Selectors : sel'[u] = IF u = s THEN ClosedSelector ELSE sel[u]
    BY <1>1 DEF RouteTypeOK
  <1>4. ClosedSelector \in SelectorType /\ ClosedSelector.state # "open" /\ ClosedSelector.at = "idle"
    BY UnusedSelector DEF SelectorType
  <1>5. /\ DOMAIN matched' = Dirs
        /\ \A dir \in Dirs : /\ DOMAIN matched'[dir] = DOMAIN matched[dir]
                             /\ \A t \in DOMAIN matched[dir] : matched'[dir][t] \subseteq matched[dir][t]
    BY <1>2 DEF RouteTypeOK
  <1>6. \A u \in Selectors : sel'[u].state = "open" =>
           \A t \in DOMAIN matched[u.dir] :
              u.destination \in matched[u.dir][t] => u.destination \in matched'[u.dir][t]
    <2>1. CASE matched' = matched
      BY <2>1
    <2>2. CASE LastOfDestination(s) /\ matched' = [matched EXCEPT ![s.dir] = mtd]
      <3> SUFFICES ASSUME NEW u \in Selectors, sel'[u].state = "open"
                   PROVE  \A t \in DOMAIN matched[u.dir] :
                             u.destination \in matched[u.dir][t] => u.destination \in matched'[u.dir][t]
        OBVIOUS
      <3>1. u # s /\ sel[u].state = "open"
        BY <1>3, <1>4
      <3>2. u.dir # s.dir \/ u.destination # s.destination
        BY <2>2, <3>1 DEF LastOfDestination, Opened
      <3> QED BY <2>2, <3>2 DEF RouteTypeOK
    <2> QED BY <1>2, <2>1, <2>2
  <1> HIDE DEF mtd
  <1>7. RouteTypeOK'
    <2>1. sel' \in [Selectors -> SelectorType]
      BY <1>1, <1>4 DEF RouteTypeOK
    <2>2. \A dir \in Dirs :
            /\ DOMAIN matched'[dir] \subseteq Transports
            /\ \A t \in DOMAIN matched'[dir] : matched'[dir][t] \subseteq known'[dir]
      BY <1>1, <1>5 DEF RouteTypeOK
    <2> QED BY <1>1, <1>5, <2>1, <2>2 DEF RouteTypeOK
  <1>8. MatchInv'
    BY <1>1, <1>3, <1>4, <1>5, <1>6 DEF MatchInv, MatchesIn
  <1>9. IdleInv'
    BY <1>3, <1>4 DEF IdleInv
  <1>10. SelectorsAreCurrent'
    BY <1>1, <1>3, <1>4, <1>5 DEF SelectorsAreCurrent, MatchesIn
  <1>11. NoMissedUpdate'
    BY <1>3, <1>4 DEF NoMissedUpdate
  <1> QED BY <1>7, <1>8, <1>9, <1>10, <1>11

\* MatchState.updateTransport without routes: every selector that has routes
\* of the transport loses them.
LEMMA RemoveInv ==
    ASSUME RouteInv, NEW t \in Transports, RemoveTransport(t)
    PROVE  RouteInv'
  <1> USE MatchesType DEF RouteInv
  <1>1. /\ transportRoutes' = [u \in DOMAIN transportRoutes \ {t} |-> transportRoutes[u]]
        /\ matched' = [dir \in Dirs |-> [u \in DOMAIN matched[dir] \ {t} |-> matched[dir][u]]]
        /\ UNCHANGED <<known, route>>
    BY DEF RemoveTransport, Without
  <1>2. \A s \in Selectors :
           sel'[s] = IF sel[s].state = "open" /\ s.destination \in Matched(s.dir, t)
                     THEN WithTransport(sel[s], t, {}) ELSE sel[s]
    BY DEF RemoveTransport
  <1>3. \A s \in Selectors :
          /\ sel'[s] \in SelectorType
          /\ sel'[s].state = sel[s].state /\ sel'[s].at = sel[s].at
          /\ sel'[s].routes = [sel[s].routes EXCEPT ![t] = {}] \/ sel'[s].routes = sel[s].routes
          /\ sel'[s].routes = [sel[s].routes EXCEPT ![t] = {}]
                \/ ~(sel[s].state = "open" /\ s.destination \in Matched(s.dir, t))
          /\ sel'[s] = sel[s] \/ sel'[s].notified
    <2> TAKE s \in Selectors
    <2>1. sel[s] \in SelectorType
      BY DEF RouteTypeOK
    <2>2. CASE sel[s].state = "open" /\ s.destination \in Matched(s.dir, t)
      <3>1. PICK rs \in SUBSET Routes : rs = {}
        OBVIOUS
      <3>2. sel'[s] = WithTransport(sel[s], t, rs)
        BY <1>2, <2>2, <3>1
      <3>3. /\ sel'[s] \in SelectorType
            /\ sel'[s].state = sel[s].state /\ sel'[s].at = sel[s].at
            /\ sel'[s].routes = [sel[s].routes EXCEPT ![t] = rs]
            /\ sel'[s] = sel[s] \/ sel'[s].notified
        BY <2>1, <3>2, WithTransportStep
      <3> QED BY <3>1, <3>3
    <2>3. CASE ~(sel[s].state = "open" /\ s.destination \in Matched(s.dir, t))
      BY <1>2, <2>1, <2>3
    <2> QED BY <2>2, <2>3
  <1>4. RouteTypeOK'
    <2>1. sel' = [s \in Selectors |-> sel'[s]]
      BY DEF RemoveTransport
    <2>2. sel' \in [Selectors -> SelectorType]
      BY <1>3, <2>1
    <2>3. \A dir \in Dirs :
            /\ DOMAIN matched'[dir] \subseteq Transports
            /\ \A u \in DOMAIN matched'[dir] : matched'[dir][u] \subseteq known'[dir]
      BY <1>1 DEF RouteTypeOK
    <2> QED BY <1>1, <2>2, <2>3 DEF RouteTypeOK
  <1>5. MatchInv'
    BY <1>1, <1>3 DEF MatchInv, MatchesIn
  <1>6. IdleInv'
    BY <1>3 DEF IdleInv
  <1>7. SelectorsAreCurrent'
    <2>1. ASSUME NEW s \in Selectors, sel'[s].state = "open", NEW u \in Transports
          PROVE  sel'[s].routes[u] = IF u \in DOMAIN transportRoutes'
                                          /\ s.destination \in MatchesIn(s.dir)[u]
                                     THEN transportRoutes'[u] ELSE {}
      <3>1. sel[s].state = "open" /\ sel[s].routes \in [Transports -> SUBSET Routes]
        BY <1>3, <2>1 DEF RouteTypeOK, SelectorType
      <3>2. sel[s].routes[u] = IF u \in DOMAIN transportRoutes
                                    /\ s.destination \in MatchesIn(s.dir)[u]
                               THEN transportRoutes[u] ELSE {}
        BY <3>1 DEF SelectorsAreCurrent
      <3>3. CASE u # t
        <4>1. sel'[s].routes[u] = sel[s].routes[u]
          BY <1>3, <3>1, <3>3
        <4> QED BY <1>1, <3>2, <3>3, <4>1
      <3>4. CASE u = t
        <4>1. CASE s.destination \in Matched(s.dir, t)
          BY <1>1, <1>3, <3>1, <3>4, <4>1
        <4>2. CASE s.destination \notin Matched(s.dir, t)
          <5>1. sel[s].routes[t] = {}
            BY <3>1, <3>2, <3>4, <4>2 DEF Matched, MatchInv, SelectorsAreCurrent
          <5>2. sel'[s] = sel[s]
            BY <1>2, <4>2
          <5> QED BY <1>1, <3>4, <5>1, <5>2
        <4> QED BY <4>1, <4>2
      <3> QED BY <3>3, <3>4
    <2>2. \A dir \in Dirs : DOMAIN matched'[dir] = DOMAIN transportRoutes'
      BY <1>1 DEF SelectorsAreCurrent
    <2> QED BY <2>1, <2>2 DEF SelectorsAreCurrent, MatchesIn
  <1>8. NoMissedUpdate'
    BY <1>3 DEF NoMissedUpdate
  <1> QED BY <1>4, <1>5, <1>6, <1>7, <1>8

\* MatchState.updateTransport with routes.
LEMMA UpdateInv ==
    ASSUME RouteInv, NEW t \in Transports, NEW rs \in SUBSET Routes, UpdateTransport(t, rs)
    PROVE  RouteInv'
  <1> USE MatchesType DEF RouteInv
  <1>1. /\ DOMAIN transportRoutes' = DOMAIN transportRoutes \union {t}
        /\ \A u \in DOMAIN transportRoutes' : transportRoutes'[u] = IF u = t THEN rs ELSE transportRoutes[u]
        /\ rs # {} /\ UNCHANGED <<known, route>>
    BY DEF UpdateTransport, With
  <1>2. /\ DOMAIN matched' = Dirs
        /\ \A dir \in Dirs :
             /\ DOMAIN matched'[dir] = DOMAIN matched[dir] \union {t}
             /\ \A u \in DOMAIN matched'[dir] :
                   matched'[dir][u] = IF u = t THEN known[dir] \intersect MatchesIn(dir)[t]
                                               ELSE matched[dir][u]
    BY DEF UpdateTransport, MatchedAgain, With
  <1>3. \A s \in Selectors :
           /\ sel[s].state = "open" /\ s.destination \in MatchesIn(s.dir)[t]
                 => sel'[s] = WithTransport(sel[s], t, rs)
           /\ ~(sel[s].state = "open" /\ s.destination \in MatchesIn(s.dir)[t]) => sel'[s] = sel[s]
    <2>1. \A s \in Selectors : s.destination \in Matched(s.dir, t) => s.destination \in MatchesIn(s.dir)[t]
      BY DEF Matched, MatchInv
    <2> QED BY <2>1 DEF UpdateTransport
  <1>4. \A s \in Selectors :
          /\ sel'[s] \in SelectorType
          /\ sel'[s].state = sel[s].state /\ sel'[s].at = sel[s].at
          /\ sel'[s].routes = IF sel[s].state = "open" /\ s.destination \in MatchesIn(s.dir)[t]
                              THEN [sel[s].routes EXCEPT ![t] = rs] ELSE sel[s].routes
          /\ sel'[s] = sel[s] \/ sel'[s].notified
    <2> TAKE s \in Selectors
    <2>1. sel[s] \in SelectorType
      BY DEF RouteTypeOK
    <2>2. CASE sel[s].state = "open" /\ s.destination \in MatchesIn(s.dir)[t]
      <3>1. sel'[s] = WithTransport(sel[s], t, rs)
        BY <1>3, <2>2
      <3> QED BY <2>1, <2>2, <3>1, WithTransportStep
    <2>3. CASE ~(sel[s].state = "open" /\ s.destination \in MatchesIn(s.dir)[t])
      BY <1>3, <2>1, <2>3
    <2> QED BY <2>2, <2>3
  <1>5. RouteTypeOK'
    <2>1. sel' = [s \in Selectors |-> sel'[s]]
      BY DEF UpdateTransport
    <2>2. sel' \in [Selectors -> SelectorType]
      BY <1>4, <2>1
    <2>3. \A dir \in Dirs :
            /\ DOMAIN matched'[dir] \subseteq Transports
            /\ \A u \in DOMAIN matched'[dir] : matched'[dir][u] \subseteq known'[dir]
      BY <1>1, <1>2 DEF RouteTypeOK
    <2> QED BY <1>1, <1>2, <2>2, <2>3 DEF RouteTypeOK
  <1>6. MatchInv'
    <2>1. \A dir \in Dirs : \A u \in DOMAIN matched'[dir] : matched'[dir][u] \subseteq MatchesIn(dir)[u]
      BY <1>2 DEF MatchInv
    <2>2. \A s \in Selectors : sel'[s].state = "open" =>
            /\ s.destination \in known'[s.dir]
            /\ \A u \in DOMAIN matched'[s.dir] :
                  s.destination \in MatchesIn(s.dir)[u] => s.destination \in matched'[s.dir][u]
      <3> TAKE s \in Selectors
      <3>1. CASE sel'[s].state = "open"
        <4>1. sel[s].state = "open"
          BY <1>4, <3>1
        <4>2. s.destination \in known[s.dir]
          BY <4>1 DEF MatchInv
        <4>3. ASSUME NEW u \in DOMAIN matched'[s.dir], s.destination \in MatchesIn(s.dir)[u]
              PROVE  s.destination \in matched'[s.dir][u]
          <5>1. CASE u = t
            BY <1>2, <4>2, <4>3, <5>1
          <5>2. CASE u # t
            <6>1. u \in DOMAIN matched[s.dir] /\ matched'[s.dir][u] = matched[s.dir][u]
              BY <1>2, <5>2
            <6> QED BY <4>1, <4>3, <6>1 DEF MatchInv
          <5> QED BY <5>1, <5>2
        <4> QED BY <1>1, <4>2, <4>3
      <3> QED BY <3>1
    <2> QED BY <2>1, <2>2 DEF MatchInv, MatchesIn
  <1>7. IdleInv'
    BY <1>4 DEF IdleInv
  <1>8. SelectorsAreCurrent'
    <2>1. ASSUME NEW s \in Selectors, sel'[s].state = "open", NEW u \in Transports
          PROVE  sel'[s].routes[u] = IF u \in DOMAIN transportRoutes'
                                          /\ s.destination \in MatchesIn(s.dir)[u]
                                     THEN transportRoutes'[u] ELSE {}
      <3>1. sel[s].state = "open" /\ sel[s].routes \in [Transports -> SUBSET Routes]
        BY <1>4, <2>1 DEF RouteTypeOK, SelectorType
      <3>2. sel[s].routes[u] = IF u \in DOMAIN transportRoutes
                                    /\ s.destination \in MatchesIn(s.dir)[u]
                               THEN transportRoutes[u] ELSE {}
        BY <3>1 DEF SelectorsAreCurrent
      <3> QED BY <1>1, <1>4, <3>1, <3>2
    <2>2. \A dir \in Dirs : DOMAIN matched'[dir] = DOMAIN transportRoutes'
      BY <1>1, <1>2 DEF SelectorsAreCurrent
    <2> QED BY <2>1, <2>2 DEF SelectorsAreCurrent, MatchesIn
  <1>9. NoMissedUpdate'
    BY <1>4 DEF NoMissedUpdate
  <1> QED BY <1>5, <1>6, <1>7, <1>8, <1>9

\* The steps of the users of the selectors.
LEMMA RouteUserInv ==
    ASSUME RouteInv, RouteUserNext
    PROVE  RouteInv'
  <1> PICK s \in Selectors :
        \/ OpenMultiRouteSelector(s) \/ CloseMultiRouteSelector(s)
        \/ TakeNotifyChannel(s) \/ TakeActiveRoutes(s)
        \/ \E r \in Routes : WriteRoute(s, r) \/ ReadRoute(s, r) \/ ReadClosedRoute(s, r)
        \/ RoutesUpdated(s) \/ GiveUp(s)
    BY DEF RouteUserNext
  <1>1. sel[s] \in SelectorType /\ route \in [Routes -> [len : 0..TransportBufferSize, closed : BOOLEAN]]
    BY DEF RouteInv, RouteTypeOK
  <1>2. sel[s].at # "idle" => sel[s].state = "open"
    BY DEF RouteInv, IdleInv
  <1>3. CASE TakeNotifyChannel(s)
    <2> DEFINE x == [sel[s] EXCEPT !.at = "notify", !.notified = FALSE]
    <2>1. sel' = [sel EXCEPT ![s] = x]
      BY <1>3 DEF TakeNotifyChannel, RouteInv, RouteTypeOK
    <2>2. x \in SelectorType /\ x.state = "open" /\ x.routes = sel[s].routes /\ x.at = "notify"
          /\ x.state = sel[s].state
      BY <1>1, <1>3 DEF TakeNotifyChannel, SelectorType
    <2> HIDE DEF x
    <2> QED BY <1>1, <1>3, <2>1, <2>2, SelectorStep DEF TakeNotifyChannel
  <1>4. CASE TakeActiveRoutes(s)
    <2> DEFINE x == [sel[s] EXCEPT !.at = "wait", !.taken = sel[s].active]
    <2>1. sel' = [sel EXCEPT ![s] = x]
      BY <1>4 DEF TakeActiveRoutes, RouteInv, RouteTypeOK
    <2>2. x \in SelectorType /\ x.state = "open" /\ x.routes = sel[s].routes
          /\ x.active \subseteq x.taken /\ x.state = sel[s].state
      BY <1>1, <1>2, <1>4 DEF TakeActiveRoutes, SelectorType
    <2> HIDE DEF x
    <2> QED BY <1>1, <1>4, <2>1, <2>2, SelectorStep DEF TakeActiveRoutes
  <1>5. ASSUME sel[s].at = "wait" PROVE
          /\ Returned(sel[s]) \in SelectorType
          /\ Returned(sel[s]).state = sel[s].state /\ Returned(sel[s]).state = "open"
          /\ Returned(sel[s]).routes = sel[s].routes
          /\ Returned(sel[s]).at = "idle"
    BY <1>1, <1>2, <1>5 DEF Returned, SelectorType
  <1>6. ASSUME NEW r \in Routes, WriteRoute(s, r) PROVE RouteInv'
    <2>1. sel' = [sel EXCEPT ![s] = Returned(sel[s])]
      BY <1>6 DEF WriteRoute
    <2>2. route' \in [Routes -> [len : 0..TransportBufferSize, closed : BOOLEAN]]
      BY <1>1, <1>6, RouteAssumption DEF WriteRoute
    <2> QED BY <1>5, <1>6, <2>1, <2>2, SelectorStep DEF WriteRoute
  <1>7. ASSUME NEW r \in Routes, ReadRoute(s, r) PROVE RouteInv'
    <2>1. sel' = [sel EXCEPT ![s] = Returned(sel[s])]
      BY <1>7 DEF ReadRoute
    <2>2. route' \in [Routes -> [len : 0..TransportBufferSize, closed : BOOLEAN]]
      BY <1>1, <1>7, RouteAssumption DEF ReadRoute
    <2> QED BY <1>5, <1>7, <2>1, <2>2, SelectorStep DEF ReadRoute
  <1>8. ASSUME NEW r \in Routes, ReadClosedRoute(s, r) PROVE RouteInv'
    <2> DEFINE y == Returned(sel[s])
               x == [y EXCEPT !.at = "notify", !.active = sel[s].active \ {r}]
    <2>1. sel' = [sel EXCEPT ![s] = x]
      BY <1>8 DEF ReadClosedRoute
    <2>2. y \in SelectorType /\ y.state = "open" /\ y.routes = sel[s].routes /\ y.state = sel[s].state
      BY <1>5, <1>8 DEF ReadClosedRoute
    <2> HIDE DEF y
    <2>3. x \in SelectorType /\ x.state = "open" /\ x.routes = sel[s].routes /\ x.at = "notify"
          /\ x.state = sel[s].state
      BY <1>1, <2>2 DEF SelectorType
    <2> HIDE DEF x
    <2> QED BY <1>1, <1>8, <2>1, <2>3, SelectorStep DEF ReadClosedRoute
  <1>9. CASE RoutesUpdated(s)
    <2> DEFINE y == Returned(sel[s])
               x == [y EXCEPT !.at = "notify"]
    <2>1. sel' = [sel EXCEPT ![s] = x]
      BY <1>9 DEF RoutesUpdated
    <2>2. y \in SelectorType /\ y.state = "open" /\ y.routes = sel[s].routes /\ y.state = sel[s].state
      BY <1>5, <1>9 DEF RoutesUpdated
    <2> HIDE DEF y
    <2>3. x \in SelectorType /\ x.state = "open" /\ x.routes = sel[s].routes /\ x.at = "notify"
          /\ x.state = sel[s].state
      BY <2>2 DEF SelectorType
    <2> HIDE DEF x
    <2> QED BY <1>1, <1>9, <2>1, <2>3, SelectorStep DEF RoutesUpdated
  <1>10. CASE GiveUp(s)
    <2>1. sel' = [sel EXCEPT ![s] = Returned(sel[s])]
      BY <1>10 DEF GiveUp
    <2> QED BY <1>1, <1>5, <1>10, <2>1, SelectorStep DEF GiveUp
  <1> QED BY <1>3, <1>4, <1>6, <1>7, <1>8, <1>9, <1>10, OpenInv, CloseInv

-----------------------------------------------------------------------------
(* The inductive invariant of the platform transport.                      *)

\* The connect loop has a connection while it is in one, and those it has not
\* made yet are untouched.
MainInv ==
    /\ main.conn + left <= MaxConns
    /\ main.at \notin {"dial", "reconnect", "end"} => main.conn \in Conns
    /\ \A c \in Conns : c > main.conn => conn[c] = NoConn
    /\ main.at \in {"addSend", "addReceive"} => conn[main.conn] = [NoConn EXCEPT !.ws = "open"]

\* The gateway transports that are registered at each place of the loop.
RegisteredInv ==
    \A t \in DOMAIN transportRoutes \intersect (Conns \X Dirs) :
        \/ main.at = "addReceive" /\ t = SendOf(main.conn)
        \/ main.at = "up" /\ t \in {SendOf(main.conn), ReceiveOf(main.conn)}
        \/ main.at = "removeReceive" /\ t = ReceiveOf(main.conn)

\* The reader echoes what is to be echoed.
EchoInv == \A c \in Conns : conn[c].reader = "echo" => conn[c].message \in Echoed

\* SpeedTestFollows of one connection, in terms of the echoes under way.
Follows(sent, r, w) ==
    LET speeds == {i \in 1..Len(sent) : sent[i] \in {"speedStart", "speedStop"}}
    IN  /\ speeds = {} => r = w
        /\ \A i \in speeds : (\A j \in speeds : j <= i) => r = (sent[i] = "speedStart")

Sent(x) == IF x.reader = "echo" THEN Append(x.control, x.message) ELSE x.control

SpeedOK(x) ==
    x.reader \in {"read", "receive", "echo"} /\ x.writer = "run"
        => Follows(Sent(x), x.readerSpeedTest, x.writerSpeedTest)

SpeedInv == ~done => \A c \in Conns : SpeedOK(conn[c])

PlatformInv ==
    PlatformTypeOK /\ RouteInv /\ MainInv /\ RegisteredInv /\ EchoInv /\ SpeedInv

\* The reader has read a control and echoes it.
LEMMA FollowsAppend ==
    ASSUME NEW sent \in Seq(Echoed), NEW m \in Echoed, NEW r \in BOOLEAN, NEW w \in BOOLEAN,
           Follows(sent, r, w), NEW r2 \in BOOLEAN,
           m \in {"speedStart", "speedStop"} => r2 = (m = "speedStart"),
           m \notin {"speedStart", "speedStop"} => r2 = r
    PROVE  Follows(Append(sent, m), r2, w)
  <1> DEFINE s2 == Append(sent, m)
             n == Len(sent) + 1
             sp == {i \in 1..Len(sent) : sent[i] \in {"speedStart", "speedStop"}}
             sp2 == {i \in 1..Len(s2) : s2[i] \in {"speedStart", "speedStop"}}
  <1>1. /\ Len(s2) = n /\ s2[n] = m /\ Len(sent) \in Nat
        /\ \A i \in 1..Len(sent) : s2[i] = sent[i]
    OBVIOUS
  <1> SUFFICES /\ sp2 = {} => r2 = w
               /\ \A i \in sp2 : (\A j \in sp2 : j <= i) => r2 = (s2[i] = "speedStart")
    BY DEF Follows
  <1>2. CASE m \in {"speedStart", "speedStop"}
    <2>1. n \in sp2 /\ \A i \in sp2 : i <= n
      BY <1>1, <1>2
    <2> QED BY <1>1, <1>2, <2>1
  <1>3. CASE m \notin {"speedStart", "speedStop"}
    <2>1. sp2 = sp
      BY <1>1, <1>3
    <2>2. \A i \in sp : s2[i] = sent[i]
      BY <1>1
    <2> HIDE DEF sp, sp2, s2
    <2>3. /\ sp = {} => r = w
          /\ \A i \in sp : (\A j \in sp : j <= i) => r = (sent[i] = "speedStart")
      BY DEF Follows, sp
    <2> QED BY <1>3, <2>1, <2>2, <2>3
  <1> QED BY <1>2, <1>3

\* The writer has written the oldest echo.
LEMMA FollowsTail ==
    ASSUME NEW sent \in Seq(Echoed), sent # <<>>, NEW r \in BOOLEAN, NEW w \in BOOLEAN,
           Follows(sent, r, w)
    PROVE  Follows(Tail(sent), r, SpeedTestAfter(w, Head(sent)))
  <1> DEFINE s2 == Tail(sent)
             m == Head(sent)
             w2 == SpeedTestAfter(w, m)
             sp == {i \in 1..Len(sent) : sent[i] \in {"speedStart", "speedStop"}}
             sp2 == {i \in 1..Len(s2) : s2[i] \in {"speedStart", "speedStop"}}
  <1>1. /\ Len(sent) \in Nat \ {0} /\ Len(s2) = Len(sent) - 1 /\ m = sent[1] /\ m \in Echoed
        /\ \A i \in 1..Len(s2) : s2[i] = sent[i + 1]
    OBVIOUS
  <1> HIDE DEF s2, m
  <1>2. \A i \in sp : i = 1 \/ i - 1 \in sp2
    BY <1>1
  <1>3. \A i \in sp2 : i + 1 \in sp /\ s2[i] = sent[i + 1] /\ i \in Nat
    BY <1>1
  <1>4. 1 \in sp <=> m \in {"speedStart", "speedStop"}
    BY <1>1
  <1>5. \A i \in sp : i \in Nat
    OBVIOUS
  <1>6. /\ sp = {} => r = w
        /\ \A i \in sp : (\A j \in sp : j <= i) => r = (sent[i] = "speedStart")
    BY DEF Follows
  <1>7. /\ m \in {"speedStart", "speedStop"} => w2 = (m = "speedStart")
        /\ m \notin {"speedStart", "speedStop"} => w2 = w
    BY DEF SpeedTestAfter
  <1> SUFFICES /\ sp2 = {} => r = w2
               /\ \A i \in sp2 : (\A j \in sp2 : j <= i) => r = (s2[i] = "speedStart")
    BY DEF Follows, s2, m
  <1> HIDE DEF sp, sp2, w2
  <1>8. ASSUME sp2 = {} PROVE r = w2
    <2>1. CASE m \in {"speedStart", "speedStop"}
      <3>1. 1 \in sp /\ \A j \in sp : j <= 1
        BY <1>2, <1>4, <1>8, <2>1
      <3> QED BY <1>1, <1>6, <1>7, <2>1, <3>1
    <2>2. CASE m \notin {"speedStart", "speedStop"}
      <3>1. sp = {}
        BY <1>2, <1>4, <1>8, <2>2
      <3> QED BY <1>6, <1>7, <2>2, <3>1
    <2> QED BY <2>1, <2>2
  <1>9. ASSUME NEW i \in sp2, \A j \in sp2 : j <= i PROVE r = (s2[i] = "speedStart")
    <2>1. i + 1 \in sp /\ \A j \in sp : j <= i + 1
      BY <1>2, <1>3, <1>5, <1>9
    <2> QED BY <1>3, <1>6, <2>1
  <1> QED BY <1>8, <1>9

\* The property in these terms.
LEMMA SpeedTestIs ==
    ASSUME PlatformTypeOK
    PROVE  SpeedTestFollows <=> SpeedInv
  <1> DEFINE echoed(c) == conn[c].control \o IF conn[c].reader = "echo" THEN <<conn[c].message>> ELSE <<>>
  <1>1. ASSUME NEW c \in Conns
        PROVE  echoed(c) = Sent(conn[c])
    <2> DEFINE T == Echoed \union {"none", "frame"}
    <2>1. conn[c].control \in Seq(T) /\ conn[c].message \in T
      <3>1. conn[c].control \in Seq(Echoed) /\ conn[c].message \in T
        BY DEF PlatformTypeOK, ConnType
      <3> QED BY <3>1
    <2> HIDE DEF T
    <2>2. CASE conn[c].reader = "echo"
      BY <2>1, <2>2 DEF Sent
    <2>3. CASE conn[c].reader # "echo"
      BY <2>1, <2>3 DEF Sent
    <2> QED BY <2>2, <2>3
  <1>2. SpeedTestFollows <=>
          \A c \in Conns : conn[c].reader \in {"read", "receive", "echo"} /\ conn[c].writer = "run" /\ ~done
              => Follows(echoed(c), conn[c].readerSpeedTest, conn[c].writerSpeedTest)
    BY DEF SpeedTestFollows, Follows
  <1> HIDE DEF echoed
  <1> QED BY <1>1, <1>2, Zenon DEF SpeedInv, SpeedOK

-----------------------------------------------------------------------------
(* The steps of the platform transport.                                    *)

\* A connection that was not made.
LEMMA NoConnIs ==
    /\ NoConn \in ConnType
    /\ NoConn.drain = "none" /\ NoConn.writer = "none" /\ NoConn.reader = "none"
    /\ NoConn.readerSpeedTest = FALSE /\ NoConn.writerSpeedTest = FALSE
    /\ NoConn.control = <<>>
  BY DEF NoConn, ConnType

\* The gateway transports and their routes.
LEMMA Gateway ==
    ASSUME NEW c \in Conns
    PROVE  /\ SendOf(c) \in Transports /\ ReceiveOf(c) \in Transports
           /\ SendOf(c) \in Routes /\ ReceiveOf(c) \in Routes
  <1>1. SendOf(c) \in Conns \X Dirs /\ ReceiveOf(c) \in Conns \X Dirs
    BY DEF SendOf, ReceiveOf, Dirs
  <1> QED BY <1>1, PlatformAssumption

\* Steps that leave the connections and the registered transports alone.
LEMMA QuietStep ==
    ASSUME PlatformInv, RouteInv', UNCHANGED <<target, sends, left, main, conn, transportRoutes>>,
           mode' \in {target, "none"}, elected' \in BOOLEAN, available' \in BOOLEAN,
           done' \in BOOLEAN, done => done'
    PROVE  PlatformInv'
  <1> USE DEF PlatformInv
  <1>1. PlatformTypeOK'
    BY DEF PlatformTypeOK, RouteInv
  <1>2. MainInv' /\ RegisteredInv' /\ EchoInv'
    BY DEF MainInv, RegisteredInv, EchoInv
  <1>3. SpeedInv'
    BY DEF SpeedInv
  <1> QED BY <1>1, <1>2, <1>3

\* A step of a goroutine of connection c, which leaves it as x.
LEMMA ConnStep ==
    ASSUME PlatformInv, RouteInv', NEW c \in Conns, NEW x \in ConnType,
           \/ conn[c].drain # "none" \/ conn[c].writer # "none" \/ conn[c].reader # "none",
           conn' = [conn EXCEPT ![c] = x],
           Len(x.control) <= TransportBufferSize,
           x.reader = "echo" => x.message \in Echoed,
           ~done => SpeedOK(x),
           UNCHANGED <<target, sends, left, elected, mode, available, done, main, transportRoutes>>
    PROVE  PlatformInv'
  <1> USE DEF PlatformInv
  <1>1. \A d \in Conns : conn'[d] = IF d = c THEN x ELSE conn[d]
    BY DEF PlatformTypeOK
  <1>2. conn' \in [Conns -> ConnType]
    BY DEF PlatformTypeOK
  <1>3. PlatformTypeOK'
    BY <1>1, <1>2 DEF PlatformTypeOK, RouteInv
  <1>4. c <= main.conn /\ ~(main.at \in {"addSend", "addReceive"} /\ c = main.conn)
    <2>1. conn[c] # NoConn
      BY NoConnIs
    <2>2. main.conn \in 0..MaxConns /\ MaxConns \in Nat
      BY PlatformAssumption DEF PlatformTypeOK
    <2>3. c <= main.conn
      BY <2>1, <2>2 DEF MainInv, Conns
    <2>4. [NoConn EXCEPT !.ws = "open"].drain = "none" /\ [NoConn EXCEPT !.ws = "open"].writer = "none"
          /\ [NoConn EXCEPT !.ws = "open"].reader = "none"
      BY NoConnIs DEF ConnType
    <2> QED BY <2>3, <2>4 DEF MainInv
  <1>5. MainInv'
    <2>1. main.conn \in 0..MaxConns /\ main.conn \in Int /\ MaxConns \in Nat
      BY PlatformAssumption DEF PlatformTypeOK
    <2>2. \A d \in Conns : d > main.conn => conn'[d] = NoConn
      BY <1>1, <1>4, <2>1 DEF MainInv, Conns
    <2>3. main.at \in {"addSend", "addReceive"} => conn'[main.conn] = [NoConn EXCEPT !.ws = "open"]
      BY <1>1, <1>4 DEF MainInv
    <2> QED BY <2>2, <2>3 DEF MainInv
  <1>6. RegisteredInv'
    BY DEF RegisteredInv
  <1>7. EchoInv'
    BY <1>1 DEF EchoInv
  <1>8. SpeedInv'
    BY <1>1 DEF SpeedInv
  <1> QED BY <1>3, <1>5, <1>6, <1>7, <1>8

\* What is known of a connection before a step of its goroutines.
LEMMA ConnFacts ==
    ASSUME PlatformInv, NEW c \in Conns
    PROVE  /\ conn[c] \in ConnType /\ Len(conn[c].control) <= TransportBufferSize
           /\ conn[c].reader = "echo" => conn[c].message \in Echoed
           /\ ~done => SpeedOK(conn[c])
           /\ done \in BOOLEAN /\ sends \subseteq Messages
           /\ route \in [Routes -> [len : 0..TransportBufferSize, closed : BOOLEAN]]
  BY DEF PlatformInv, PlatformTypeOK, RouteTypeOK, EchoInv, SpeedInv

\* The drain goroutine.
LEMMA DrainInv ==
    ASSUME PlatformInv, NEW c \in Conns, DrainStart(c) \/ DrainTimeout(c) \/ DrainEnd(c)
    PROVE  PlatformInv'
  <1>1. PICK x : /\ conn' = [conn EXCEPT ![c] = x]
                 /\ \E dr \in {"start", "wait", "end"}, k \in BOOLEAN, ca \in BOOLEAN :
                       x = [conn[c] EXCEPT !.drain = dr, !.counted = k, !.cancelled = ca]
    <2>1. conn \in [Conns -> ConnType] /\ conn[c].counted \in BOOLEAN /\ conn[c].cancelled \in BOOLEAN
      BY DEF PlatformInv, PlatformTypeOK, ConnType
    <2>2. CASE DrainStart(c)
      <3>1. conn' = [conn EXCEPT ![c] = [conn[c] EXCEPT !.drain = "wait", !.counted = FALSE,
                                                       !.cancelled = conn[c].cancelled]]
        BY <2>1, <2>2 DEF DrainStart, ConnType
      <3> QED BY <2>1, <3>1
    <2>3. CASE DrainTimeout(c)
      <3>1. conn' = [conn EXCEPT ![c] = [conn[c] EXCEPT !.drain = "start", !.counted = FALSE,
                                                       !.cancelled = ~conn[c].counted]]
        BY <2>3 DEF DrainTimeout
      <3>2. (~conn[c].counted) \in BOOLEAN
        OBVIOUS
      <3> QED BY <3>1, <3>2
    <2>4. CASE DrainEnd(c)
      <3>1. conn' = [conn EXCEPT ![c] = [conn[c] EXCEPT !.drain = "end", !.counted = FALSE,
                                                       !.cancelled = TRUE]]
        BY <2>4 DEF DrainEnd
      <3> QED BY <3>1
    <2> QED BY <2>2, <2>3, <2>4
  <1>2. /\ UNCHANGED <<target, sends, left, elected, mode, available, done, main, routeVars>>
        /\ conn[c].drain # "none"
    BY DEF DrainStart, DrainTimeout, DrainEnd
  <1>3. /\ x \in ConnType /\ x.control = conn[c].control /\ x.reader = conn[c].reader
        /\ x.message = conn[c].message /\ x.writer = conn[c].writer
        /\ x.readerSpeedTest = conn[c].readerSpeedTest /\ x.writerSpeedTest = conn[c].writerSpeedTest
    BY <1>1, ConnFacts DEF ConnType
  <1>4. ~done => SpeedOK(x)
    BY <1>3, ConnFacts DEF SpeedOK, Sent
  <1>5. RouteInv'
    BY <1>2, RouteFrameInv, ConnFacts DEF routeVars, PlatformInv
  <1> QED BY <1>1, <1>2, <1>3, <1>4, <1>5, ConnFacts, ConnStep DEF routeVars

\* What a write to the connection does to the writer.
LEMMA WroteIs ==
    ASSUME NEW x \in ConnType, NEW fails \in BOOLEAN
    PROVE  LET y == Wrote(x, fails)
           IN  /\ y \in ConnType /\ y.control = x.control /\ y.reader = x.reader
               /\ y.message = x.message /\ y.readerSpeedTest = x.readerSpeedTest
               /\ y.writer = "run" => y.writerSpeedTest = x.writerSpeedTest /\ x.writer = "run"
  <1>1. CASE fails
    <2>1. Wrote(x, fails) = [x EXCEPT !.writer = "end", !.cancelled = TRUE, !.writerSpeedTest = FALSE]
      BY <1>1 DEF Wrote
    <2> QED BY <2>1 DEF ConnType
  <1>2. CASE ~fails
    <2> DEFINE k == x.counted \/ (target = "h1" /\ x.drain = "wait")
    <2>1. Wrote(x, fails) = [x EXCEPT !.counted = k] /\ k \in BOOLEAN
      BY <1>2 DEF Wrote, ConnType
    <2> HIDE DEF k
    <2> QED BY <2>1 DEF ConnType
  <1> QED BY <1>1, <1>2

\* The writer.
LEMMA WriterInv ==
    ASSUME PlatformInv, NEW c \in Conns, WriterSends(c) \/ WriterEchoes(c) \/ WriterEnds(c)
    PROVE  PlatformInv'
  <1>0. /\ conn[c].writer = "run" /\ WriteResults(c) \subseteq BOOLEAN
        /\ UNCHANGED <<target, sends, left, elected, mode, available, done, main,
                       transportRoutes, matched, known, sel>>
    BY DEF WriterSends, WriterEchoes, WriterEnds, WriteResults, routeVars
  <1>1. ASSUME NEW fails \in BOOLEAN, conn' = [conn EXCEPT ![c] = Wrote(conn[c], fails)], RouteInv'
        PROVE  PlatformInv'
    <2> DEFINE y == Wrote(conn[c], fails)
    <2>1. /\ y \in ConnType /\ y.control = conn[c].control /\ y.reader = conn[c].reader
          /\ y.message = conn[c].message /\ y.readerSpeedTest = conn[c].readerSpeedTest
          /\ y.writer = "run" => y.writerSpeedTest = conn[c].writerSpeedTest
      BY ConnFacts, WroteIs
    <2> HIDE DEF y
    <2>2. ~done => SpeedOK(y)
      BY <1>0, <2>1, ConnFacts DEF SpeedOK, Sent
    <2>3. conn' = [conn EXCEPT ![c] = y]
      BY <1>1 DEF y
    <2> QED BY <1>0, <1>1, <2>1, <2>2, <2>3, ConnFacts, ConnStep
  <1>2. CASE WriterSends(c)
    <2>1. route' \in [Routes -> [len : 0..TransportBufferSize, closed : BOOLEAN]]
      BY <1>2, ConnFacts, Gateway, RouteAssumption DEF WriterSends
    <2>2. RouteInv'
      BY <1>0, <2>1, RouteFrameInv DEF PlatformInv
    <2> QED BY <1>0, <1>1, <1>2, <2>2 DEF WriterSends
  <1>3. CASE WriterEnds(c)
    <2>1. RouteInv'
      BY <1>0, <1>3, RouteFrameInv, ConnFacts DEF WriterEnds, routeVars, PlatformInv
    <2> QED BY <1>1, <1>3, <2>1 DEF WriterEnds
  <1>4. CASE WriterEchoes(c)
    <2>1. RouteInv'
      BY <1>0, <1>4, RouteFrameInv, ConnFacts DEF WriterEchoes, routeVars, PlatformInv
    <2> DEFINE m == Head(conn[c].control)
               w == SpeedTestAfter(conn[c].writerSpeedTest, m)
               tl == Tail(conn[c].control)
               x == [conn[c] EXCEPT !.control = tl, !.writerSpeedTest = w]
    <2>2. PICK fails \in BOOLEAN : conn' = [conn EXCEPT ![c] = Wrote(x, fails)]
      BY <1>0, <1>4 DEF WriterEchoes
    <2>3. conn[c].control # <<>> /\ conn[c].control \in Seq(Echoed)
      BY <1>4, ConnFacts DEF WriterEchoes, ConnType
    <2>4. /\ w \in BOOLEAN /\ tl \in Seq(Echoed) /\ Len(tl) <= TransportBufferSize
      <3>1. tl \in Seq(Echoed) /\ Len(tl) = Len(conn[c].control) - 1 /\ Len(conn[c].control) \in Nat
        BY <2>3
      <3>2. w \in BOOLEAN
        BY ConnFacts DEF SpeedTestAfter, ConnType
      <3>3. Len(conn[c].control) <= TransportBufferSize
        BY ConnFacts
      <3> QED BY <3>1, <3>2, <3>3, RouteAssumption
    <2> HIDE DEF w, tl
    <2>5. /\ x \in ConnType /\ x.control = tl /\ x.writerSpeedTest = w /\ x.reader = conn[c].reader
          /\ x.writer = "run" /\ x.message = conn[c].message
          /\ x.readerSpeedTest = conn[c].readerSpeedTest
      BY <1>0, <2>4, ConnFacts DEF ConnType
    <2> DEFINE y == Wrote(x, fails)
    <2> HIDE DEF x
    <2>6. /\ y \in ConnType /\ y.control = tl /\ y.reader = conn[c].reader
          /\ y.message = conn[c].message /\ y.readerSpeedTest = conn[c].readerSpeedTest
          /\ y.writer = "run" => y.writerSpeedTest = w
      BY <2>5, WroteIs
    <2>7. ~done => SpeedOK(y)
      <3> SUFFICES ASSUME ~done, y.reader \in {"read", "receive", "echo"}, y.writer = "run"
                   PROVE  Follows(Sent(y), y.readerSpeedTest, w)
        BY <2>6 DEF SpeedOK
      <3>1. Follows(Sent(conn[c]), conn[c].readerSpeedTest, conn[c].writerSpeedTest)
        BY <1>0, <2>6, ConnFacts DEF SpeedOK
      <3>2. conn[c].readerSpeedTest \in BOOLEAN /\ conn[c].writerSpeedTest \in BOOLEAN
        BY ConnFacts DEF ConnType
      <3>3. CASE y.reader = "echo"
        <4>1. conn[c].message \in Echoed
          BY <2>6, <3>3, ConnFacts
        <4>2. /\ Sent(conn[c]) \in Seq(Echoed) /\ Sent(conn[c]) # <<>>
              /\ Head(Sent(conn[c])) = m /\ Tail(Sent(conn[c])) = Sent(y)
          BY <2>3, <2>6, <3>3, <4>1 DEF Sent, tl
        <4> QED BY <2>6, <3>1, <3>2, <4>2, FollowsTail DEF w
      <3>4. CASE y.reader # "echo"
        <4>2. /\ Sent(conn[c]) \in Seq(Echoed) /\ Sent(conn[c]) # <<>>
              /\ Head(Sent(conn[c])) = m /\ Tail(Sent(conn[c])) = Sent(y)
          BY <2>3, <2>6, <3>4 DEF Sent, tl
        <4> QED BY <2>6, <3>1, <3>2, <4>2, FollowsTail DEF w
      <3> QED BY <3>3, <3>4
    <2> HIDE DEF y
    <2>8. conn' = [conn EXCEPT ![c] = y]
      BY <2>2 DEF y
    <2> QED BY <1>0, <2>1, <2>4, <2>6, <2>7, <2>8, ConnFacts, ConnStep
  <1> QED BY <1>2, <1>3, <1>4

\* The reader.
LEMMA ReaderInv ==
    ASSUME PlatformInv, NEW c \in Conns,
           ReaderReads(c) \/ ReaderEchoes(c) \/ ReaderReceives(c) \/ ReaderDrops(c)
              \/ ReaderFails(c) \/ ReaderEnds(c)
    PROVE  PlatformInv'
  <1>0. /\ conn[c].reader # "none"
        /\ UNCHANGED <<target, sends, left, elected, mode, available, done, main,
                       transportRoutes, matched, known, sel>>
    BY DEF ReaderReads, ReaderEchoes, ReaderReceives, ReaderDrops, ReaderFails, ReaderEnds, routeVars
  <1>1. ASSUME route' = route PROVE RouteInv'
    BY <1>0, <1>1, RouteFrameInv, ConnFacts DEF PlatformInv
  <1> DEFINE old == conn[c]
  <1>2. old \in ConnType /\ conn \in [Conns -> ConnType]
    BY DEF PlatformInv, PlatformTypeOK
  <1>3. ASSUME NEW x \in ConnType, conn' = [conn EXCEPT ![c] = x], RouteInv',
               x.control = old.control, x.reader # "echo", old.reader # "echo",
               x.reader \in {"read", "receive"} => old.reader \in {"read", "receive"},
               x.writer = old.writer, x.writerSpeedTest = old.writerSpeedTest,
               x.readerSpeedTest = old.readerSpeedTest
        PROVE  PlatformInv'
    <2>1. ~done => SpeedOK(x)
      BY <1>3, ConnFacts DEF SpeedOK, Sent
    <2> QED BY <1>0, <1>3, <2>1, ConnFacts, ConnStep
  <1>4. CASE ReaderReads(c)
    <2>1. PICK m \in sends :
            LET speed == IF m \in {"speedStart", "speedStop"} THEN m = "speedStart"
                         ELSE old.readerSpeedTest
                kept == IF m = "ping" THEN "none"
                        ELSE IF m = "frame" /\ speed THEN "test" ELSE m
            IN  conn' = [conn EXCEPT ![c].reader = IF kept \in Echoed THEN "echo"
                                                   ELSE IF kept = "frame" THEN "receive" ELSE "read",
                                     ![c].message = kept,
                                     ![c].readerSpeedTest = speed,
                                     ![c].counted = @ \/ (target = "h1" /\ old.drain = "wait")]
      BY <1>4 DEF ReaderReads
    <2> DEFINE speed == IF m \in {"speedStart", "speedStop"} THEN m = "speedStart"
                        ELSE old.readerSpeedTest
               kept == IF m = "ping" THEN "none"
                       ELSE IF m = "frame" /\ speed THEN "test" ELSE m
               rd == IF kept \in Echoed THEN "echo"
                     ELSE IF kept = "frame" THEN "receive" ELSE "read"
               k == old.counted \/ (target = "h1" /\ old.drain = "wait")
               x == [old EXCEPT !.reader = rd, !.message = kept, !.readerSpeedTest = speed,
                                !.counted = k]
    <2>2. conn' = [conn EXCEPT ![c] = x]
      BY <2>1
    <2>3. m \in {"speedStart", "speedStop", "test", "frame", "ping"}
      BY ConnFacts DEF Messages
    <2>4. /\ speed \in BOOLEAN /\ k \in BOOLEAN
          /\ m \in {"speedStart", "speedStop"} => speed = (m = "speedStart")
          /\ m \notin {"speedStart", "speedStop"} => speed = old.readerSpeedTest
      BY <1>2 DEF ConnType
    <2> HIDE DEF speed
    <2>5. /\ kept \in Echoed \union {"none", "frame"}
          /\ m \in {"speedStart", "speedStop"} => kept = m
          /\ m \notin {"speedStart", "speedStop"} => kept \notin {"speedStart", "speedStop"}
      BY <2>3 DEF Echoed
    <2> HIDE DEF kept
    <2>6. rd \in {"read", "echo", "receive"} /\ (rd = "echo" <=> kept \in Echoed)
      OBVIOUS
    <2> HIDE DEF k, rd
    <2>7. /\ x \in ConnType /\ x.reader = rd /\ x.message = kept /\ x.readerSpeedTest = speed
          /\ x.control = old.control /\ x.writer = old.writer
          /\ x.writerSpeedTest = old.writerSpeedTest
      BY <1>2, <2>4, <2>5, <2>6 DEF ConnType
    <2>8. old.reader = "read"
      BY <1>4 DEF ReaderReads
    <2> HIDE DEF x, old
    <2>9. ~done => SpeedOK(x)
      <3> SUFFICES ASSUME ~done, old.writer = "run"
                   PROVE  Follows(Sent(x), speed, old.writerSpeedTest)
        BY <2>7 DEF SpeedOK
      <3>1. Follows(old.control, old.readerSpeedTest, old.writerSpeedTest)
        BY <2>8, ConnFacts DEF SpeedOK, Sent, old
      <3>2. CASE kept \in Echoed
        <4>1. Sent(x) = Append(old.control, kept)
          BY <2>6, <2>7, <3>2 DEF Sent
        <4>2. /\ kept \in {"speedStart", "speedStop"} => speed = (kept = "speedStart")
              /\ kept \notin {"speedStart", "speedStop"} => speed = old.readerSpeedTest
          BY <2>4, <2>5
        <4>3. old.control \in Seq(Echoed) /\ old.readerSpeedTest \in BOOLEAN
              /\ old.writerSpeedTest \in BOOLEAN
          BY <1>2 DEF ConnType
        <4> QED BY <2>4, <3>1, <3>2, <4>1, <4>2, <4>3, FollowsAppend
      <3>3. CASE kept \notin Echoed
        <4>1. Sent(x) = old.control
          BY <2>6, <2>7, <3>3 DEF Sent
        <4>2. m \notin {"speedStart", "speedStop"}
          BY <2>5, <3>3 DEF Echoed
        <4> QED BY <2>4, <3>1, <4>1, <4>2
      <3> QED BY <3>2, <3>3
    <2>10. RouteInv'
      BY <1>1, <1>4 DEF ReaderReads, routeVars
    <2>11. Len(x.control) <= TransportBufferSize /\ (x.reader = "echo" => x.message \in Echoed)
      BY <2>6, <2>7, ConnFacts DEF old
    <2> QED BY <1>0, <2>2, <2>7, <2>9, <2>10, <2>11, ConnStep
  <1>5. CASE ReaderEchoes(c)
    <2>1. RouteInv'
      BY <1>1, <1>5 DEF ReaderEchoes, routeVars
    <2>2. old.reader = "echo" /\ old.message \in Echoed /\ old.control \in Seq(Echoed)
      BY <1>2, <1>5, ConnFacts DEF ReaderEchoes, ConnType
    <2>3. CASE Len(old.control) < TransportBufferSize
               /\ conn' = [conn EXCEPT ![c].reader = "read", ![c].message = "none",
                                       ![c].control = Append(@, old.message)]
      <3> DEFINE ap == Append(old.control, old.message)
                 x == [old EXCEPT !.reader = "read", !.message = "none", !.control = ap]
      <3>1. conn' = [conn EXCEPT ![c] = x]
        BY <2>3
      <3>2. ap \in Seq(Echoed) /\ Len(ap) <= TransportBufferSize
        BY <2>2, <2>3, RouteAssumption
      <3>3. Sent(old) = ap
        BY <2>2 DEF Sent
      <3> HIDE DEF ap
      <3>4. /\ x \in ConnType /\ x.reader = "read" /\ x.control = ap /\ x.writer = old.writer
            /\ x.readerSpeedTest = old.readerSpeedTest /\ x.writerSpeedTest = old.writerSpeedTest
        BY <1>2, <3>2 DEF ConnType
      <3> HIDE DEF x
      <3>5. ~done => SpeedOK(x)
        BY <2>2, <3>3, <3>4, ConnFacts DEF SpeedOK, Sent
      <3> QED BY <1>0, <2>1, <3>1, <3>2, <3>4, <3>5, ConnStep
    <2>4. CASE done /\ conn' = [conn EXCEPT ![c].reader = "read", ![c].message = "none"]
      <3> DEFINE x == [old EXCEPT !.reader = "read", !.message = "none"]
      <3>1. conn' = [conn EXCEPT ![c] = x]
        BY <2>4
      <3>2. x \in ConnType /\ x.reader = "read" /\ x.control = old.control
        BY <1>2 DEF ConnType
      <3> HIDE DEF x
      <3> QED BY <1>0, <2>1, <2>4, <3>1, <3>2, ConnFacts, ConnStep
    <2> QED BY <1>5, <2>3, <2>4 DEF ReaderEchoes
  <1>6. CASE ReaderReceives(c)
    <2> DEFINE x == [old EXCEPT !.reader = "read", !.message = "none"]
    <2>1. conn' = [conn EXCEPT ![c] = x]
      BY <1>6 DEF ReaderReceives
    <2>2. route' \in [Routes -> [len : 0..TransportBufferSize, closed : BOOLEAN]]
      BY <1>6, ConnFacts, Gateway, RouteAssumption DEF ReaderReceives
    <2>3. RouteInv'
      BY <1>0, <2>2, RouteFrameInv DEF PlatformInv
    <2>4. /\ x \in ConnType /\ x.reader = "read" /\ x.control = old.control /\ x.writer = old.writer
          /\ x.readerSpeedTest = old.readerSpeedTest /\ x.writerSpeedTest = old.writerSpeedTest
      BY <1>2 DEF ConnType
    <2> HIDE DEF x
    <2> QED BY <1>3, <1>6, <2>1, <2>3, <2>4 DEF ReaderReceives
  <1>7. CASE ReaderDrops(c)
    <2> DEFINE rd == IF Done(c) THEN "close" ELSE "read"
               x == [old EXCEPT !.reader = rd, !.message = "none"]
    <2>1. conn' = [conn EXCEPT ![c] = x]
      BY <1>7 DEF ReaderDrops
    <2>2. RouteInv'
      BY <1>1, <1>7 DEF ReaderDrops, routeVars
    <2>3. rd \in {"close", "read"}
      OBVIOUS
    <2> HIDE DEF rd
    <2>4. /\ x \in ConnType /\ x.reader = rd /\ x.control = old.control /\ x.writer = old.writer
          /\ x.readerSpeedTest = old.readerSpeedTest /\ x.writerSpeedTest = old.writerSpeedTest
      BY <1>2, <2>3 DEF ConnType
    <2> HIDE DEF x
    <2> QED BY <1>3, <1>7, <2>1, <2>2, <2>3, <2>4 DEF ReaderDrops
  <1>8. CASE ReaderFails(c)
    <2> DEFINE x == [old EXCEPT !.reader = "close"]
    <2>1. conn' = [conn EXCEPT ![c] = x]
      BY <1>8 DEF ReaderFails
    <2>2. RouteInv'
      BY <1>1, <1>8 DEF ReaderFails, routeVars
    <2>4. /\ x \in ConnType /\ x.reader = "close" /\ x.control = old.control /\ x.writer = old.writer
          /\ x.readerSpeedTest = old.readerSpeedTest /\ x.writerSpeedTest = old.writerSpeedTest
      BY <1>2 DEF ConnType
    <2> HIDE DEF x
    <2> QED BY <1>3, <1>8, <2>1, <2>2, <2>4 DEF ReaderFails
  <1>9. CASE ReaderEnds(c)
    <2> DEFINE e == <<>>
               x == [old EXCEPT !.reader = "end", !.cancelled = TRUE, !.readerSpeedTest = FALSE,
                                !.control = e]
    <2>1. conn' = [conn EXCEPT ![c] = x]
      BY <1>9 DEF ReaderEnds
    <2>2. route' \in [Routes -> [len : 0..TransportBufferSize, closed : BOOLEAN]]
      BY <1>9, ConnFacts, Gateway, RouteAssumption DEF ReaderEnds
    <2>3. RouteInv'
      BY <1>0, <2>2, RouteFrameInv DEF PlatformInv
    <2>4. x \in ConnType /\ x.reader = "end" /\ Len(x.control) = 0
      <3>1. e \in Seq(Echoed) /\ Len(e) = 0
        OBVIOUS
      <3> HIDE DEF e
      <3> QED BY <1>2, <3>1 DEF ConnType
    <2> HIDE DEF x
    <2>5. SpeedOK(x) /\ 0 <= TransportBufferSize
      BY <2>4, RouteAssumption DEF SpeedOK
    <2> QED BY <1>0, <2>1, <2>3, <2>4, <2>5, ConnStep
  <1> QED BY <1>4, <1>5, <1>6, <1>7, <1>8, <1>9

\* A step of the connect loop that leaves the connections alone.
LEMMA MainStep ==
    ASSUME PlatformInv, RouteInv', NEW at,
           at \in {"dial", "addSend", "addReceive", "up", "removeReceive", "unavailable",
                   "reconnect", "end"},
           main' = [main EXCEPT !.at = at],
           at \notin {"dial", "reconnect", "end"} => main.at \notin {"dial", "reconnect", "end"},
           at \in {"addSend", "addReceive"} => main.at \in {"addSend", "addReceive"},
           UNCHANGED <<target, sends, left, elected, mode, available, done, conn>>,
           RegisteredInv'
    PROVE  PlatformInv'
  <1> USE DEF PlatformInv
  <1>1. main'.at = at /\ main'.conn = main.conn
    BY DEF PlatformTypeOK
  <1>2. PlatformTypeOK'
    BY DEF PlatformTypeOK, RouteInv
  <1>3. MainInv'
    BY <1>1 DEF MainInv
  <1>4. EchoInv' /\ SpeedInv'
    BY DEF EchoInv, SpeedInv
  <1> QED BY <1>2, <1>3, <1>4

\* The connect loop.
LEMMA MainNextInv ==
    ASSUME PlatformInv, MainNext
    PROVE  PlatformInv'
  <1>0. /\ main \in [at : {"dial", "addSend", "addReceive", "up", "removeReceive",
                           "unavailable", "reconnect", "end"}, conn : 0..MaxConns]
        /\ left \in 0..MaxConns /\ MaxConns \in Nat /\ conn \in [Conns -> ConnType]
        /\ route \in [Routes -> [len : 0..TransportBufferSize, closed : BOOLEAN]]
        /\ done \in BOOLEAN
    BY PlatformAssumption DEF PlatformInv, PlatformTypeOK, RouteTypeOK
  <1> DEFINE c == main.conn
  <1>1. main.at \notin {"dial", "reconnect", "end"} => c \in Conns
    BY DEF PlatformInv, MainInv
  <1>2. ASSUME UNCHANGED routeVars PROVE RouteInv'
    BY <1>0, <1>2, RouteFrameInv DEF routeVars, PlatformInv
  <1>3. CASE Dial
    <2> DEFINE n == c + 1
               x == [conn[n] EXCEPT !.ws = "open"]
    <2>1. /\ main.at = "dial" /\ main' = [at |-> "addSend", conn |-> n] /\ left' = left - 1
          /\ conn' = [conn EXCEPT ![n] = x] /\ left > 0
          /\ available' = TRUE /\ UNCHANGED <<target, sends, elected, mode, done, routeVars>>
      BY <1>3 DEF Dial
    <2>2. n \in Conns /\ n > c /\ c \in 0..MaxConns
      BY <1>0, <2>1 DEF PlatformInv, MainInv, Conns
    <2>3. conn[n] = NoConn
      BY <2>2 DEF PlatformInv, MainInv
    <2>4. /\ x \in ConnType /\ x.control = <<>> /\ x.reader = "none"
          /\ x = [NoConn EXCEPT !.ws = "open"]
      BY <2>3, NoConnIs DEF ConnType
    <2> HIDE DEF x
    <2>5. \A d \in Conns : conn'[d] = IF d = n THEN x ELSE conn[d]
      BY <1>0, <2>1
    <2>6. conn' \in [Conns -> ConnType]
      BY <1>0, <2>1, <2>4
    <2>7. \A d \in Conns : Len(conn'[d].control) <= TransportBufferSize
      <3>1. Len(x.control) <= TransportBufferSize
        BY <2>4, RouteAssumption
      <3>2. \A d \in Conns : Len(conn[d].control) <= TransportBufferSize
        BY DEF PlatformInv, PlatformTypeOK
      <3> QED BY <2>5, <3>1, <3>2
    <2>8. RouteInv'
      BY <1>2, <2>1
    <2>9. PlatformTypeOK'
      <3>1. n \in 0..MaxConns /\ left - 1 \in 0..MaxConns
        BY <1>0, <2>1, <2>2 DEF Conns
      <3> QED BY <1>0, <2>1, <2>6, <2>7, <2>8, <3>1 DEF PlatformInv, PlatformTypeOK, RouteInv
    <2>10. MainInv'
      <3>1. \A d \in Conns : d > n => conn'[d] = NoConn
        BY <1>0, <2>2, <2>5 DEF PlatformInv, MainInv, Conns
      <3>2. conn'[n] = [NoConn EXCEPT !.ws = "open"]
        BY <2>2, <2>4, <2>5
      <3>3. n + (left - 1) <= MaxConns
        BY <1>0 DEF PlatformInv, MainInv
      <3>4. main'.conn = n /\ main'.at = "addSend"
        BY <2>1
      <3> QED BY <2>1, <2>2, <3>1, <3>2, <3>3, <3>4 DEF MainInv
    <2>11. RegisteredInv'
      BY <2>1 DEF PlatformInv, RegisteredInv, routeVars
    <2>12. EchoInv'
      BY <2>4, <2>5 DEF PlatformInv, EchoInv
    <2>13. SpeedInv'
      BY <2>1, <2>4, <2>5 DEF PlatformInv, SpeedInv, SpeedOK
    <2> QED BY <2>8, <2>9, <2>10, <2>11, <2>12, <2>13 DEF PlatformInv
  <1>4. CASE DialFails
    <2>1. PICK at \in {"end", "reconnect"} : main' = [main EXCEPT !.at = at]
      BY <1>4 DEF DialFails
    <2>2. RouteInv'
      BY <1>2, <1>4 DEF DialFails
    <2>3. RegisteredInv'
      BY <1>4 DEF DialFails, PlatformInv, RegisteredInv, routeVars
    <2> QED BY <1>4, <2>1, <2>2, <2>3, MainStep DEF DialFails
  <1>5. CASE AddSend
    <2>1. c \in Conns
      BY <1>1, <1>5 DEF AddSend
    <2>2. UpdateTransport(SendOf(c), {SendOf(c)}) /\ main' = [main EXCEPT !.at = "addReceive"]
      BY <1>5 DEF AddSend
    <2>3. SendOf(c) \in Transports /\ {SendOf(c)} \in SUBSET Routes
      BY <2>1, Gateway
    <2>4. RouteInv'
      <3>1. PICK rs \in SUBSET Routes : rs = {SendOf(c)}
        BY <2>3
      <3>2. UpdateTransport(SendOf(c), rs)
        BY <2>2, <3>1
      <3> QED BY <2>3, <3>2, UpdateInv DEF PlatformInv
    <2>5. RegisteredInv'
      <3>1. DOMAIN transportRoutes' = DOMAIN transportRoutes \union {SendOf(c)}
        BY <2>2 DEF UpdateTransport, With
      <3>2. main'.at = "addReceive" /\ main'.conn = c
        BY <1>0, <2>2
      <3> QED BY <1>5, <3>1, <3>2 DEF PlatformInv, RegisteredInv, AddSend
    <2> QED BY <1>5, <2>2, <2>4, <2>5, MainStep DEF AddSend
  <1>6. CASE AddReceive
    <2>1. c \in Conns
      BY <1>1, <1>6 DEF AddReceive
    <2> DEFINE x == [conn[c] EXCEPT !.drain = "start", !.writer = "run", !.reader = "read"]
    <2>2. /\ UpdateTransport(ReceiveOf(c), {ReceiveOf(c)}) /\ main' = [main EXCEPT !.at = "up"]
          /\ conn' = [conn EXCEPT ![c] = x] /\ main.at = "addReceive"
          /\ UNCHANGED <<target, sends, left, elected, mode, available, done>>
      BY <1>6 DEF AddReceive
    <2>3. ReceiveOf(c) \in Transports /\ {ReceiveOf(c)} \in SUBSET Routes
      BY <2>1, Gateway
    <2>4. RouteInv'
      <3>1. PICK rs \in SUBSET Routes : rs = {ReceiveOf(c)}
        BY <2>3
      <3>2. UpdateTransport(ReceiveOf(c), rs)
        BY <2>2, <3>1
      <3> QED BY <2>3, <3>2, UpdateInv DEF PlatformInv
    <2>5. main'.at = "up" /\ main'.conn = c
      BY <1>0, <2>2
    <2>6. RegisteredInv'
      <3>1. DOMAIN transportRoutes' = DOMAIN transportRoutes \union {ReceiveOf(c)}
        BY <2>2 DEF UpdateTransport, With
      <3> QED BY <2>2, <2>5, <3>1 DEF PlatformInv, RegisteredInv
    <2>7. conn[c] = [NoConn EXCEPT !.ws = "open"]
      BY <2>2 DEF PlatformInv, MainInv
    <2>8. /\ conn[c].control = <<>> /\ conn[c].readerSpeedTest = FALSE
          /\ conn[c].writerSpeedTest = FALSE /\ conn[c] \in ConnType
      BY <2>7, NoConnIs DEF ConnType
    <2>9. /\ x \in ConnType /\ x.control = <<>> /\ x.reader = "read"
          /\ x.readerSpeedTest = FALSE /\ x.writerSpeedTest = FALSE
      BY <2>8 DEF ConnType
    <2> HIDE DEF x
    <2>10. \A d \in Conns : conn'[d] = IF d = c THEN x ELSE conn[d]
      BY <1>0, <2>2
    <2>11. conn' \in [Conns -> ConnType]
      BY <1>0, <2>1, <2>2, <2>9
    <2>12. \A d \in Conns : Len(conn'[d].control) <= TransportBufferSize
      BY <2>9, <2>10, RouteAssumption DEF PlatformInv, PlatformTypeOK
    <2>13. PlatformTypeOK'
      BY <1>0, <2>2, <2>4, <2>11, <2>12 DEF PlatformInv, PlatformTypeOK, RouteInv
    <2>14. MainInv'
      <3>1. \A d \in Conns : d > c => conn'[d] = NoConn
        BY <1>0, <2>1, <2>10 DEF PlatformInv, MainInv, Conns
      <3> QED BY <2>1, <2>2, <2>5, <3>1 DEF PlatformInv, MainInv
    <2>15. EchoInv'
      BY <2>9, <2>10 DEF PlatformInv, EchoInv
    <2>16. SpeedOK(x)
      <3>1. Follows(<<>>, FALSE, FALSE)
        BY DEF Follows
      <3>2. Sent(x) = <<>>
        BY <2>9 DEF Sent
      <3> QED BY <2>9, <3>1, <3>2 DEF SpeedOK
    <2>17. SpeedInv'
      BY <2>2, <2>10, <2>16 DEF PlatformInv, SpeedInv
    <2> QED BY <2>4, <2>6, <2>13, <2>14, <2>15, <2>17 DEF PlatformInv
  <1>7. CASE RemoveSend
    <2>1. c \in Conns /\ RemoveTransport(SendOf(c)) /\ main' = [main EXCEPT !.at = "removeReceive"]
      BY <1>1, <1>7 DEF RemoveSend
    <2>2. RouteInv'
      BY <2>1, Gateway, RemoveInv DEF PlatformInv
    <2>3. RegisteredInv'
      <3>1. DOMAIN transportRoutes' = DOMAIN transportRoutes \ {SendOf(c)}
        BY <2>1 DEF RemoveTransport, Without
      <3>2. main'.at = "removeReceive" /\ main'.conn = c
        BY <1>0, <2>1
      <3> QED BY <1>7, <3>1, <3>2 DEF PlatformInv, RegisteredInv, RemoveSend
    <2> QED BY <1>7, <2>1, <2>2, <2>3, MainStep DEF RemoveSend
  <1>8. CASE RemoveReceive
    <2>1. c \in Conns /\ RemoveTransport(ReceiveOf(c)) /\ main' = [main EXCEPT !.at = "unavailable"]
      BY <1>1, <1>8 DEF RemoveReceive
    <2>2. RouteInv'
      BY <2>1, Gateway, RemoveInv DEF PlatformInv
    <2>3. RegisteredInv'
      <3>1. DOMAIN transportRoutes' = DOMAIN transportRoutes \ {ReceiveOf(c)}
        BY <2>1 DEF RemoveTransport, Without
      <3> QED BY <1>8, <3>1 DEF PlatformInv, RegisteredInv, RemoveReceive
    <2> QED BY <1>8, <2>1, <2>2, <2>3, MainStep DEF RemoveReceive
  <1>9. CASE Disconnect
    <2>1. c \in Conns
      BY <1>1, <1>9 DEF Disconnect
    <2> DEFINE x == [conn[c] EXCEPT !.cancelled = TRUE, !.ws = "closed"]
    <2>2. /\ main' = [main EXCEPT !.at = "reconnect"] /\ main.at = "unavailable"
          /\ conn' = [conn EXCEPT ![c] = x] /\ available' = FALSE
          /\ UNCHANGED <<target, sends, left, elected, mode, done, routeVars>>
      BY <1>9 DEF Disconnect
    <2>3. /\ x \in ConnType /\ x.control = conn[c].control /\ x.reader = conn[c].reader
          /\ x.message = conn[c].message /\ x.writer = conn[c].writer
          /\ x.readerSpeedTest = conn[c].readerSpeedTest
          /\ x.writerSpeedTest = conn[c].writerSpeedTest
      <3>1. conn[c] \in ConnType
        BY <1>0, <2>1
      <3> QED BY <3>1 DEF ConnType
    <2> HIDE DEF x
    <2>4. \A d \in Conns : conn'[d] = IF d = c THEN x ELSE conn[d]
      BY <1>0, <2>2
    <2>5. conn' \in [Conns -> ConnType]
      BY <1>0, <2>1, <2>2, <2>3
    <2>6. main'.at = "reconnect" /\ main'.conn = c
      BY <1>0, <2>2
    <2>7. RouteInv'
      BY <1>2, <2>2
    <2>8. \A d \in Conns : Len(conn'[d].control) <= TransportBufferSize
      BY <2>3, <2>4 DEF PlatformInv, PlatformTypeOK
    <2>9. PlatformTypeOK'
      BY <1>0, <2>2, <2>5, <2>7, <2>8 DEF PlatformInv, PlatformTypeOK, RouteInv
    <2>10. MainInv'
      <3>1. \A d \in Conns : d > c => conn'[d] = NoConn
        BY <1>0, <2>1, <2>4 DEF PlatformInv, MainInv, Conns
      <3> QED BY <2>2, <2>6, <3>1 DEF PlatformInv, MainInv
    <2>11. RegisteredInv'
      BY <2>2 DEF PlatformInv, RegisteredInv, routeVars
    <2>12. EchoInv'
      BY <2>1, <2>3, <2>4 DEF PlatformInv, EchoInv
    <2>13. SpeedInv'
      BY <2>1, <2>2, <2>3, <2>4 DEF PlatformInv, SpeedInv, SpeedOK, Sent
    <2> QED BY <2>7, <2>9, <2>10, <2>11, <2>12, <2>13 DEF PlatformInv
  <1>10. CASE Reconnect
    <2>1. PICK at \in {"end", "dial"} : main' = [main EXCEPT !.at = at]
      BY <1>10 DEF Reconnect
    <2>2. RouteInv'
      BY <1>2, <1>10 DEF Reconnect
    <2>3. RegisteredInv'
      BY <1>10 DEF Reconnect, PlatformInv, RegisteredInv, routeVars
    <2> QED BY <1>10, <2>1, <2>2, <2>3, MainStep DEF Reconnect
  <1> QED BY <1>3, <1>4, <1>5, <1>6, <1>7, <1>8, <1>9, <1>10 DEF MainNext

-----------------------------------------------------------------------------
\* The initial states satisfy the invariant.
LEMMA PlatformInitInv == PlatformInit => PlatformInv
  <1> SUFFICES ASSUME PlatformInit PROVE PlatformInv
    OBVIOUS
  <1>1. PICK x \in Settings : RouteInit(x.users) /\ target = x.mode /\ sends = x.sends /\ left = x.conns
    BY DEF PlatformInit
  <1>2. RouteInv
    BY <1>1, RouteInitInv
  <1>3. /\ elected = FALSE /\ mode = "none" /\ available = FALSE /\ done = FALSE
        /\ main = [at |-> "dial", conn |-> 0] /\ conn = [c \in Conns |-> NoConn]
    BY DEF PlatformInit
  <1>4. /\ target \in {"h1", "h3"} /\ sends \subseteq Messages /\ left \in 1..MaxConns
        /\ MaxConns \in Nat
    BY <1>1, PlatformAssumption DEF Messages
  <1>5. conn \in [Conns -> ConnType] /\ \A c \in Conns : Len(conn[c].control) <= TransportBufferSize
    BY <1>3, NoConnIs, RouteAssumption
  <1>6. PlatformTypeOK
    <2>1. left \in 0..MaxConns /\ 0 \in 0..MaxConns
      BY <1>4
    <2> QED BY <1>2, <1>3, <1>4, <1>5, <2>1 DEF PlatformTypeOK, RouteInv
  <1>7. MainInv /\ EchoInv /\ SpeedInv
    BY <1>3, <1>4, NoConnIs DEF MainInv, EchoInv, SpeedInv, SpeedOK
  <1>8. RegisteredInv
    BY <1>1 DEF RouteInit, RegisteredInv
  <1> QED BY <1>2, <1>6, <1>7, <1>8 DEF PlatformInv

\* Every step preserves it.
LEMMA PlatformNextInv == PlatformInv /\ [PlatformNext]_transportVars => PlatformInv'
  <1> SUFFICES ASSUME PlatformInv, [PlatformNext]_transportVars PROVE PlatformInv'
    OBVIOUS
  <1>1. /\ route \in [Routes -> [len : 0..TransportBufferSize, closed : BOOLEAN]]
        /\ mode \in {target, "none"} /\ elected \in BOOLEAN /\ available \in BOOLEAN
        /\ done \in BOOLEAN /\ RouteInv
    BY DEF PlatformInv, PlatformTypeOK, RouteTypeOK
  <1>2. ASSUME UNCHANGED routeVars PROVE RouteInv'
    BY <1>1, <1>2, RouteFrameInv DEF routeVars
  <1>3. CASE Elect
    BY <1>1, <1>2, <1>3, QuietStep DEF Elect, routeVars
  <1>4. CASE Close
    BY <1>1, <1>2, <1>4, QuietStep DEF Close, routeVars
  <1>5. CASE MainNext
    BY <1>5, MainNextInv
  <1>6. ASSUME NEW c \in Conns, ConnNext(c) PROVE PlatformInv'
    BY <1>6, DrainInv, WriterInv, ReaderInv DEF ConnNext
  <1>7. CASE RouteUserNext /\ UNCHANGED platformVars
    <2>1. RouteInv'
      BY <1>1, <1>7, RouteUserInv
    <2>2. UNCHANGED transportRoutes
      BY <1>7 DEF RouteUserNext, OpenMultiRouteSelector, CloseMultiRouteSelector, TakeNotifyChannel,
         TakeActiveRoutes, WriteRoute, ReadRoute, ReadClosedRoute, RoutesUpdated, GiveUp
    <2> QED BY <1>1, <1>7, <2>1, <2>2, QuietStep DEF platformVars
  <1>8. CASE UNCHANGED transportVars
    <2>1. RouteInv'
      BY <1>2, <1>8 DEF transportVars
    <2> QED BY <1>1, <1>8, <2>1, QuietStep DEF transportVars, platformVars, routeVars
  <1> QED BY <1>3, <1>4, <1>5, <1>6, <1>7, <1>8 DEF PlatformNext

\* The invariant holds in every reachable state.
THEOREM Invariance == PlatformSpec => []PlatformInv
  BY PlatformInitInv, PlatformNextInv, PTL DEF PlatformSpec

\* The state of the route manager, the connect loop and the goroutines of
\* every connection is well typed.
THEOREM TypeCorrect == PlatformSpec => []PlatformTypeOK
  <1>1. PlatformInv => PlatformTypeOK
    BY DEF PlatformInv
  <1> QED BY <1>1, Invariance, PTL

\* An open selector has exactly the routes of the transports that match it,
\* and no lookup of openMultiRouteSelector meets a transport without an entry.
THEOREM SelectorsFollowTransports == PlatformSpec => []SelectorsAreCurrent
  <1>1. PlatformInv => SelectorsAreCurrent
    BY DEF PlatformInv, RouteInv
  <1> QED BY <1>1, Invariance, PTL

\* Nobody waits in Write or Read on a list of routes that is out of date
\* without having been woken.
THEOREM NoUpdateIsMissed == PlatformSpec => []NoMissedUpdate
  <1>1. PlatformInv => NoMissedUpdate
    BY DEF PlatformInv, RouteInv
  <1> QED BY <1>1, Invariance, PTL

\* The platform transport leaves no route of an earlier connection behind.
THEOREM OnlyCurrentRoutes == PlatformSpec => []RoutesOfCurrentConn
  <1>1. PlatformInv => RoutesOfCurrentConn
    BY DEF PlatformInv, RegisteredInv, RoutesOfCurrentConn, SendOf, ReceiveOf
  <1> QED BY <1>1, Invariance, PTL

\* The speed test flag of the writer is the one of the reader, delayed by the
\* echoes under way, so no writer stays in a speed test that was stopped.
THEOREM WriterFollowsReader == PlatformSpec => []SpeedTestFollows
  <1>1. PlatformInv => SpeedTestFollows
    BY SpeedTestIs DEF PlatformInv
  <1> QED BY <1>1, Invariance, PTL
=============================================================================
