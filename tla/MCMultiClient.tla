--------------------------- MODULE MCMultiClient ---------------------------
(***************************************************************************)
(* Instances of MultiClient: two calls on one path with two clients that   *)
(* stay and room for a second race; idle paths with calls that wait, or    *)
(* with responses; one call while both clients may be removed; two calls   *)
(* while the one client is replaced by the other; three calls on one path; *)
(* two paths of one destination.                                           *)
(***************************************************************************)
EXTENDS MultiClient, TLC

CONSTANTS c1, c2, s1, s2, s3, p1, p2

Scenario(sends, window, changes, us, rs, responses) ==
    [sends |-> sends, window |-> window,
     left |-> [changes |-> changes, updates |-> us, races |-> rs, responses |-> responses]]

OnePath == s1 :> p1 @@ s2 :> p1
ThreeCalls == s1 :> p1 @@ s2 :> p1 @@ s3 :> p1
TwoPaths == s1 :> p1 @@ s2 :> p2

FewScenarios ==
    {Scenario(OnePath, {c1, c2}, 0, 1, 2, 2),
     Scenario(OnePath, {c1, c2}, 0, 2, 1, 0),
     Scenario(OnePath, {c1}, 0, 2, 0, 1),
     Scenario(s1 :> p1, {c1, c2}, 0, 2, 1, 2),
     Scenario(s1 :> p1, {c1, c2}, 3, 1, 1, 2),
     Scenario(OnePath, {c1}, 3, 1, 0, 2),
     Scenario(ThreeCalls, {c1}, 0, 1, 0, 0),
     Scenario(TwoPaths, {c1}, 1, 2, 0, 1)}

Symmetry == Permutations(Clients) \cup Permutations(Senders)
=============================================================================
