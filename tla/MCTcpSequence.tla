--------------------------- MODULE MCTcpSequence ---------------------------
(***************************************************************************)
(* Instances of TcpSequence: a peer that only sends, with numbers that     *)
(* wrap; a remote that only sends, to a window that closes and opens; the  *)
(* same with numbers that wrap; and both at once.                          *)
(***************************************************************************)
EXTENDS TcpSequence

Scenario(isn, peerBytes, remoteBytes, windows) ==
    [isn |-> isn, peerBytes |-> peerBytes, remoteBytes |-> remoteBytes, windows |-> windows]

FewScenarios ==
    {Scenario(6, 3, 0, {2}), Scenario(0, 0, 3, {0, 2}), Scenario(6, 0, 2, {2}),
     Scenario(0, 1, 1, {2})}
=============================================================================
