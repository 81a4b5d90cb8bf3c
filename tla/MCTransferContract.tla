------------------------- MODULE MCTransferContract -------------------------
(* TransferContract for TLC: constants that are sets or functions.         *)
EXTENDS TransferContract

SmallAndLarge == {0, 2}      \* counted as 1 and 2
TooSmallAndRoomy == {2, 8}   \* the sender fills 1 and 4

\* A longer sequence whose receiver keeps one contract open; a shorter one
\* whose nacks fail and whose sides stop requiring contracts.
LongAndTroubled ==
    {[maxItems |-> 5, maxOpenReceiveContract |-> 1,
      nackWriteFails |-> FALSE, peerConfigChanges |-> FALSE],
     [maxItems |-> 3, maxOpenReceiveContract |-> 2,
      nackWriteFails |-> TRUE, peerConfigChanges |-> TRUE]}
=============================================================================
