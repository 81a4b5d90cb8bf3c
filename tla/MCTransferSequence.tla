------------------------- MODULE MCTransferSequence -------------------------
(* Instances of TransferSequence for TLC. *)
EXTENDS TransferSequence

\* One frame size: only the number of frames matters.
OneByteEach == [i \in Frames |-> 1]

\* An empty frame, a small one and large ones: together they exceed the
\* receive queue, and the first three reach the limit of the resend queue.
LaterAreLarge == [i \in Frames |-> CASE i = 0 -> 0 [] i = 1 -> 1 [] i > 1 -> 2]
=============================================================================
