---------------------------- MODULE FrameChannel ----------------------------
(***************************************************************************)
(* What a transfer sequence promises to the two applications: frames are   *)
(* numbered in order of send, each becomes received after all frames       *)
(* before it, the sender learns of received frames as a growing prefix,    *)
(* and what it has not learned of when the sequence ends is reported as    *)
(* failed, once.  How often a frame is handed over is not part of it.      *)
(***************************************************************************)
EXTENDS Integers

CONSTANT Frames

VARIABLES open, sent, received, acked, failed

vars == <<open, sent, received, acked, failed>>

Init ==
    /\ open = TRUE /\ sent = 0
    /\ received = {} /\ acked = {} /\ failed = {}

Send ==
    /\ open
    /\ sent \in Frames
    /\ sent' = sent + 1
    /\ UNCHANGED <<open, received, acked, failed>>

\* The next frame in order becomes received, also after the sender is gone.
Receive ==
    /\ \E i \in 0 .. sent - 1 :
          /\ i \notin received
          /\ 0 .. i - 1 \subseteq received
          /\ received' = received \cup {i}
    /\ UNCHANGED <<open, sent, acked, failed>>

\* The sender is notified of all received frames up to one of them.
Notify ==
    /\ open
    /\ \E i \in received :
          /\ 0 .. i \subseteq received
          /\ acked' = acked \cup 0 .. i
    /\ UNCHANGED <<open, sent, received, failed>>

Close ==
    /\ open
    /\ open' = FALSE
    /\ failed' = (0 .. sent - 1) \ acked
    /\ UNCHANGED <<sent, received, acked>>

Next == Send \/ Receive \/ Notify \/ Close

Spec == Init /\ [][Next]_vars
=============================================================================
