------------------------- MODULE SequenceAckWindow -------------------------
(***************************************************************************)
(* The window that both ends of a transfer sequence use to compress acks   *)
(* (sequenceAckWindow in transfer.go).  The writer of the window calls     *)
(* Update for every ack; the reader takes a Snapshot with reset, which     *)
(* keeps the head ack in place.  A message is named by its sequence        *)
(* number: the message id of the code is unique to the frame.              *)
(***************************************************************************)
EXTENDS Integers

\* The windows over a set S of sequence numbers.
AckWindows(S) ==
    [head : S \cup {-1}, updated : BOOLEAN, selective : SUBSET S]

\* newSequenceAckWindow: a head of -1 stands for the nil head ack, and
\* updated for 0 < ackUpdateCount, the only use made of the count.
NewWindow == [head |-> -1, updated |-> FALSE, selective |-> {}]

\* Fault: a selective ack moves the head.
UpdateIgnoringKind(w, seq, sel) ==
    IF w.head < seq THEN [w EXCEPT !.head = seq, !.updated = TRUE]
                    ELSE [w EXCEPT !.updated = TRUE]

\* Fault: a selective ack counts as an update of the head.
UpdateCountingSelective(w, seq, sel) ==
    IF sel /\ w.head < seq
    THEN [w EXCEPT !.selective = @ \cup {seq}, !.updated = TRUE]
    ELSE [w EXCEPT !.head = IF @ < seq THEN seq ELSE @, !.updated = TRUE]

\* Fault: an ack at or before the head is ignored.
UpdateOnlyNew(w, seq, sel) ==
    IF w.head < seq
    THEN IF sel THEN [w EXCEPT !.selective = @ \cup {seq}]
                ELSE [w EXCEPT !.head = seq, !.updated = TRUE]
    ELSE w

\* Update: an ack past the head is recorded, one at or before the head asks
\* for the head to be acked again, whatever its own kind is.
Update(w, seq, sel) ==
    IF w.head < seq
    THEN IF sel THEN [w EXCEPT !.selective = @ \cup {seq}]
                ELSE [w EXCEPT !.head = seq, !.updated = TRUE]
    ELSE [w EXCEPT !.updated = TRUE]

\* The selective acks of Snapshot: those past the head when the head is
\* part of the snapshot, all of them otherwise.
SnapshotSelective(w) ==
    IF w.updated THEN {s \in w.selective : w.head < s} ELSE w.selective

\* Snapshot(true) leaves the head in place and forgets the rest.
Reset(w) == [w EXCEPT !.updated = FALSE, !.selective = {}]

\* A snapshot with nothing to report.
NothingToReport(w) == ~w.updated /\ w.selective = {}
=============================================================================
