---------------------------- MODULE MessagePool ----------------------------
(***************************************************************************)
(* One pool of reference counted message buffers (message_pool.go).        *)
(*                                                                         *)
(* Every critical section of stateLock is one step.  MessagePoolGet has    *)
(* two of them: Get pops or makes a buffer, Taken gives it the count 1.    *)
(* MessagePoolReturn has two: the count is looked at, and, if it is the    *)
(* last reference, the buffer is reset and put back.  Between the two the  *)
(* buffer is in returning with its count still 1.  The contents, tags and  *)
(* statistics are left out.  A buffer that nobody has and that is not in   *)
(* the pool is garbage, and its name stands for the next one to be made.   *)
(***************************************************************************)
EXTENDS Naturals, Sequences, FiniteSets

LOCAL INSTANCE SequencesExt

CONSTANTS
    Buffers,
    CountBits,    \* width of the count in a buffer, 16 in the code
    PoolSizes     \* capacities that Resize may give the pool

ASSUME PoolBounds == IsFiniteSet(Buffers) /\ CountBits \in Nat \ {0} /\ PoolSizes \subseteq Nat

VARIABLES
    pool,       \* the free buffers, used as a stack
    maxCount,   \* the capacity of the pool
    count,      \* the count in each buffer
    made,       \* the buffers that are not garbage
    returning   \* how many Returns of a buffer found the last reference

poolVars == <<pool, maxCount, count, made, returning>>

PoolInit ==
    /\ pool = <<>>
    /\ maxCount \in PoolSizes
    /\ count = [b \in Buffers |-> 0]
    /\ made = {}
    /\ returning = [b \in Buffers |-> 0]

\* Fault: the count of the pool is not lowered.
PoppedNothing(s) == s

Popped(s) == Front(s)

\* messagePool.Get: the top of the stack, or a new buffer.
Get(b) ==
    /\ IF pool # <<>>
       THEN b = Last(pool) /\ pool' = Popped(pool) /\ UNCHANGED made
       ELSE b \notin made /\ made' = made \cup {b} /\ UNCHANGED pool
    /\ UNCHANGED <<maxCount, count, returning>>

\* The second half of MessagePoolGet, which panics if the buffer is taken.
AlreadyTaken(b) == count[b] # 0
Taken(b) ==
    /\ count' = [count EXCEPT ![b] = 1]
    /\ UNCHANGED <<pool, maxCount, made, returning>>

\* MessagePoolShareReadOnly: a buffer that is not taken stays so.
SharedOnce(n) == IF n = 0 THEN 0 ELSE (n + 1) % 2^CountBits

ShareReadOnly(b) ==
    /\ count' = [count EXCEPT ![b] = SharedOnce(@)]
    /\ UNCHANGED <<pool, maxCount, made, returning>>

\* MessagePoolReturn finds the last reference.
LastReference(n) == n = 1

\* The first half of MessagePoolReturn.
Return(b) ==
    /\ IF LastReference(count[b])
       THEN returning' = [returning EXCEPT ![b] = @ + 1] /\ UNCHANGED count
       ELSE /\ count' = [count EXCEPT ![b] = IF @ = 0 THEN 0 ELSE @ - 1]
            /\ UNCHANGED returning
    /\ UNCHANGED <<pool, maxCount, made>>

HasRoom == Len(pool) < maxCount

\* The second half: the buffer is reset and put back if there is room.
Put(b) ==
    /\ returning[b] > 0
    /\ returning' = [returning EXCEPT ![b] = @ - 1]
    /\ count' = [count EXCEPT ![b] = 0]
    /\ IF HasRoom
       THEN pool' = Append(pool, b) /\ UNCHANGED made
       ELSE made' = made \ {b} /\ UNCHANGED pool
    /\ UNCHANGED maxCount

\* ResizeMessagePools keeps the buffers that fit, from the bottom.
Resize(n) ==
    LET kept == SubSeq(pool, 1, IF Len(pool) < n THEN Len(pool) ELSE n)
    IN  /\ n \in PoolSizes \ {maxCount}
        /\ maxCount' = n
        /\ pool' = kept
        /\ made' = made \ (ToSet(pool) \ ToSet(kept))
        /\ UNCHANGED <<count, returning>>

Clear ==
    /\ pool # <<>>
    /\ pool' = <<>>
    /\ made' = made \ ToSet(pool)
    /\ UNCHANGED <<maxCount, count, returning>>

PoolStep ==
    \/ \E b \in Buffers : Put(b)
    \/ \E n \in PoolSizes : Resize(n)
    \/ Clear

PoolTypeOK ==
    /\ maxCount \in PoolSizes
    /\ pool \in Seq(Buffers) /\ Len(pool) <= maxCount
    /\ count \in [Buffers -> 0 .. 2^CountBits - 1]
    /\ made \subseteq Buffers
    /\ returning \in [Buffers -> Nat]
=============================================================================
