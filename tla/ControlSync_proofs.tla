-------------------------- MODULE ControlSync_proofs --------------------------
(***************************************************************************)
(* Proofs about ControlSync, for any number of messages, failed acks,      *)
(* failed sends and frames of updateFrame.                                 *)
(***************************************************************************)
EXTENDS ControlSync, TLAPS

-----------------------------------------------------------------------------
(* The inductive invariant.                                                *)

\* What the two properties need of the types; the counts are not bounded.
Shape ==
    /\ syncCount \in 0 .. MaxSends /\ sendLock \in 0 .. MaxSends /\ lastSent \in Nat
    /\ syncing \in [Messages -> Nat] /\ failed \in [Messages -> Nat]
    /\ inFlight \in [Messages -> Nat] /\ current \in [Messages -> Frames]
    /\ returned \in [Messages -> [Frames -> Nat]] /\ leaked \in [Messages -> [Frames -> Nat]]

\* A blocking send is of the latest message: no Send passes it.
LockInv == sendLock # 0 => sendLock = syncCount

\* The client was never given a message that was not sent.
LastInv == lastSent <= syncCount

\* The places of message i that may send it (again).
Places(i) == syncing[i] + failed[i] + inFlight[i] + (IF sendLock = i THEN 1 ELSE 0)

\* A message is at one place at most: with a goroutine at the loop of
\* controlSync, after a failed send, in a blocking send, or with the client.
PlaceInv(i) == Places(i) <= 1

\* Nothing happened to a message that was not sent.
UnsentInv(i) == i > syncCount => Places(i) = 0 /\ current[i] = 0 /\ i \notin gaveUp

\* What was given up is not sent again.
GaveUpInv(i) == i \in gaveUp => Places(i) = 0

\* How often the bytes of frame v of a message that was sent were returned.
Returns(i, v) ==
    IF v > current[i] \/ (v = current[i] /\ Places(i) = 1) THEN 0
    ELSE IF ~FirstForLast(i) THEN 1
    ELSE IF v = 0 THEN 2
    ELSE IF v = current[i] THEN 0 ELSE 1

ReturnInv(i) ==
    \A v \in Frames : returned[i][v] = (IF i > syncCount THEN 0 ELSE Returns(i, v))

\* A send of a frame failed before the frame was replaced, or its goroutine
\* looks why: a share of its bytes was left.
LeakInv(i) ==
    \A v \in Frames : v < current[i] \/ (v = current[i] /\ failed[i] > 0) => leaked[i][v] > 0

MessageInv(i) == PlaceInv(i) /\ UnsentInv(i) /\ GaveUpInv(i) /\ ReturnInv(i) /\ LeakInv(i)

IInv == Shape /\ LockInv /\ LastInv /\ \A i \in Messages : MessageInv(i)

-----------------------------------------------------------------------------
\* From f to g the count of message i changes by d, or that of its frame v
\* goes up, and no other.
Changes(f, g, i, d) ==
    g \in [Messages -> Nat] /\ g[i] = f[i] + d /\ \A j \in Messages \ {i} : g[j] = f[j]

ChangesEach(f, g, i, v) ==
    /\ g \in [Messages -> [Frames -> Nat]] /\ g[i][v] = f[i][v] + 1
    /\ \A w \in Frames \ {v} : g[i][w] = f[i][w]
    /\ \A j \in Messages \ {i} : g[j] = f[j]

LEMMA CountUp ==
    ASSUME NEW f \in [Messages -> Nat], NEW i \in Messages
    PROVE  Changes(f, Plus(f, i), i, 1)
  BY DEF Plus, Changes

LEMMA CountDown ==
    ASSUME NEW f \in [Messages -> Nat], NEW i \in Messages, f[i] > 0
    PROVE  Changes(f, Minus(f, i), i, -1)
  <1>1. f[i] \in Nat /\ f[i] - 1 \in Nat
    OBVIOUS
  <1> QED BY <1>1 DEF Minus, Changes

LEMMA CountEach ==
    ASSUME NEW f \in [Messages -> [Frames -> Nat]], NEW i \in Messages, NEW v \in Frames
    PROVE  ChangesEach(f, PlusEach(f, i, v), i, v)
  <1>1. f[i] \in [Frames -> Nat] /\ f[i][v] \in Nat
    OBVIOUS
  <1>2. PlusEach(f, i, v) = [f EXCEPT ![i] = [f[i] EXCEPT ![v] = f[i][v] + 1]]
    BY DEF PlusEach
  <1>3. [f[i] EXCEPT ![v] = f[i][v] + 1] \in [Frames -> Nat]
    BY <1>1
  <1> QED BY <1>1, <1>2, <1>3 DEF ChangesEach

\* A step that concerns one message only keeps the invariant of the others.
Concerns(i) ==
    /\ syncCount' = syncCount
    /\ \A j \in Messages \ {i} :
          /\ syncing'[j] = syncing[j] /\ failed'[j] = failed[j] /\ inFlight'[j] = inFlight[j]
          /\ current'[j] = current[j] /\ returned'[j] = returned[j] /\ leaked'[j] = leaked[j]
          /\ (j \in gaveUp' <=> j \in gaveUp) /\ (sendLock' = j <=> sendLock = j)

LEMMA OthersKept ==
    ASSUME NEW i \in Messages, \A j \in Messages : MessageInv(j), Concerns(i), MessageInv(i)'
    PROVE  \A j \in Messages : MessageInv(j)'
  <1> SUFFICES ASSUME NEW j \in Messages \ {i} PROVE MessageInv(j)'
    OBVIOUS
  <1>1. MessageInv(j) /\ Places(j)' = Places(j) /\ FirstForLast(j)' = FirstForLast(j)
    BY DEF Concerns, Places, FirstForLast
  <1> QED
    BY <1>1 DEF Concerns, MessageInv, PlaceInv, UnsentInv, GaveUpInv, ReturnInv, Returns, LeakInv

-----------------------------------------------------------------------------
(* The steps.                                                              *)

\* Init establishes the invariant.
LEMMA InitIInv == Init => IInv
  <1> SUFFICES ASSUME Init PROVE IInv
    OBVIOUS
  <1> USE BoundsAssumption DEF Init, Zero, ZeroEach, Frames
  <1>1. Shape /\ LockInv /\ LastInv
    BY DEF Shape, LockInv, LastInv
  <1>2. ASSUME NEW i \in Messages PROVE MessageInv(i)
    <2>1. Places(i) = 0 /\ i > syncCount /\ current[i] = 0 /\ failed[i] = 0 /\ i \notin gaveUp
      BY DEF Places, Messages
    <2> QED
      BY <2>1 DEF MessageInv, PlaceInv, UnsentInv, GaveUpInv, ReturnInv, LeakInv
  <1> QED BY <1>1, <1>2 DEF IInv

\* What the invariant says of one message.
LEMMA OfMessage ==
    ASSUME IInv, NEW i \in Messages
    PROVE  /\ MessageInv(i) /\ i \in Nat /\ i > 0 /\ i <= MaxSends
           /\ current[i] \in Frames /\ current[i] \in Nat
           /\ syncCount \in Nat /\ sendLock \in Nat /\ lastSent \in Nat /\ MaxSends \in Nat
           /\ syncing[i] \in Nat /\ failed[i] \in Nat /\ inFlight[i] \in Nat
           /\ returned[i] \in [Frames -> Nat] /\ leaked[i] \in [Frames -> Nat]
           /\ 0 \in Frames /\ \A v \in Frames : v \in Nat
  <1>1. MaxSends \in Nat /\ 0 \in Frames /\ \A v \in Frames : v \in Nat
    BY BoundsAssumption DEF Frames
  <1>2. i \in Nat /\ i > 0 /\ i <= MaxSends
    BY <1>1 DEF Messages
  <1>3. Shape /\ MessageInv(i)
    BY DEF IInv
  <1>4. /\ current[i] \in Frames /\ syncing[i] \in Nat /\ failed[i] \in Nat /\ inFlight[i] \in Nat
        /\ returned[i] \in [Frames -> Nat] /\ leaked[i] \in [Frames -> Nat]
    BY <1>3 DEF Shape
  <1>5. syncCount \in Nat /\ sendLock \in Nat /\ lastSent \in Nat
    BY <1>1, <1>3 DEF Shape
  <1> QED BY <1>1, <1>2, <1>3, <1>4, <1>5

LEMMA OfPlaces ==
    ASSUME IInv, NEW i \in Messages
    PROVE  /\ syncing[i] \in Nat /\ failed[i] \in Nat /\ inFlight[i] \in Nat
           /\ sendLock \in Nat /\ i \in Nat /\ i > 0 /\ Places(i) <= 1
  BY OfMessage DEF MessageInv, PlaceInv

\* The message of a step that moves it from a place to another, and leaves
\* its frame and its returns alone.
LEMMA Moved ==
    ASSUME IInv, NEW i \in Messages, Places(i)' = Places(i), Places(i) = 1,
           UNCHANGED <<syncCount, current, gaveUp, returned>>,
           \A v \in Frames : v # current[i] \/ failed[i]' = 0 => leaked[i][v]' >= leaked[i][v],
           failed[i]' > 0 => leaked[i][current[i]]' > 0,
           \A v \in Frames : leaked[i][v]' \in Nat /\ leaked[i][v]' >= leaked[i][v]
    PROVE  MessageInv(i)'
  <1> USE OfMessage DEF MessageInv
  <1>1. PlaceInv(i)' /\ UnsentInv(i)' /\ GaveUpInv(i)'
    BY DEF PlaceInv, UnsentInv, GaveUpInv
  <1>2. ReturnInv(i)'
    BY DEF ReturnInv, Returns, FirstForLast
  <1>3. LeakInv(i)'
    BY DEF LeakInv
  <1> QED BY <1>1, <1>2, <1>3

\* The message of a step that ends it and returns the bytes of its frame.
LEMMA Ended ==
    ASSUME IInv, NEW i \in Messages, Places(i) = 1, Places(i)' = 0,
           returned' = PlusEach(returned, i, current[i]), failed[i]' <= failed[i],
           failed[i]' \in Nat, UNCHANGED <<syncCount, current, gaveUp, leaked>>
    PROVE  MessageInv(i)'
  <1> USE OfMessage DEF MessageInv
  <1>0. i <= syncCount /\ ~FirstForLast(i) /\ ~FirstForLast(i)'
    BY DEF UnsentInv, GaveUpInv, FirstForLast
  <1>1. PlaceInv(i)' /\ UnsentInv(i)' /\ GaveUpInv(i)'
    BY DEF PlaceInv, UnsentInv, GaveUpInv
  <1>2. /\ returned'[i][current[i]] = returned[i][current[i]] + 1
        /\ \A w \in Frames \ {current[i]} : returned'[i][w] = returned[i][w]
    <2>1. returned \in [Messages -> [Frames -> Nat]]
      BY DEF IInv, Shape
    <2> QED BY <2>1, CountEach DEF ChangesEach
  <1>3. ReturnInv(i)'
    BY <1>0, <1>2 DEF ReturnInv, Returns
  <1>4. LeakInv(i)'
    BY DEF LeakInv
  <1> QED BY <1>1, <1>3, <1>4

\* Every step of a goroutine, of the client or of a caller preserves it.
LEMMA NextIInv == IInv /\ [Next]_vars => IInv'
  <1> SUFFICES ASSUME IInv, [Next]_vars PROVE IInv'
    OBVIOUS
  <1>s. Shape /\ LockInv /\ LastInv /\ \A j \in Messages : MessageInv(j)
    BY DEF IInv
  <1>t. /\ syncing \in [Messages -> Nat] /\ failed \in [Messages -> Nat]
        /\ inFlight \in [Messages -> Nat] /\ current \in [Messages -> Frames]
        /\ returned \in [Messages -> [Frames -> Nat]] /\ leaked \in [Messages -> [Frames -> Nat]]
    BY <1>s DEF Shape
  <1>u. CASE UNCHANGED <<syncCount, sendLock, syncing, failed, inFlight, lastSent, pool>>
    <2>1. Shape' /\ LockInv' /\ LastInv'
      BY <1>s, <1>u DEF Shape, LockInv, LastInv, pool
    <2>2. ASSUME NEW i \in Messages PROVE MessageInv(i)'
      BY <1>s, <1>u DEF MessageInv, PlaceInv, UnsentInv, GaveUpInv, ReturnInv, Returns, LeakInv,
         Places, FirstForLast, pool
    <2> QED BY <2>1, <2>2 DEF IInv
  <1>1. CASE Send
    <2>0. PICK i \in Nat : i = syncCount + 1
      BY <1>s, BoundsAssumption DEF Shape
    <2>1. /\ i \in Messages /\ i \in Nat /\ sendLock = 0 /\ sendLock' = 0 /\ syncCount' = i
          /\ UNCHANGED <<failed, current, gaveUp, returned>>
      BY <1>1, <1>s, <2>0, BoundsAssumption DEF Send, Messages, Shape
    <2>2. \/ /\ inFlight' = Plus(inFlight, i) /\ lastSent' = i
             /\ UNCHANGED <<syncing, leaked>>
          \/ /\ syncing' = Plus(syncing, i) /\ leaked' = PlusEach(leaked, i, 0)
             /\ UNCHANGED <<inFlight, lastSent>>
      BY <1>1, <2>0 DEF Send, Leak
    <2>3. i > syncCount /\ \A j \in Messages : j # i => (j > i <=> j > syncCount)
      BY <2>0, <2>1, OfMessage
    <2>4. MessageInv(i) /\ Places(i) = 0 /\ current[i] = 0 /\ i \notin gaveUp
      BY <2>1, <2>3, OfMessage DEF MessageInv, UnsentInv
    <2>5. syncing[i] = 0 /\ inFlight[i] = 0 /\ failed[i] = 0
      BY <2>1, <2>4, OfPlaces DEF Places
    <2>6. \/ inFlight' = inFlight /\ Changes(syncing, syncing', i, 1)
          \/ syncing' = syncing /\ Changes(inFlight, inFlight', i, 1)
      BY <2>1, <2>2, <1>t, CountUp
    <2>7. leaked' = leaked \/ ChangesEach(leaked, leaked', i, 0)
      BY <2>1, <2>2, <1>t, OfMessage, CountEach
    <2>8. Shape' /\ LockInv' /\ LastInv'
      <3>1. syncCount' \in 0 .. MaxSends /\ (lastSent' = i \/ lastSent' = lastSent)
        BY <2>1, <2>2, OfMessage
      <3>2. lastSent' \in Nat /\ lastSent' <= i
        BY <2>1, <2>3, <3>1, <1>s, OfMessage DEF LastInv
      <3> QED BY <2>1, <2>6, <2>7, <3>1, <3>2, <1>s, <1>t
        DEF Shape, LockInv, LastInv, Changes, ChangesEach
    <2>9. MessageInv(i)'
      <3>1. Places(i)' = 1
        BY <2>1, <2>5, <2>6, OfPlaces DEF Places, Changes
      <3>2. /\ current'[i] = 0 /\ failed'[i] = 0 /\ i \notin gaveUp' /\ ~(i > syncCount')
            /\ \A v \in Frames : returned'[i][v] = 0 /\ v \in Nat
        BY <2>1, <2>3, <2>4, <2>5, OfMessage DEF MessageInv, ReturnInv
      <3>3. ReturnInv(i)' /\ LeakInv(i)'
        BY <3>1, <3>2 DEF ReturnInv, Returns, LeakInv
      <3> QED BY <3>1, <3>2, <3>3 DEF MessageInv, PlaceInv, UnsentInv, GaveUpInv
    <2>10. ASSUME NEW j \in Messages \ {i} PROVE MessageInv(j)'
      <3>1. MessageInv(j) /\ (j > syncCount' <=> j > syncCount)
        BY <2>1, <2>3, <1>s
      <3>2. leaked'[j] = leaked[j] /\ Places(j)' = Places(j)
        BY <2>1, <2>6, <2>7 DEF Places, Changes, ChangesEach
      <3> QED
        BY <3>1, <3>2, <2>1 DEF MessageInv, PlaceInv, UnsentInv, GaveUpInv, ReturnInv, Returns,
           LeakInv, FirstForLast
    <2>11. \A j \in Messages : MessageInv(j)'
      BY <2>9, <2>10
    <2> QED BY <2>8, <2>11 DEF IInv
  <1>2. CASE Close
    BY <1>2, <1>u DEF Close, places
  <1>3. ASSUME NEW i \in Messages, Watch(i) PROVE IInv'
    BY <1>3, <1>u DEF Watch, places
  <1>4. ASSUME NEW i \in Messages, Stop(i) PROVE IInv'
    <2>1. /\ syncing[i] > 0 /\ syncing' = Minus(syncing, i)
          /\ returned' = PlusEach(returned, i, current[i])
          /\ UNCHANGED <<syncCount, sendLock, failed, inFlight, lastSent, current, gaveUp, leaked>>
      BY <1>4 DEF Stop, Return
    <2>2. Changes(syncing, syncing', i, -1)
      BY <2>1, <1>t, CountDown
    <2>3. ChangesEach(returned, returned', i, current[i])
      BY <2>1, <1>t, OfMessage, CountEach
    <2>4. Shape' /\ LockInv' /\ LastInv'
      BY <2>1, <2>2, <2>3, <1>s, OfMessage DEF Shape, LockInv, LastInv, Changes, ChangesEach
    <2>5. Places(i) = 1 /\ Places(i)' = 0
      <3>1. syncing'[i] = syncing[i] - 1
        BY <2>2 DEF Changes
      <3> QED BY <2>1, <3>1, OfPlaces DEF Places
    <2>6. Concerns(i)
      BY <2>1, <2>2, <2>3, OfMessage DEF Concerns, Changes, ChangesEach
    <2>7. MessageInv(i)'
      BY <2>1, <2>5, OfMessage, Ended
    <2> QED BY <2>4, <2>6, <2>7, <1>s, OthersKept DEF IInv
  <1>5. ASSUME NEW i \in Messages, StartSend(i) PROVE IInv'
    <2>1. /\ syncing[i] > 0 /\ syncing' = Minus(syncing, i)
          /\ sendLock = 0 /\ sendLock' = i /\ i = syncCount
          /\ UNCHANGED <<syncCount, failed, inFlight, lastSent, current, gaveUp, returned, leaked>>
      BY <1>5 DEF StartSend, Stops, pool
    <2>2. Changes(syncing, syncing', i, -1)
      BY <2>1, <1>t, CountDown
    <2>3. Shape' /\ LockInv' /\ LastInv'
      BY <2>1, <2>2, <1>s, OfMessage DEF Shape, LockInv, LastInv, Changes
    <2>4. Places(i) = 1 /\ Places(i)' = 1
      BY <2>1, <2>2, OfPlaces DEF Places, Changes
    <2>5. Concerns(i)
      BY <2>1, <2>2, OfMessage DEF Concerns, Changes
    <2>6. MessageInv(i)'
      BY <2>1, <2>2, <2>4, OfMessage, Moved DEF MessageInv, LeakInv
    <2> QED BY <2>3, <2>5, <2>6, <1>s, OthersKept DEF IInv
  <1>6. ASSUME NEW i \in Messages, Sent(i) PROVE IInv'
    <2>1. /\ sendLock = i /\ sendLock' = 0 /\ inFlight' = Plus(inFlight, i) /\ lastSent' = i
          /\ UNCHANGED <<syncCount, syncing, failed, current, gaveUp, returned, leaked>>
      BY <1>6 DEF Sent, ReturnsWhenSent, pool
    <2>2. Changes(inFlight, inFlight', i, 1)
      BY <2>1, <1>t, CountUp
    <2>3. Shape' /\ LockInv' /\ LastInv'
      BY <2>1, <2>2, <1>s, OfMessage DEF Shape, LockInv, LastInv, Changes
    <2>4. Places(i) = 1 /\ Places(i)' = 1
      BY <2>1, <2>2, OfPlaces DEF Places, Changes
    <2>5. Concerns(i)
      BY <2>1, <2>2, OfMessage DEF Concerns, Changes
    <2>6. MessageInv(i)'
      BY <2>1, <2>2, <2>4, OfMessage, Moved DEF MessageInv, LeakInv
    <2> QED BY <2>3, <2>5, <2>6, <1>s, OthersKept DEF IInv
  <1>7. ASSUME NEW i \in Messages, SendFails(i) PROVE IInv'
    <2>1. /\ sendLock = i /\ sendLock' = 0 /\ failed' = Plus(failed, i)
          /\ leaked' = PlusEach(leaked, i, current[i])
          /\ UNCHANGED <<syncCount, syncing, inFlight, lastSent, current, gaveUp, returned>>
      BY <1>7 DEF SendFails, Leak
    <2>2. Changes(failed, failed', i, 1)
      BY <2>1, <1>t, CountUp
    <2>3. ChangesEach(leaked, leaked', i, current[i])
      BY <2>1, <1>t, OfMessage, CountEach
    <2>4. Shape' /\ LockInv' /\ LastInv'
      BY <2>1, <2>2, <2>3, <1>s, OfMessage DEF Shape, LockInv, LastInv, Changes, ChangesEach
    <2>5. Places(i) = 1 /\ Places(i)' = 1
      <3>1. failed'[i] = failed[i] + 1
        BY <2>2 DEF Changes
      <3> QED BY <2>1, <3>1, OfPlaces DEF Places
    <2>6. Concerns(i)
      BY <2>1, <2>2, <2>3, OfMessage DEF Concerns, Changes, ChangesEach
    <2>7. MessageInv(i)'
      <3>1. /\ \A v \in Frames : leaked'[i][v] \in Nat /\ leaked'[i][v] >= leaked[i][v]
            /\ leaked'[i][current[i]] > 0
        BY <2>3, OfMessage DEF ChangesEach
      <3> QED BY <2>1, <2>5, <3>1, OfMessage, Moved
    <2> QED BY <2>4, <2>6, <2>7, <1>s, OthersKept DEF IInv
  <1>8. ASSUME NEW i \in Messages, GiveUp(i) PROVE IInv'
    <2>1. /\ failed[i] > 0 /\ failed' = Minus(failed, i)
          /\ returned' = PlusEach(returned, i, 0) /\ gaveUp' = gaveUp \cup {i}
          /\ UNCHANGED <<syncCount, sendLock, syncing, inFlight, lastSent, current, leaked>>
      BY <1>8 DEF GiveUp, Return
    <2>2. Changes(failed, failed', i, -1)
      BY <2>1, <1>t, CountDown
    <2>3. ChangesEach(returned, returned', i, 0)
      BY <2>1, <1>t, OfMessage, CountEach
    <2>4. Shape' /\ LockInv' /\ LastInv'
      BY <2>1, <2>2, <2>3, <1>s, OfMessage DEF Shape, LockInv, LastInv, Changes, ChangesEach
    <2>5. Places(i) = 1 /\ Places(i)' = 0 /\ failed'[i] = 0
      BY <2>1, <2>2, OfPlaces DEF Places, Changes
    <2>6. Concerns(i)
      BY <2>1, <2>2, <2>3, OfMessage DEF Concerns, Changes, ChangesEach
    <2>7. MessageInv(i)'
      <3>1. i <= syncCount /\ ~FirstForLast(i) /\ (FirstForLast(i)' <=> current[i] > 0)
        BY <2>1, <2>5, OfMessage DEF MessageInv, UnsentInv, GaveUpInv, FirstForLast
      <3>2. ReturnInv(i)'
        BY <2>1, <2>3, <2>5, <3>1, OfMessage DEF MessageInv, ReturnInv, Returns, ChangesEach
      <3>3. LeakInv(i)'
        BY <2>1, <2>5, OfMessage DEF MessageInv, LeakInv
      <3> QED
        BY <2>1, <2>5, <3>1, <3>2, <3>3, OfMessage DEF MessageInv, PlaceInv, UnsentInv, GaveUpInv
    <2> QED BY <2>4, <2>6, <2>7, <1>s, OthersKept DEF IInv
  <1>9. ASSUME NEW i \in Messages, TryAgain(i) PROVE IInv'
    <2>1. /\ failed[i] > 0 /\ failed' = Minus(failed, i) /\ syncing' = Plus(syncing, i)
          /\ UNCHANGED <<syncCount, sendLock, inFlight, lastSent, gaveUp, leaked>>
          /\ \/ UNCHANGED <<current, returned>>
             \/ /\ current[i] < MaxUpdates /\ current' = Plus(current, i)
                /\ returned' = PlusEach(returned, i, current[i])
      BY <1>9 DEF TryAgain, Update, Return
    <2>2. Changes(failed, failed', i, -1)
      BY <2>1, <1>t, CountDown
    <2>3. Changes(syncing, syncing', i, 1)
      BY <2>1, <1>t, CountUp
    <2>4. returned' = returned \/ ChangesEach(returned, returned', i, current[i])
      BY <2>1, <1>t, OfMessage, CountEach
    <2>5. /\ current' \in [Messages -> Frames] /\ \A j \in Messages \ {i} : current'[j] = current[j]
          /\ returned' = returned => current' = current
          /\ current'[i] = current[i] \/ current'[i] = current[i] + 1
      <3>1. current[i] < MaxUpdates => current[i] + 1 \in Frames
        BY OfMessage, BoundsAssumption DEF Frames
      <3>2. current' = current \/ returned' = PlusEach(returned, i, current[i])
        BY <2>1
      <3>3. PlusEach(returned, i, current[i]) # returned
        <4>1. ChangesEach(returned, PlusEach(returned, i, current[i]), i, current[i])
          BY <1>t, OfMessage, CountEach
        <4>2. returned[i][current[i]] \in Nat
          BY OfMessage
        <4> QED BY <4>1, <4>2 DEF ChangesEach
      <3> QED BY <2>1, <3>1, <3>2, <3>3, <1>t DEF Plus
    <2>6. Shape' /\ LockInv' /\ LastInv'
      BY <2>1, <2>2, <2>3, <2>4, <2>5, <1>s DEF Shape, LockInv, LastInv, Changes, ChangesEach
    <2>7. Places(i) = 1 /\ Places(i)' = 1 /\ failed'[i] = 0
      <3>1. failed'[i] = failed[i] - 1 /\ syncing'[i] = syncing[i] + 1
        BY <2>2, <2>3 DEF Changes
      <3> QED BY <2>1, <3>1, OfPlaces DEF Places
    <2>8. Concerns(i)
      BY <2>1, <2>2, <2>3, <2>4, <2>5 DEF Concerns, Changes, ChangesEach
    <2>9. MessageInv(i)'
      <3>1. CASE UNCHANGED <<current, returned>>
        BY <2>1, <2>7, <3>1, OfMessage, Moved
      <3>2. CASE current' = Plus(current, i) /\ returned' = PlusEach(returned, i, current[i])
        <4>1. i <= syncCount /\ ~FirstForLast(i) /\ ~FirstForLast(i)'
          BY <2>1, <2>7, OfMessage DEF MessageInv, UnsentInv, GaveUpInv, FirstForLast
        <4>2. current'[i] = current[i] + 1
          BY <3>2, <1>t DEF Plus
        <4>3. ChangesEach(returned, returned', i, current[i])
          BY <3>2, <1>t, OfMessage, CountEach
        <4>4. ReturnInv(i)'
          <5>0. ~(i > syncCount') /\ ~(i > syncCount)
            BY <2>1, <4>1, OfMessage
          <5> SUFFICES ASSUME NEW v \in Frames PROVE returned'[i][v] = Returns(i, v)'
            BY <5>0 DEF ReturnInv
          <5>1. returned[i][v] = Returns(i, v) /\ v \in Nat /\ current[i] \in Nat
            BY <5>0, OfMessage DEF MessageInv, ReturnInv
          <5>2. CASE v = current[i]
            BY <2>7, <4>1, <4>2, <4>3, <5>1, <5>2 DEF Returns, ChangesEach
          <5>3. CASE v # current[i]
            BY <2>7, <4>1, <4>2, <4>3, <5>1, <5>3 DEF Returns, ChangesEach
          <5> QED BY <5>2, <5>3
        <4>5. LeakInv(i)'
          BY <2>1, <2>7, <4>2, OfMessage DEF MessageInv, LeakInv
        <4> QED
          BY <2>1, <2>7, <4>1, <4>4, <4>5, OfMessage DEF MessageInv, PlaceInv, UnsentInv, GaveUpInv
      <3> QED BY <2>1, <3>1, <3>2
    <2> QED BY <2>6, <2>8, <2>9, <1>s, OthersKept DEF IInv
  <1>10. ASSUME NEW i \in Messages, Log(i) \/ HandleCancel(i) PROVE IInv'
    BY <1>10, <1>u DEF Log, HandleCancel
  <1>11. ASSUME NEW i \in Messages, Acked(i) PROVE IInv'
    <2>1. /\ inFlight[i] > 0 /\ inFlight' = Minus(inFlight, i)
          /\ returned' = PlusEach(returned, i, current[i])
          /\ UNCHANGED <<syncCount, sendLock, syncing, failed, lastSent, current, gaveUp, leaked>>
      BY <1>11 DEF Acked, Return
    <2>2. Changes(inFlight, inFlight', i, -1)
      BY <2>1, <1>t, CountDown
    <2>3. ChangesEach(returned, returned', i, current[i])
      BY <2>1, <1>t, OfMessage, CountEach
    <2>4. Shape' /\ LockInv' /\ LastInv'
      BY <2>1, <2>2, <2>3, <1>s, OfMessage DEF Shape, LockInv, LastInv, Changes, ChangesEach
    <2>5. Places(i) = 1 /\ Places(i)' = 0
      BY <2>1, <2>2, OfPlaces DEF Places, Changes
    <2>6. Concerns(i)
      BY <2>1, <2>2, <2>3, OfMessage DEF Concerns, Changes, ChangesEach
    <2>7. MessageInv(i)'
      BY <2>1, <2>5, OfMessage, Ended
    <2> QED BY <2>4, <2>6, <2>7, <1>s, OthersKept DEF IInv
  <1>12. ASSUME NEW i \in Messages, AckFailed(i) PROVE IInv'
    <2>1. /\ inFlight[i] > 0 /\ inFlight' = Minus(inFlight, i) /\ syncing' = Plus(syncing, i)
          /\ UNCHANGED <<syncCount, sendLock, failed, lastSent, current, gaveUp, returned, leaked>>
      BY <1>12 DEF AckFailed, AckFailedKept
    <2>2. Changes(inFlight, inFlight', i, -1)
      BY <2>1, <1>t, CountDown
    <2>3. Changes(syncing, syncing', i, 1)
      BY <2>1, <1>t, CountUp
    <2>4. Shape' /\ LockInv' /\ LastInv'
      BY <2>1, <2>2, <2>3, <1>s, OfMessage DEF Shape, LockInv, LastInv, Changes
    <2>5. Places(i) = 1 /\ Places(i)' = 1
      <3>1. inFlight'[i] = inFlight[i] - 1 /\ syncing'[i] = syncing[i] + 1
        BY <2>2, <2>3 DEF Changes
      <3> QED BY <2>1, <3>1, OfPlaces DEF Places
    <2>6. Concerns(i)
      BY <2>1, <2>2, <2>3, OfMessage DEF Concerns, Changes
    <2>7. MessageInv(i)'
      BY <2>1, <2>2, <2>3, <2>5, OfMessage, Moved DEF MessageInv, LeakInv
    <2> QED BY <2>4, <2>6, <2>7, <1>s, OthersKept DEF IInv
  <1>13. CASE UNCHANGED vars
    BY <1>13, <1>u DEF vars, places
  <1> QED
    BY <1>1, <1>2, <1>3, <1>4, <1>5, <1>6, <1>7, <1>8, <1>9, <1>10, <1>11, <1>12, <1>13
    DEF Next, Goroutine

\* The invariant holds in every reachable state.
THEOREM Invariance == Spec => []IInv
  BY InitIInv, NextIInv, PTL DEF Spec

\* The bytes of every frame of a control message go back to the pool once,
\* and not while something can send them, for any number of messages, failed
\* acks, retries and new frames of updateFrame; of a message given up after a
\* failed send of a new frame, the first frame twice and the last not at all,
\* and even then the pool gets back no more than it gave.
THEOREM BytesReturnedOnce == Spec => []ReturnedOnce
  <1>1. IInv => ReturnedOnce
    <2> SUFFICES ASSUME IInv, NEW i \in 1 .. syncCount, NEW v \in 0 .. current[i]
                 PROVE  /\ InUse(i, v) => returned[i][v] = 0
                        /\ ~InUse(i, v) =>
                              \/ returned[i][v] = 1
                              \/ FirstForLast(i) /\ v = 0 /\ returned[i][v] = 2
                              \/ FirstForLast(i) /\ v = current[i] /\ returned[i][v] = 0
                        /\ returned[i][v] <= 1 + leaked[i][v]
      BY DEF ReturnedOnce
    <2>1. i \in Messages /\ i <= syncCount
      BY BoundsAssumption DEF IInv, Shape, Messages
    <2>2. v \in Frames /\ v <= current[i] /\ v \in Nat
      BY <2>1, OfMessage, BoundsAssumption DEF Frames
    <2>3. MessageInv(i) /\ current[i] \in Nat /\ leaked[i][v] \in Nat
      BY <2>1, <2>2, OfMessage
    <2>4. Busy(i) <=> Places(i) = 1
      <3>1. Places(i) <= 1
        BY <2>3 DEF MessageInv, PlaceInv
      <3>2. syncing[i] \in Nat /\ failed[i] \in Nat /\ inFlight[i] \in Nat
        BY <2>1, OfMessage
      <3> QED BY <3>1, <3>2 DEF Busy, Places
    <2>5. returned[i][v] = Returns(i, v)
      BY <2>1, <2>2, <2>3, OfMessage DEF MessageInv, ReturnInv
    <2>6. FirstForLast(i) => Places(i) = 0 /\ leaked[i][0] > 0
      BY <2>1, <2>3, OfMessage DEF MessageInv, GaveUpInv, LeakInv, FirstForLast
    <2> QED BY <2>2, <2>3, <2>4, <2>5, <2>6 DEF Returns, InUse
  <1> QED BY <1>1, Invariance, PTL

\* The client is never given a control message older than one it was given.
THEOREM SendsInOrder == Spec => SentInOrder
  <1>1. IInv /\ [Next]_vars => [lastSent' >= lastSent]_vars
    <2> SUFFICES ASSUME IInv, Next PROVE lastSent' >= lastSent
      BY DEF vars
    <2> USE BoundsAssumption DEF IInv, Shape, LockInv, LastInv, Messages
    <2>1. CASE Send
      BY <2>1 DEF Send
    <2>2. ASSUME NEW i \in Messages, Sent(i) PROVE lastSent' >= lastSent
      BY <2>2 DEF Sent
    <2>3. CASE UNCHANGED lastSent
      BY <2>3
    <2> QED
      BY <2>1, <2>2, <2>3 DEF Next, Goroutine, Close, Watch, Stop, StartSend, SendFails,
         GiveUp, TryAgain, Log, HandleCancel, Acked, AckFailed
  <1> QED BY <1>1, Invariance, PTL DEF Spec, SentInOrder
=============================================================================
