-------------------------- MODULE PlatformTransport --------------------------
(***************************************************************************)
(* PlatformTransport (src/transport.go) on top of RouteManager: the loop   *)
(* that connects, brings the two gateway transports of the connection to   *)
(* the route manager and takes them away again, and the three goroutines   *)
(* of a connection: the one that drains it when its mode is not active,    *)
(* the writer and the reader.  runH1 and runH3 differ in the control       *)
(* messages (speed and latency tests) and in what they count.              *)
(*                                                                         *)
(* The modes: each transport starts one mode, so at most that one is ever  *)
(* available, and no mode is preferred to itself or to none: the wait at   *)
(* the head of the loop passes.  run elects a mode once: nothing notifies  *)
(* modeMonitor (src/transport.go:265-297), so it never wakes again.        *)
(*                                                                         *)
(* The websocket or the QUIC stream is external: it can fail at any time,  *)
(* and fails once it is closed.                                            *)
(***************************************************************************)
EXTENDS RouteManager, Sequences

CONSTANTS
    Settings,   \* what a behaviour is about: a mode the transport is started
                \* with, what the platform sends, the selectors that are used
                \* and a bound on the connections made
    MaxConns    \* the largest of these bounds

Conns == 1..MaxConns
SendOf(c) == <<c, "send">>
ReceiveOf(c) == <<c, "receive">>

ASSUME PlatformAssumption ==
    /\ \A x \in Settings :
          /\ x.mode \in {"h1", "h3"} /\ x.conns \in 1..MaxConns /\ x.users \subseteq Selectors
          /\ x.sends \subseteq {"speedStart", "speedStop", "test", "frame", "ping"}
          /\ x.mode = "h3" => x.sends \subseteq {"frame", "ping"}
    /\ MaxConns \in Nat \ {0}
    /\ Conns \X Dirs \subseteq Transports
    /\ Conns \X Dirs \subseteq Routes

VARIABLES
    target,     \* targetMode
    sends,      \* the messages the platform sends in this behaviour
    left,       \* the connections that can still be made in this behaviour
    elected,    \* has run elected a mode
    mode,       \* the elected mode
    available,  \* availableModes[target]
    done,       \* self.ctx is done
    main,       \* the connect loop: where it is, and its connection
    conn        \* the connections

platformVars == <<target, sends, left, elected, mode, available, done, main, conn>>
transportVars == <<platformVars, routeVars>>

NoConn ==
    [ws |-> "none", cancelled |-> FALSE,
     drain |-> "none", counted |-> FALSE,
     writer |-> "none", writerSpeedTest |-> FALSE,
     reader |-> "none", readerSpeedTest |-> FALSE, message |-> "none",
     control |-> <<>>]

\* What the reader tells apart.  "test" is a latency test, echoed like the
\* frames of a speed test.
Messages == {"speedStart", "speedStop", "test", "frame", "ping"}
Echoed == {"speedStart", "speedStop", "test"}

PlatformInit ==
    /\ \E x \in Settings : RouteInit(x.users) /\ target = x.mode /\ sends = x.sends /\ left = x.conns
    /\ elected = FALSE /\ mode = "none" /\ available = FALSE /\ done = FALSE
    /\ main = [at |-> "dial", conn |-> 0]
    /\ conn = [c \in Conns |-> NoConn]

ConnType ==
    [ws : {"none", "open", "closed"}, cancelled : BOOLEAN,
     drain : {"none", "start", "wait", "end"}, counted : BOOLEAN,
     writer : {"none", "run", "end"}, writerSpeedTest : BOOLEAN,
     reader : {"none", "read", "echo", "receive", "close", "end"},
     readerSpeedTest : BOOLEAN, message : Echoed \union {"none", "frame"},
     control : Seq(Echoed)]

PlatformTypeOK ==
    /\ RouteTypeOK
    /\ target \in {"h1", "h3"} /\ mode \in {target, "none"} /\ sends \subseteq Messages
    /\ left \in 0..MaxConns
    /\ elected \in BOOLEAN /\ available \in BOOLEAN /\ done \in BOOLEAN
    /\ main \in [at : {"dial", "addSend", "addReceive", "up", "removeReceive",
                       "unavailable", "reconnect", "end"},
                 conn : 0..MaxConns]
    /\ conn \in [Conns -> ConnType]
    /\ \A c \in Conns : Len(conn[c].control) <= TransportBufferSize

Done(c) == conn[c].cancelled \/ done    \* handleCtx is done

-----------------------------------------------------------------------------
(* The mode, the connect loop and Close. *)

\* run: the one pass of its loop.
Elect ==
    /\ ~elected
    /\ elected' = TRUE
    /\ mode' = IF available THEN target ELSE mode
    /\ UNCHANGED <<target, sends, left, available, done, main, conn, routeVars>>

Dial ==
    /\ main.at = "dial" /\ ~done /\ left > 0
    /\ left' = left - 1
    /\ LET c == main.conn + 1
       IN  /\ main' = [at |-> "addSend", conn |-> c]
           /\ conn' = [conn EXCEPT ![c].ws = "open"]
    /\ available' = TRUE
    /\ UNCHANGED <<target, sends, elected, mode, done, routeVars>>

\* The dial or the auth fails, or the context is done while it waits.
DialFails ==
    /\ main.at = "dial"
    /\ main' = [main EXCEPT !.at = IF done THEN "end" ELSE "reconnect"]
    /\ UNCHANGED <<target, sends, left, elected, mode, available, done, conn, routeVars>>

AddSend ==
    /\ main.at = "addSend"
    /\ UpdateTransport(SendOf(main.conn), {SendOf(main.conn)})
    /\ main' = [main EXCEPT !.at = "addReceive"]
    /\ UNCHANGED <<target, sends, left, elected, mode, available, done, conn>>

\* The second transport, and the start of the three goroutines.
AddReceive ==
    /\ main.at = "addReceive"
    /\ UpdateTransport(ReceiveOf(main.conn), {ReceiveOf(main.conn)})
    /\ main' = [main EXCEPT !.at = "up"]
    /\ conn' = [conn EXCEPT ![main.conn].drain = "start",
                            ![main.conn].writer = "run",
                            ![main.conn].reader = "read"]
    /\ UNCHANGED <<target, sends, left, elected, mode, available, done>>

\* handleCtx is done: the deferred calls, in reverse order.
RemoveSend ==
    /\ main.at = "up" /\ Done(main.conn)
    /\ RemoveTransport(SendOf(main.conn))
    /\ main' = [main EXCEPT !.at = "removeReceive"]
    /\ UNCHANGED <<target, sends, left, elected, mode, available, done, conn>>

\* Fault: the receive route stays with the manager.
ForgetReceive ==
    /\ main.at = "removeReceive"
    /\ main' = [main EXCEPT !.at = "unavailable"]
    /\ UNCHANGED <<target, sends, left, elected, mode, available, done, conn, routeVars>>

RemoveReceive ==
    /\ main.at = "removeReceive"
    /\ RemoveTransport(ReceiveOf(main.conn))
    /\ main' = [main EXCEPT !.at = "unavailable"]
    /\ UNCHANGED <<target, sends, left, elected, mode, available, done, conn>>

\* handleCancel, setModeAvailable(mode, false) and the close of the socket.
Disconnect ==
    /\ main.at = "unavailable"
    /\ available' = FALSE
    /\ conn' = [conn EXCEPT ![main.conn].cancelled = TRUE, ![main.conn].ws = "closed"]
    /\ main' = [main EXCEPT !.at = "reconnect"]
    /\ UNCHANGED <<target, sends, left, elected, mode, done, routeVars>>

Reconnect ==
    /\ main.at = "reconnect"
    /\ main' = [main EXCEPT !.at = IF done THEN "end" ELSE "dial"]
    /\ UNCHANGED <<target, sends, left, elected, mode, available, done, conn, routeVars>>

Close ==
    /\ ~done
    /\ done' = TRUE
    /\ UNCHANGED <<target, sends, left, elected, mode, available, main, conn, routeVars>>

-----------------------------------------------------------------------------
(* The goroutine that drains a connection whose mode is not the active one.*)

DrainStart(c) ==
    /\ conn[c].drain = "start" /\ ~Done(c) /\ mode # target
    /\ conn' = [conn EXCEPT ![c].drain = "wait", ![c].counted = FALSE]
    /\ UNCHANGED <<target, sends, left, elected, mode, available, done, main, routeVars>>

\* InactiveDrainTimeout: shut down if the counters did not move.
DrainTimeout(c) ==
    /\ conn[c].drain = "wait" /\ ~Done(c)
    /\ conn' = [conn EXCEPT ![c].drain = "start", ![c].counted = FALSE,
                            ![c].cancelled = ~conn[c].counted]
    /\ UNCHANGED <<target, sends, left, elected, mode, available, done, main, routeVars>>

DrainEnd(c) ==
    /\ conn[c].drain \in {"start", "wait"} /\ Done(c)
    /\ conn' = [conn EXCEPT ![c].drain = "end", ![c].cancelled = TRUE, ![c].counted = FALSE]
    /\ UNCHANGED <<target, sends, left, elected, mode, available, done, main, routeVars>>

-----------------------------------------------------------------------------
(* The writer. *)

\* A write to the connection succeeds while it is open, or fails and ends it.
\* runH1 counts what it writes, runH3 does not.
Wrote(x, fails) ==
    IF fails
    THEN [x EXCEPT !.writer = "end", !.cancelled = TRUE, !.writerSpeedTest = FALSE]
    ELSE [x EXCEPT !.counted = @ \/ (target = "h1" /\ x.drain = "wait")]

WriteResults(c) == IF conn[c].ws = "open" THEN BOOLEAN ELSE {TRUE}

\* A frame of the send route, not while a speed test runs.
WriterSends(c) ==
    /\ conn[c].writer = "run" /\ ~conn[c].writerSpeedTest
    /\ route[SendOf(c)].len > 0
    /\ route' = [route EXCEPT ![SendOf(c)].len = @ - 1]
    /\ \E fails \in WriteResults(c) : conn' = [conn EXCEPT ![c] = Wrote(@, fails)]
    /\ UNCHANGED <<target, sends, left, elected, mode, available, done, main,
                   transportRoutes, matched, known, sel>>

\* Fault: the stop of a speed test is not taken by the writer.
SpeedTestStarted(speedTest, m) == speedTest \/ m = "speedStart"

SpeedTestAfter(speedTest, m) == IF speedTest THEN m # "speedStop" ELSE m = "speedStart"

\* An echo: a speed control starts or stops the speed test of the writer.
WriterEchoes(c) ==
    /\ conn[c].writer = "run" /\ conn[c].control # <<>>
    /\ LET m == Head(conn[c].control)
           x == [conn[c] EXCEPT !.control = Tail(@),
                                !.writerSpeedTest = SpeedTestAfter(@, m)]
       IN  \E fails \in WriteResults(c) : conn' = [conn EXCEPT ![c] = Wrote(x, fails)]
    /\ UNCHANGED <<target, sends, left, elected, mode, available, done, main, routeVars>>

\* handleCtx is done, or a ping cannot be written, which can be at any time.
WriterEnds(c) ==
    /\ conn[c].writer = "run"
    /\ conn' = [conn EXCEPT ![c] = Wrote(@, TRUE)]
    /\ UNCHANGED <<target, sends, left, elected, mode, available, done, main, routeVars>>

-----------------------------------------------------------------------------
(* The reader. *)

\* A message arrives.  Controls are echoed; frames too in a speed test.
ReaderReads(c) ==
    /\ conn[c].reader = "read" /\ conn[c].ws = "open" /\ ~Done(c)
    /\ \E m \in sends :
          LET speed == IF m \in {"speedStart", "speedStop"} THEN m = "speedStart"
                       ELSE conn[c].readerSpeedTest
              kept == IF m = "ping" THEN "none"
                      ELSE IF m = "frame" /\ speed THEN "test" ELSE m
          IN  conn' = [conn EXCEPT ![c].reader = IF kept \in Echoed THEN "echo"
                                                 ELSE IF kept = "frame" THEN "receive" ELSE "read",
                                   ![c].message = kept,
                                   ![c].readerSpeedTest = speed,
                                   ![c].counted = @ \/ (target = "h1" /\ conn[c].drain = "wait")]
    /\ UNCHANGED <<target, sends, left, elected, mode, available, done, main, routeVars>>

\* Fault: the reader waits for room without looking at the context.
ReaderEchoesOnly(c) ==
    /\ conn[c].reader = "echo" /\ Len(conn[c].control) < TransportBufferSize
    /\ conn' = [conn EXCEPT ![c].reader = "read", ![c].message = "none",
                            ![c].control = Append(@, conn[c].message)]
    /\ UNCHANGED <<target, sends, left, elected, mode, available, done, main, routeVars>>

\* The echo waits for room in controlSend, or for the end of the transport;
\* the end of the connection does not stop it.
ReaderEchoes(c) ==
    /\ conn[c].reader = "echo"
    /\ \/ /\ Len(conn[c].control) < TransportBufferSize
          /\ conn' = [conn EXCEPT ![c].reader = "read", ![c].message = "none",
                                  ![c].control = Append(@, conn[c].message)]
       \/ /\ done
          /\ conn' = [conn EXCEPT ![c].reader = "read", ![c].message = "none"]
    /\ UNCHANGED <<target, sends, left, elected, mode, available, done, main, routeVars>>

ReaderReceives(c) ==
    /\ conn[c].reader = "receive"
    /\ route[ReceiveOf(c)].len < TransportBufferSize
    /\ route' = [route EXCEPT ![ReceiveOf(c)].len = @ + 1]
    /\ conn' = [conn EXCEPT ![c].reader = "read", ![c].message = "none"]
    /\ UNCHANGED <<target, sends, left, elected, mode, available, done, main,
                   transportRoutes, matched, known, sel>>

\* The frame is dropped: at once when handleCtx is done, else at ReadTimeout.
ReaderDrops(c) ==
    /\ conn[c].reader = "receive"
    /\ conn' = [conn EXCEPT ![c].reader = IF Done(c) THEN "close" ELSE "read",
                            ![c].message = "none"]
    /\ UNCHANGED <<target, sends, left, elected, mode, available, done, main, routeVars>>

\* The connection fails or handleCtx is done: the deferred handleCancel.
ReaderFails(c) ==
    /\ conn[c].reader = "read"
    /\ conn' = [conn EXCEPT ![c].reader = "close"]
    /\ UNCHANGED <<target, sends, left, elected, mode, available, done, main, routeVars>>

\* The deferred close of receive and controlSend, which runH1 drains too.
ReaderEnds(c) ==
    /\ conn[c].reader = "close"
    /\ conn' = [conn EXCEPT ![c].reader = "end", ![c].cancelled = TRUE,
                            ![c].readerSpeedTest = FALSE, ![c].control = <<>>]
    /\ route' = [route EXCEPT ![ReceiveOf(c)] =
                    [len |-> IF target = "h1" THEN 0 ELSE @.len, closed |-> TRUE]]
    /\ UNCHANGED <<target, sends, left, elected, mode, available, done, main,
                   transportRoutes, matched, known, sel>>

MainNext ==
    \/ Dial \/ DialFails \/ AddSend \/ AddReceive
    \/ RemoveSend \/ RemoveReceive \/ Disconnect \/ Reconnect

ConnNext(c) ==
    \/ DrainStart(c) \/ DrainTimeout(c) \/ DrainEnd(c)
    \/ WriterSends(c) \/ WriterEchoes(c) \/ WriterEnds(c)
    \/ ReaderReads(c) \/ ReaderEchoes(c) \/ ReaderReceives(c)
    \/ ReaderDrops(c) \/ ReaderFails(c) \/ ReaderEnds(c)

PlatformNext ==
    \/ Elect \/ Close \/ MainNext
    \/ \E c \in Conns : ConnNext(c)
    \/ RouteUserNext /\ UNCHANGED platformVars

PlatformSpec == PlatformInit /\ [][PlatformNext]_transportVars

-----------------------------------------------------------------------------
(* Properties. *)

\* The routes the manager offers are those of the connection the loop is in:
\* nothing is registered outside of it, and none of an older connection.
RoutesOfCurrentConn ==
    \A t \in DOMAIN transportRoutes \intersect (Conns \X Dirs) :
        /\ t[1] = main.conn
        /\ main.at \in {"addReceive", "up", "removeReceive"}

\* The writer is in a speed test exactly when the reader was before the echoes
\* that are still on their way, so that it is not left in one, holding the
\* frames of the send route back for good.
SpeedTestFollows ==
    \A c \in Conns :
        LET sent == conn[c].control \o
                      IF conn[c].reader = "echo" THEN <<conn[c].message>> ELSE <<>>
            speeds == {i \in 1..Len(sent) : sent[i] \in {"speedStart", "speedStop"}}
        IN  conn[c].reader \in {"read", "receive", "echo"} /\ conn[c].writer = "run" /\ ~done =>
               /\ speeds = {} => conn[c].readerSpeedTest = conn[c].writerSpeedTest
               /\ \A i \in speeds : (\A j \in speeds : j <= i) =>
                     conn[c].readerSpeedTest = (sent[i] = "speedStart")

\* After Close nothing waits for what will not come: as long as the connect
\* loop, or a goroutine of a connection (one that was replaced too), is not
\* over or a route is with the manager, one of them has a step to take.
CloseNeverStuck ==
    done =>
        \/ /\ main.at = "end" /\ DOMAIN transportRoutes = {}
           /\ \A c \in Conns : {conn[c].drain, conn[c].writer, conn[c].reader}
                                   \subseteq {"none", "end"}
        \/ ENABLED (MainNext \/ \E c \in Conns : ConnNext(c))
=============================================================================
