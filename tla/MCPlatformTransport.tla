------------------------ MODULE MCPlatformTransport ------------------------
(* PlatformTransport for TLC: gateway transports, which match everything.  *)
EXTENDS PlatformTransport

Gateways == Conns \X Dirs
GatewayMatchesSend == [t \in Gateways |-> IF t[2] = "send" THEN Destinations ELSE {}]
GatewayMatchesReceive == [t \in Gateways |-> IF t[2] = "receive" THEN Destinations ELSE {}]
Writer1 == [id |-> 1, dir |-> "send", destination |-> "peer", calls |-> TRUE]
Writer2 == [id |-> 2, dir |-> "send", destination |-> "peer", calls |-> FALSE]
Reader == [id |-> 3, dir |-> "receive", destination |-> "self", calls |-> TRUE]
WritersAndReader == {Writer1, Writer2, Reader}

\* Two writers of one destination; a writer and a reader over a reconnect;
\* the tests of the platform.
WritersReaderTests ==
    {[mode |-> "h3", users |-> {Writer1, Writer2}, conns |-> 1, sends |-> {}],
     [mode |-> "h3", users |-> {Writer1}, conns |-> 2, sends |-> {}],
     [mode |-> "h3", users |-> {Reader}, conns |-> 2, sends |-> {"frame"}],
     [mode |-> "h1", users |-> {}, conns |-> 1, sends |-> Messages]}
=============================================================================
