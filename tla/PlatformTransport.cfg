SPECIFICATION PlatformSpec
CONSTANTS
    MaxConns = 2
    Destinations = {"peer", "self"}
    TransportBufferSize = 1
    Transports <- Gateways
    Routes <- Gateways
    Selectors <- WritersAndReader
    Settings <- WritersReaderTests
    MatchesSend <- GatewayMatchesSend
    MatchesReceive <- GatewayMatchesReceive
INVARIANTS
    SelectorsAreCurrent
    NoMissedUpdate
    RoutesOfCurrentConn
    SpeedTestFollows
    CloseNeverStuck
CHECK_DEADLOCK FALSE
