SPECIFICATION MultiSpec
CHECK_DEADLOCK FALSE
SYMMETRY Symmetry
CONSTANTS
    c1 = c1
    c2 = c2
    s1 = s1
    s2 = s2
    s3 = s3
    p1 = p1
    p2 = p2
    Clients = {c1, c2}
    NoClient = NoClient
    Paths = {p1, p2}
    Senders = {s1, s2, s3}
    Scenarios <- FewScenarios
    IpVersion = 4
    ClientPacketMax = 1
    RacePacketMax = 2
INVARIANTS
    RemovedIsForgotten
    AssignedIsRegistered
    OneClientHeard
    RaceIsCompleted
