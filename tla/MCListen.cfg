\* A server started with --listen on a port that its config file grants; one write.
CONSTANTS
    p1 = p1  p2 = p2
    NoClient = NoClient
    Clients = {p1, p2}
    Prefer <- AutoAndTcp
    MaxAddrs = 1
    FallbackAfter = 2
    First = 1
    Cap = 5
    Healthy = 10
    DialTime = 1
    Drain = 1
    MinBuffer = 1
    MaxBuffer = 2
    WindowEnd = 4
    Live <- MCLive
    Fixed <- MCFixed
    Default <- MCDefault
    Listens = {3}
    MaxWrites = 1
    Pumps = {"p"}
    MaxMoves = 1
    Callers = {"c"}
    Unacked = 1
    Requests = 1
    MaxInbound = 1
SPECIFICATION MCSpec
CHECK_DEADLOCK FALSE
INVARIANTS
    GrantsSpareListen
