\* The client's run: one alone, and two processes with one key, at the code's ratio of
\* HEALTHY to CAP; two addresses to dial.
\* Reloads: two writes of any of the role's configs; --listen names a granted port.
\* Figures: two pumps that count twice.
\* The driver: two callers, one stream unacknowledged at a time, one the peer opens.
CONSTANTS
    p1 = p1  p2 = p2
    NoClient = NoClient
    Clients = {p1, p2}
    Prefer <- AutoAndTcp
    MaxAddrs = 2
    FallbackAfter = 2
    First = 1
    Cap = 5
    Healthy = 10
    DialTime = 1
    Drain = 1
    MinBuffer = 1
    MaxBuffer = 2
    WindowEnd = 4
    Live <- MCLive
    Fixed <- MCFixed
    Default <- MCDefault
    Listens = {3}
    MaxWrites = 2
    Pumps = {"p", "q"}
    MaxMoves = 2
    Callers = {"c", "d"}
    Unacked = 1
    Requests = 1
    MaxInbound = 1
SPECIFICATION MCSpec
CHECK_DEADLOCK FALSE
INVARIANTS
    InForceSound
PROPERTIES
    RivalsNeverReset
    StopEnds
    KeepsTrying
    LastSaveInForce
    FiguresSettle
    OpensAnswered
