\* The table: three visitors, two sessions at a time and four ids, which wrap.
\* Admission: a limit of two, three TCP and three QUIC connections, room for one bucket.
CONSTANTS
    va = va  vb = vb  vc = vc
    None = None
    Visitors = {va, vb, vc}
    Cap = 2
    IdSpace = 4
    Idle = 2
    MaxClock = 4
    MaxOpens = 8
    t1 = t1  t2 = t2  t3 = t3  q1 = q1  q2 = q2  q3 = q3  a1 = a1  a2 = a2
    NoBucket = NoBucket
    Tcp = {t1, t2, t3}
    Quic = {q1, q2, q3}
    Addrs = {a1, a2}
    AddrOf <- ByTransport
    PerMinute = 2
    Window = 4
    Handshakes = 2
    MaxTracked = 1
    SweepEvery = 1
    MaxNow = 4
SPECIFICATION MCSpec
SYMMETRY ConnSymmetry
INVARIANTS
    IndexesAgree
    LateReplyLost
    HoldsCovered
    LimitExact
PROPERTIES
    ImplementsRouting
