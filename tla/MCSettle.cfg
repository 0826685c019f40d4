\* Supersession, shutdown and reloads come to an end. Reloads take a port, the terms or
\* the key away, against the loop of the session.
CONSTANTS
    c1 = c1  c2 = c2  c3 = c3  k1 = k1  k2 = k2  n1 = n1  n2 = n2
    NoConn = NoConn  NoGrant = NoGrant  NoRequest = NoRequest
    Conns = {c1, c2}
    Keys = {k1}
    KeyOf <- OneKey
    Names = {n1}
    Policies <- Reloaded
    InitPolicy <- Granted
    Asks <- FixedOnly
    MaxId = 2
    MaxReloads = 2
    Numbers = {0, 1, 2}
    SpanFirst = 1
    SpanLast = 1
    ListenPort = 0
SPECIFICATION FairSpec
ACTION_CONSTRAINT ReloadsAlone
INVARIANTS
    GrantHonoured
PROPERTIES
    ShutdownCompletes
    ClaimSettles
    RevocationReaches
