\* Two clients bind fixed and pooled ports of the same small span.
CONSTANTS
    c1 = c1  c2 = c2  c3 = c3  k1 = k1  k2 = k2  n1 = n1  n2 = n2
    NoConn = NoConn  NoGrant = NoGrant  NoRequest = NoRequest
    Conns = {c1, c2}
    Keys = {k1, k2}
    KeyOf <- TwoKeys
    Names = {n1, n2}
    Policies <- OnlyGranted
    InitPolicy <- Granted
    Asks <- FixedOrPooled
    MaxId = 2
    MaxReloads = 0
    Numbers = {0, 1, 2, 3}
    SpanFirst = 1
    SpanLast = 3
    ListenPort = 2
SPECIFICATION Spec
INVARIANTS
    PortExclusive
    AllocatorExact
    IdsNameOneService
    RebindFindsPortFree
