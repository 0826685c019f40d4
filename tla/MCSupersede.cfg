\* Three connections of one client fight for its key and its one port.
CONSTANTS
    c1 = c1  c2 = c2  c3 = c3  k1 = k1  k2 = k2  n1 = n1  n2 = n2
    NoConn = NoConn  NoGrant = NoGrant  NoRequest = NoRequest
    Conns = {c1, c2, c3}
    Keys = {k1}
    KeyOf <- OneKey
    Names = {n1}
    Policies <- OnlyGranted
    InitPolicy <- Granted
    Asks <- FixedOnly
    MaxId = 1
    MaxReloads = 0
    Numbers = {0, 1, 2}
    SpanFirst = 1
    SpanLast = 1
    ListenPort = 0
SPECIFICATION Spec
SYMMETRY ConnSymmetry
INVARIANTS
    OneSessionPerKey
    DoneMeansStopped
    WelcomeFindsPortsFree
