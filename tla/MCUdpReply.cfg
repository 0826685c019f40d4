\* A packet against the expiry of the session it is for.
CONSTANTS
    i1 = i1  i2 = i2
    Parts = {"full"}
    NoId = NoId
    Ids = {i1}
    Cap = 1
    Idle = 1
    MaxNow = 2
    MaxPackets = 2
    Sizes = {1}
    MaxFrame = 1
    MaxMtu = 1
    QueueSpace = 1
    BulkQueue = 1
    MaxOffered <- MCOffered
SPECIFICATION MCSpec
INVARIANTS
    TouchedHasReader
