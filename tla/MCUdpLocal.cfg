\* Two session ids and one place, two delivering tasks, two or three packets, and the
\* end of the service.  Payloads of three sizes, one too large for a frame, and room for
\* two datagrams of the least or one of the largest.
CONSTANTS
    i1 = i1  i2 = i2
    Parts = {"full", "evict", "path"}
    NoId = NoId
    Ids = {i1, i2}
    Cap = 1
    Idle = 1
    MaxNow = 1
    MaxPackets = 3
    Sizes = {1, 2, 3}
    MaxFrame = 2
    MaxMtu = 2
    QueueSpace = 2
    BulkQueue = 1
    MaxOffered <- MCOffered
SPECIFICATION MCSpec
INVARIANTS
    MapAndReaders
    NoLostWakeup
    PacketsIntact
PROPERTIES
    Drains
    BulkFlows
