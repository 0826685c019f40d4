\* One visitor at a time, and a bulk stream, on one permit; a byte each way.
CONSTANTS
    v1 = v1
    Visitors = {v1}
    Streams = 1
    Bytes <- MCBytes
    ClientNets <- MCNets
    CeilingNets = {}
    Width = 2
    Base = 3
SPECIFICATION FairSpec
INVARIANTS
    CleanEndIsWhole
    BudgetExact
PROPERTIES
    LossEndsTasks
