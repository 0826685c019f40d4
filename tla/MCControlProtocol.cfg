\* One service, two settings of it, reloads of both ends, and a second session.
CONSTANTS
    s1 = s1  s2 = s2  v1 = v1  v2 = v2
    Absent = Absent
    Services = {s1}
    Settings = {v1, v2}
    InitExpose <- AllV1
    InitPolicy = {v1, v2}
    MaxId = 3
    MaxReexposes = 3
    MaxRegrants = 2
    MaxSessions = 2
SPECIFICATION FairSpec
INVARIANTS
    QuietAgree
    TargetsCurrent
PROPERTIES
    Settles
