\* Two processes that start at once.
CONSTANTS
    Procs = {"c", "d"}
SPECIFICATION MCSpec
CHECK_DEADLOCK FALSE
INVARIANTS
    SocketKept
