SPECIFICATION Spec
CONSTANTS
    NSEC = 12
    I64_HALF = 64
    USEC = 6
    HZ = 3
    STACK_FRAMES = 3
    MAX_ERRNO = 1
    Threads = FALSE
    Roots <- MCRoots
    OwnValues <- MCOwnValues
    BoxLib <- Lib
    RealFds = {3}
    VIRTUAL_FD_BASE = 10
    FD_COUNT = 2
    Programs <- MCPrograms
    Envps <- MCEnvps
    Deltas = {5}
    Times <- MCTimes
    MAX_SEC = 1
INVARIANTS TargetRuns
CHECK_DEADLOCK FALSE
