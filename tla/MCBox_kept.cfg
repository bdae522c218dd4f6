SPECIFICATION Spec
CONSTANTS
    p1 = p1
    p2 = p2
    p3 = p3
    Pid0 = Pid0
    NoPid = Pid0
    Procs <- MCThree
    SLOT_COUNT = 3
    Foreign <- MCNobody
    Garbage <- MCZeroed
    Roles <- MCPrograms
    ToolFrames <- MCNoFrames
    MAX_NOW = 0
    MAX_SPAWNS = 3
PROPERTIES ClientsKept
CHECK_DEADLOCK FALSE
