SPECIFICATION Spec
CONSTANTS
    p1 = p1
    p2 = p2
    p3 = p3
    Pid0 = Pid0
    NoPid = Pid0
    Procs <- MCThree
    SLOT_COUNT = 2
    Foreign <- MCForeign
    Garbage <- MCZeroed
    Roles <- MCOneTool
    ToolFrames <- MCRejected
    MAX_NOW = 1
    MAX_SPAWNS = 3
INVARIANTS TypeOK ClientTableSound SlotsUnique RegisteredOrFull
PROPERTIES ImplementsRegistry
SYMMETRY ProcSymmetry
CHECK_DEADLOCK FALSE
