SPECIFICATION FairSpec
CONSTANTS
    p1 = p1
    p2 = p2
    p3 = p3
    Pid0 = Pid0
    NoPid = Pid0
    Procs <- MCTwo
    SLOT_COUNT = 2
    Foreign <- MCNobody
    Garbage <- MCZeroOrReady
    Roles <- MCOneTool
    ToolFrames <- MCCommands
    MAX_NOW = 1
    MAX_SPAWNS = 2
INVARIANTS AnswerOwed TimeAccounted
PROPERTIES ClientsAnswered StopsOnSignal
CHECK_DEADLOCK FALSE
