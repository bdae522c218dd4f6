SPECIFICATION Spec
CONSTANTS
    r1 = r1
    r2 = r2
    Readers <- MCOneReader
    NSEC = 3
    I64_HALF = 16
    SEQ_MOD = 4
    InitSeqs = {2, 4}
    EPOCH_SEC = 1
    Deltas = {2, 7}
    SetTimes <- MCSetTimes
    MAX_STORES = 10
INVARIANTS TypeOK NoTornRead EvenMeansStable
PROPERTIES TickAddsExactly
CHECK_DEADLOCK FALSE
