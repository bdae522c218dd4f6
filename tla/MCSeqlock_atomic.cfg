SPECIFICATION FairSpec
CONSTANTS
    r1 = r1
    r2 = r2
    Readers <- MCReaders
    NSEC = 3
    I64_HALF = 64
    SEQ_MOD = 8
    InitSeqs = {2}
    EPOCH_SEC <- MCNegativeEpoch
    Deltas = {2, 4}
    SetTimes <- MCNoSetTimes
    MAX_STORES = 6
PROPERTIES ImplementsAtomicClock ReadsMonotone ReadsReturnUnlessWritten
CHECK_DEADLOCK FALSE
