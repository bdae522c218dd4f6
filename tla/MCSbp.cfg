SPECIFICATION Spec
CONSTANTS
    BYTE = 8
    MAX_SENT = 2
    Outgoing <- MCOutgoing
INVARIANTS Canonical
PROPERTIES OneReadOneFrame
CHECK_DEADLOCK FALSE
