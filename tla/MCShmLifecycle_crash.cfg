SPECIFICATION Spec
CONSTANTS
    c1 = c1
    c2 = c2
    s1 = s1
    Controllers <- MCTwoControllers
    Shims <- MCOneShim
    Overlap = TRUE
    MAX_STARTS = 2
    MAX_CRASHES = 2
    MAX_TIME = 2
INVARIANTS TypeOK ClockSoundUnlessCut AttachFindsClock CleanStop
SYMMETRY ControllerSymmetry
PROPERTIES ReadsCurrent
CHECK_DEADLOCK FALSE
