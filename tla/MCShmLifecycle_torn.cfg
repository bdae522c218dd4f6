SPECIFICATION Spec
CONSTANTS
    c1 = c1
    c2 = c2
    s1 = s1
    Controllers <- MCTwoControllers
    Shims <- MCOneShim
    Overlap = FALSE
    MAX_STARTS = 2
    MAX_CRASHES = 1
    MAX_TIME = 2
INVARIANTS TimesWhole
CHECK_DEADLOCK FALSE
