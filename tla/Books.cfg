SPECIFICATION Spec
CONSTANTS
    Requests = {r1, r2, r3, r4, r5}
    AtOnce = 3
    LateNotices = TRUE
    Money = 2
    Opening = 4
    Minimum = 2
SYMMETRY RequestSymmetry
CHECK_DEADLOCK FALSE
INVARIANTS
    TypeOK
    NothingFromNowhere
    AccountBalanced
PROPERTIES
    AccountSpec
