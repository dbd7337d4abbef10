SPECIFICATION Spec
CONSTANTS
    Requests = {r1, r2, r3}
    AtOnce = 2
    LateNotices = FALSE
    Money = 2
    Opening = 3
    Minimum = 2

CHECK_DEADLOCK FALSE
INVARIANTS
    SettledOnce
