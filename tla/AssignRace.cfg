SPECIFICATION Spec
CONSTANTS
    Collaborators = {c1, c2}
    NoCollaborator = none
    Taps = 2
    Fee = 2
    Deposit = 3
    Cancelling = TRUE
    Repairing = FALSE
CHECK_DEADLOCK FALSE
SYMMETRY Symmetry
INVARIANTS
    TypeOK
    HolderCharged
    NobodyOvercharged
PROPERTY
    FirstTakerStays
