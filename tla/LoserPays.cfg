SPECIFICATION Spec
CONSTANTS
    Collaborators = {c1, c2}
    NoCollaborator = none
    Taps = 1
    Fee = 2
    Deposit = 3
    Cancelling = FALSE
    Repairing = FALSE
CHECK_DEADLOCK FALSE
INVARIANT OnlyHolderPays
