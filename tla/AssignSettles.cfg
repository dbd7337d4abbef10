SPECIFICATION FairSpec
CONSTANTS
    Collaborators = {c1, c2}
    NoCollaborator = none
    Taps = 1
    Fee = 2
    Deposit = 3
    Cancelling = TRUE
    Repairing = TRUE
CHECK_DEADLOCK FALSE
PROPERTY GroupFollows
