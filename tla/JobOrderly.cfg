SPECIFICATION Spec
CONSTANTS
    N = 3
    Collaborators = {c1, c2}
    NoCollaborator = none
    PaymentMethods = {"cash", "point", "online"}
    Pricings = {"legacy", "deposit"}
    PlatformFee = 2
    ServiceFee = 1
    ShiftFee = 10
    Disturbances = {}
    MoneyBound = 40
CHECK_DEADLOCK FALSE
SYMMETRY Symmetry
INVARIANTS
    TypeOK
    FeesMatch
    RefundsMatch
    ServiceFeeCarried
    OneOrderListed
    GroupFollowsOrders
