SPECIFICATION Spec
CONSTANTS
    r1 = r1
    r2 = r2
    r3 = r3
    c1 = c1
    c2 = c2
    AddPoints = add
    Receiver = c1
    Requests = {r1, r2, r3}
    Customers = {c1, c2}
    Payloads <- MCPayloads
    Balance = 2
    LimitCount = 2
    LimitedUse = 2
    AtOnce = 2
CHECK_DEADLOCK FALSE
INVARIANT TypeOK
INVARIANT CodeWithinLimit
PROPERTY CustomerWithinLimit
PROPERTY EventWithinLimit
INVARIANT NumbersUnique
INVARIANT OpenIsPaid
INVARIANT PointsAccounted
INVARIANT PromotionsCounted
