SPECIFICATION FairSpec
CONSTANTS
    N = 2
    Notices = {n1, n2}
    CustomerCancels = {k1}
    Cron = cron
    MayRestart = TRUE
CHECK_DEADLOCK FALSE
INVARIANTS
    TypeOK
    CancelledLeavesNothing
    NothingBeforePayment
    PaymentHonoured
PROPERTY NobodyWaitsForEver
