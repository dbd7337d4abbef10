SPECIFICATION Spec
CONSTANTS
    N = 3
    Collaborators = {c1, c2}
    NoCollaborator = none
    PaymentMethods = {"point", "online"}
    Pricings = {"legacy"}
    PlatformFee = 2
    ServiceFee = 1
    ShiftFee = 10
    Disturbances = {"anyOrder", "cancelProcessing", "lateCancelRoute", "lateFailure", "authorizeOnly", "namedAtCreation"}
    MoneyBound = 100000
CHECK_DEADLOCK FALSE
SYMMETRY Symmetry
VIEW Control
INVARIANT WorkerAgreement
PROPERTY TerminalStays
