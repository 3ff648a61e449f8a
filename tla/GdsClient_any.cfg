SPECIFICATION Spec
CONSTANTS
    u1 = u1
    u2 = u2
    ws = ws
    Users = {u1, u2}
    Ws = ws
    Secure = TRUE
    EarlyClose = TRUE
    Destroys = TRUE
    LinkErrors = TRUE
    CallbackOps = {"send", "close"}
    MaxSends = 2
    MaxData = 1
SYMMETRY UserSymmetry
CHECK_DEADLOCK FALSE
INVARIANTS
    TypeOK
    NoUnauthenticatedTraffic
    AwaitFindsDisconnected
    OneVerdict
PROPERTIES
    SuccessFirst
    ImplementsSession
