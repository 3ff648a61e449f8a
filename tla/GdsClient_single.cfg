SPECIFICATION Spec
CONSTANTS
    u1 = u1
    ws = ws
    Users = {u1}
    Ws = ws
    Secure = TRUE
    EarlyClose = FALSE
    Destroys = TRUE
    LinkErrors = FALSE
    CallbackOps = {}
    MaxSends = 3
    MaxData = 3
CHECK_DEADLOCK FALSE
INVARIANTS
    NoNullDeref
    LoggedInHasConnection
