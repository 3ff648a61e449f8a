SPECIFICATION LiveSpec
CONSTANTS
    u1 = u1
    u2 = u2
    ws = ws
    Users = {u1, u2}
    Ws = ws
    Secure = TRUE
    EarlyClose = FALSE
    Destroys = TRUE
    LinkErrors = TRUE
    CallbackOps = {"send", "close"}
    MaxSends = 1
    MaxData = 1
CHECK_DEADLOCK FALSE
INVARIANTS
    NoStateError
PROPERTIES
    FinalStateStable StartReported KeyFilesRemoved
