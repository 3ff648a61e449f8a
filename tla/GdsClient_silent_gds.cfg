SPECIFICATION SilentGdsSpec
CONSTANTS
    u1 = u1
    ws = ws
    Users = {u1}
    Ws = ws
    Secure = FALSE
    EarlyClose = FALSE
    Destroys = FALSE
    LinkErrors = FALSE
    CallbackOps = {}
    MaxSends = 1
    MaxData = 1
CHECK_DEADLOCK FALSE
PROPERTIES
    StartReported
