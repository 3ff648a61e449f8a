SPECIFICATION FairSpec
CONSTANTS
    p1 = p1
    p2 = p2
    p3 = p3
    w1 = w1
    w2 = w2
    Posters = {p1, p2, p3}
    Waiters = {w1, w2}
    LIMIT = 2
    Limits = {1, 2}
    MaxPosts = 3
CHECK_DEADLOCK FALSE
INVARIANTS
    TypeOK
    OvershootBounded
    LoweredLimitHolds
    Conservation
    NoLostWakeup
PROPERTIES
    ImplementsBounded
    SleeperServed
