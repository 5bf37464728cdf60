SPECIFICATION FairSpec
CONSTANTS
    u1 = u1
    u2 = u2
    r1 = r1
    None = None
    Upload = {u1, u2}
    Route = {r1}
    RouteOf <- OneRoute
    GpsOnly = {u1}
    Worker = {w1, w2}
    Req = {q1, q2}
    MaxCompletes = 2
    MaxLate = 1
INVARIANTS
    TypeOK
    NobodyForgotten
PROPERTIES
    StatusesStay
    ComesToRest
    HandoffSpec
CHECK_DEADLOCK FALSE
