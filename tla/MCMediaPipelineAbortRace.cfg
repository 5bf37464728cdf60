SPECIFICATION FairSpec
CONSTANTS
    u1 = u1
    u2 = u2
    r1 = r1
    None = None
    Upload = {u1}
    Route = {r1}
    RouteOf <- OneRoute
    GpsOnly = {}
    Worker = {w1}
    Req = {q1, q2}
    MaxCompletes = 2
    MaxLate = 1
PROPERTY AbortSparesLive
CHECK_DEADLOCK FALSE
