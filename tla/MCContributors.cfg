SPECIFICATION ContributorsSpec
CONSTANTS
    Charge = {c1}
    Instructor = {i1, i2}
    Job = {j1, j2}
    Null = Null
    Amount = 3
    Pct = 50
    Estimate = 3
    MaxMonth = 1
    MaxWatch = 2
    Admin = {j1, j2}
    Instance = {j1, j2}
    Period = {p1, p2}
    Asked = {0, 20, 30, 50}
    Subscribers = {0, 1}
    MaxPayouts = 3
    User = {i1, i2}
    AdiNumber = {n1, n2}
    Request = {j1, j2}
    MaxRows = 3
SYMMETRY Symmetry
INVARIANTS
    RevenueExact
    RunSettles
    FundKept
    StandingIsBacked
CHECK_DEADLOCK FALSE
