SPECIFICATION InstructorsSpec
CONSTANTS
    s1 = s1
    s2 = s2
    s3 = s3
    t1 = t1
    t2 = t2
    g1 = g1
    Nobody = Nobody
    Slot = {s1, s2, s3}
    TimeOf <- Times
    Booking = {b1, b2, b3}
    Req = {q1, q2}
    Price = {20, 35}
    DefaultPrice = 35
    Area = {a1, a2}
    Nowhere = {a2}
    Opening = {q1, q2}
    Blank = Blank
    None = None
    Clip = {1, 2, 3}
    Log = {g1}
    Centre = {q1, q2}
    Attempt = {q1, q2}
    Tried <- Selections
    MaxMs = 3
    n1 = n1
    n2 = n2
    n3 = n3
    z1 = z1
    z2 = z2
    z3 = z3
    k1 = k1
    k2 = k2
    e1 = e1
    e2 = e2
    u1 = u1
    first = first
    second = second
    Contributor = {u1, u2}
    Route = {e1, e2}
    Quality <- Scores
    Rule <- Badges
    Moderator = {q1, q2}
    Rebuild = {q1, q2}
    Board = {"alltime"}
    PerRoute = 10
    HighBonus = 5
    Threshold = 80
    Boost = 20
    MaxApprovals = 2
    MaxReputation = 100
    Id = {k1, k2}
    Name = {n1, n2, n3}
    NormName <- Names
    Postcode = {z1, z2, z3}
    Canonical <- Postcodes
    Real = {z1, z2}
    Csv <- File
    Seeded <- Seed
    Editor = {q1, q2}
    Missing = Missing
    Code = {z1, z2}
    TownOf <- Towns
    OwnTown = "own town"
    Unknown = {z2}
    Empty = Empty
INVARIANT DeclaredAsShown
CHECK_DEADLOCK FALSE
