SPECIFICATION Spec
CONSTANTS
    x1 = x1
    x2 = x2
    c1 = c1
    c2 = c2
    Request = {q1, q2}
    EMAIL_RATE_MAX = 1
    Most <- SessionsAndMails
    Tab = {q1, q2}
    CallNo = {q1, q2}
    MaxPairs = 2
    Route = {x1, x2}
    Centre = {c1, c2}
    CentreOf <- TwoCentres
    Visit = {q1, q2}
    TTL = 1
    InitCall = {q1, q2}
    FREE_MONTHLY_UPLOAD_CAP = 2
    LastMonth = 3
SYMMETRY Symmetry
INVARIANTS
    NothingOutlivesASweep
    TokensSpentOnce
    SessionKept
    OneFreeRoute
    
CHECK_DEADLOCK FALSE
