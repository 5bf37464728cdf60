SPECIFICATION LearnersSpec
CONSTANTS
    Sub = {s1}
    Txn = {t1}
    Centre = {c1, c2}
    Null = Null
    Handler = {h1, h2}
    MaxTime = 2
    MaxChanges = 3
    MaxOpen = 1
    MaxJumbled = 2
    Call = {h1, h2}
    Recording = {d1, d2}
    OffRoute = {d2}
    Upload = {c1, c2}
    MaxJourneys = 1
    MaxMixed = 2
    TestCentre = {c1, c2}
    Everywhere = Everywhere
    Session = {h1, h2}
    Check = {h1, h2}
    MAX_ATTEMPTS = 2
    Unasked = Unasked
    MaxSeconds = 1
SYMMETRY Symmetry
INVARIANTS
    FoldsInOrder
    PremiumIsPaidFor
    JourneyIsOneDrive
    PagesTellTruth
CHECK_DEADLOCK FALSE
