SPECIFICATION StorageSpec
CONSTANTS
    u1 = u1
    u2 = u2
    f1 = f1
    f2 = f2
    r1 = r1
    r2 = r2
    r3 = r3
    w1 = w1
    w2 = w2
    a = a
    b = b
    Cron = Cron
    NoHash = NoHash
    NoKey = NoKey
    NoUpload = NoUpload
    NoFile = NoFile
    NoObject = NoObject
    Upload = {u1, u2}
    File = {f1, f2}
    UploadOf <- OneEach
    Hash = {a, b}
    HashOf <- SameBytes
    Large = {f1}
    Published = {}
    Req = {q1}
    Overlap = TRUE
    MaxCompletes = 1
    MaxObjects = 1
    Route = {r1, r2, r3}
    Worker = {w1, w2}
    Sha = {a, b}
    Footage <- MixedFootage
    MaxRuns = 2
PROPERTY SharedSurvives
CHECK_DEADLOCK FALSE
