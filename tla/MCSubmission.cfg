SPECIFICATION SubmissionSpec
CONSTANTS
    u1 = u1
    u2 = u2
    f1 = f1
    f2 = f2
    f3 = f3
    a = a
    b = b
    Cron = Cron
    NoHash = NoHash
    NoKey = NoKey
    NoUpload = NoUpload
    NoFile = NoFile
    Upload = {u1, u2}
    File = {f1, f2, f3}
    UploadOf <- TwoAndOne
    Hash = {a, b}
    HashOf <- SameBytes
    Large = {f2}
    Published = {}
    Req = {q1}
    Overlap = FALSE
    MaxCompletes = 1
    MaxObjects = 1
    PartsOf <- ThreeFiles
    PART_CONCURRENCY = 3
    PART_MAX_ATTEMPTS = 3
    SIGN_BATCH = 4
    MaxStarts = 2
    MaxTime = 4
    Jumps <- TwoJumps
INVARIANTS
    
    DriveIsWhole
PROPERTIES
    StorageIsKept
    SubmissionEnds
CHECK_DEADLOCK FALSE
