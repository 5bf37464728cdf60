SPECIFICATION Spec
CONSTANTS
    deviationM = 1
    sustainM = 2
    gapM = 1
    reentryToleranceM = 1
    minCoveragePct = 50
    searchWindowM = 2
    backToleranceM = 1
    MAX_SPEED_MPS = 1
    MAX_WINDOW_M = 6
    TELEPORT_SLACK_M = 1
    Shapes <- TwoShapes
    Offsets = {0, 1, 6}
    Waits = {2}
    MaxFixes = 4
    min_overlap_pct = 95
    step_ms = 1
    Candidates <- TriedOffsets
    Errors <- ClockErrors
    Duration = {2, 3}
    Pause <- OverlapsAndGaps
    Leads = {0, 3}
    MaxClips = 3
    Firsts = {{"gpx", "r1"}, {"front", "r1"}}
    Attachments = {{"front"}}
    MaxRuns = 2
    durationMs = 4
    SyncOffsets <- EarlyAndLate
    Tracks <- TwoTracks
    RESYNC_MS = 1
    Rates = {1, 2}
    LogFile <- TwoFiles
    DEDUPE_WINDOW_MS = 2
    TELEPORT_SPEED_MPS = 2
    HEAL_MS = 6
    LogTimes = {0, 1, 2, 3, 7}
    Accuracies = {0, 1, 2}
    Stray = 50
    MaxLogged = 3
    Headings = {0, 60, 120, 180, 240, 300}
    turn_threshold = 18
    MaxHops = 5
    DAY = 2
    Misread <- ReadAs
    LineTimes = {0, 1, 2, 3}
    MaxLines = 3
    MIN_SAMPLES = 2
    MAX_LAG = 3
    REVIEW_AFTER = 5
    Starts <- StartsAround
    ClockErrorsRear = {0, 2}
    ClipLengths = {2, 3}
    MaxClipsEach = 2
INVARIANTS
    VerdictFollowsTheDrive
    FilmIsTheDrive
    PublishedIsWhole
    
    GuideFollowsTheDrive
    LogsAreTheDrive
    RearIsBesideFront
CHECK_DEADLOCK FALSE
