CONSTANTS
    w1 = w1
    w2 = w2
    Clients = {w1, w2}
    Keys <- KeySet
    Values = {0, 2, 9}
    WindowSize <- Window2
    MaxWatchRetries = 2
    WatchErrorOnDisconnect = TRUE
    MaxUpdates = 3
    NoUpdate = NoUpdate
    GranularityHours = 2
    SplitWeekend = TRUE
    NonSeasonal = {"disk"}
    Seasonal = {"cpu", "disk"}
    Method <- MethodOf
    Inbox <- OverlappingInbox
    MaxBatch = 2
    MinSamples = 2
    Threshold = 1
SPECIFICATION WorkerSpec
CHECK_DEADLOCK FALSE
INVARIANTS
    WorkerTypeOK
    ScoredBeforeFold
    VerdictMatchesHistory
