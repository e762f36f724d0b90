CONSTANTS
    c1 = c1
    c2 = c2
    Clients = {c1, c2}
    Keys = {k1, k2}
    Values = {1, 3}
    WindowSize <- Window2
    MaxWatchRetries = 2
    WatchErrorOnDisconnect = FALSE
    MaxUpdates = 2
    NoUpdate = NoUpdate
SPECIFICATION FairSpec
CHECK_DEADLOCK FALSE
INVARIANTS
    TypeOK
    WindowIsLogSuffix
    FoldedAtMostOnce
    OutcomeIsTruthful
    ConflictsArePaidFor
    StatisticsMatchWindow
PROPERTIES
    NoLostUpdate
    ImplementsSlidingWindow
    ImplementsFairly
