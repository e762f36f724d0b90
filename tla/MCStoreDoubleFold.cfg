CONSTANTS
    c1 = c1
    c2 = c2
    Clients = {c1, c2}
    Keys = {k1}
    Values = {1, 3}
    WindowSize <- Window2
    MaxWatchRetries = 2
    WatchErrorOnDisconnect = TRUE
    MaxUpdates = 1
    NoUpdate = NoUpdate
SPECIFICATION Spec
CHECK_DEADLOCK FALSE
INVARIANT
    FoldedAtMostOnce
