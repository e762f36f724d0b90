CONSTANTS
    Entities = {e1}
    Updaters = {u1, u2}
    Versions = {1, 2}
    history_len = 2
    seq_len = 1
    MaxRecords <- TwoRecords
    MaxCalls = 2
SPECIFICATION FairSpec
CHECK_DEADLOCK FALSE
INVARIANTS
    ProfilesTypeOK
    UpdateLostOnlyToOverlap
PROPERTY
    RefreshRepairs
