CONSTANTS
    MaxEvents = 2
    MaxStarts = 2
    MaxTaken = 4
    MaxPage = 2
    DlqCanFail = TRUE
SPECIFICATION FairSpec
CHECK_DEADLOCK FALSE
INVARIANTS
    TypeOK
    RecordsAreConserved
    CountersAgree
    CountedIsDeadLettered
    ConsumedIsAccounted
PROPERTIES
    RaisingPollIsRetried
    AcceptedIsEmitted
    BacklogIsRead
