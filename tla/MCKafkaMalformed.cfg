CONSTANTS
    MaxEvents = 2
    MaxStarts = 1
    MaxTaken = 2
    MaxPage = 2
    DlqCanFail = FALSE
SPECIFICATION Spec
CHECK_DEADLOCK FALSE
INVARIANT
    MalformedDropsOnlyItself
