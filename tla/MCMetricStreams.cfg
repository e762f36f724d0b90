CONSTANTS
    Workers = {w1, w2}
    MaxEntries = 2
    Count = 2
    MaxStarts = 3
    Nobody = Nobody
SPECIFICATION FairSpec
CHECK_DEADLOCK FALSE
INVARIANTS
    StreamsTypeOK
    HandledOncePerDelivery
    DeliveredIsAccounted
PROPERTY
    StreamIsConsumed
