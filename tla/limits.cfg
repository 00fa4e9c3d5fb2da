\* Requests for a code draw on a bucket of one admission and on one of two, as those of
\* an address by minute and by hour, and prune both when their windows end together.
SPECIFICATION FairSpec
CONSTANTS
    Requests = {r1, r2}
    Keys = {1, 2}
    CodeScopes <- BothBuckets
    VerifyScopes <- OtherBuckets
    Maximum <- OneAndTwo
    Window <- OneAndThree
    None = None
    Kept = Kept
    MaxTime = 4
    MaxLag = 1
INVARIANTS
    LimitsAreKept
    CallersNeverDeadlock
PROPERTIES
    ImplementsSerial
    EveryRequestEnds
