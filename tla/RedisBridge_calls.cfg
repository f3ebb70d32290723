SPECIFICATION FairSpec
CONSTANTS
    Calls = {c1}
    Workers = {w1, w2}
    Deadline = 1
    HttpTimeout = 1
    ClaimMinIdle = 2
    Skew = 0
    MaxAttempts = 2
    ConnectAttempts = 2
    TransientAttempts = 2
    MaxTroubles = 1
INVARIANTS PaidOnce OneAtATime
PROPERTY RequestsSettle
CHECK_DEADLOCK FALSE
