SPECIFICATION FairSpec
CONSTANTS
    Remedy = {r1, r2}
    NoOp = NoOp
    Null = Null
    Timeout = 6
    Reserve = 2
    CallTimeout = 5
    MaxSteps = 3
    MaxRetries = 1
    MaxAttempts = 3
    MinAttempt = 1
    Overrun = 1
    MaxWait = 1
INVARIANTS RequestsInTime ReturnsAdmissible TraceAgrees
PROPERTY Decides
