SPECIFICATION FairSpec
CONSTANTS
    Owner = {w0, w1}
    MaxCalls = 3
    MaxTokens = 2
    Reservation = {0, 2}
    MaxAttempts = 2
    Overrun = 1
    Complete = {TRUE, FALSE}
INVARIANTS
    LedgerReconciles
    ReportedCovered
PROPERTIES
    FailsClosed
    ImplementsCallBudget
    CallsResolve
