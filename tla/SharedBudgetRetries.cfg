SPECIFICATION Spec
CONSTANTS
    Owner = {w0, w1}
    MaxCalls = 3
    MaxTokens = 3
    Reservation = {1}
    MaxAttempts = 2
    Overrun = 0
    Complete = {TRUE}
INVARIANT SpendCovered
