SPECIFICATION SeqSpec
CONSTANTS
    MaxCalls = 3
    MaxTokens = 4
    MaxReservation = 2
    Excess = 2
    MaxRestarts = 2
    Event <- MCEvent
    Target = {"node", "link", "service"}
    ServiceTarget = {"service"}
    Kind <- MCKind
    Of <- MCOf
    Magnitude <- MCMagnitude
    StartTicks = {0, 1}
    Durations = {1, 3}
    Cap = 3
    LastTick = 4
    Attempts = 2
    MaxSteps = 2
    MaxKills = 1
    Node <- MCNode
    Link <- MCLink
    Ends <- MCEnds
    Client <- MCClient
    Sorted <- MCSorted
    Limits <- MCLimits
    NoLimit = NoLimit
    Remedy = {scale, migrate}
    Migrations = {migrate}
    Decisions = 2
    RetryCap = 1
    Deltas <- MCDeltas
    Predictions = {0, 3}
    HarmThreshold = 3
    Samples = 4
    Largest = 3
    Tests = 3
    One = 8
    NoOp = NoOp
    Null = Null
INVARIANTS
    SearchExact
    ReplayReproduces
    ValuesCompose
    BaselinesAreOriginal
    StudyReconciles
    PValuesExact
PROPERTIES
    GuardKeepsPromise
CHECK_DEADLOCK FALSE
