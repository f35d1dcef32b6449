SPECIFICATION Spec
CONSTANTS
    Horizon = 3
    Tolerance = 0
    Harm = 1
    ReplicaCap = 2
    Downtime = 1
    QueueCap = 4
    SloQueue = 1
    RetryCap = 1
    Interval = 2
    EpisodeTicks = 4
    Scenarios <- MCScenarios
INVARIANTS
    TruthComesTrue
    TwinReliable
    TotalsReconcile
PROPERTY
    ImplementsGatedDecision
