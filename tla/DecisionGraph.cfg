SPECIFICATION FairSpec
CONSTANTS
    Remedy = {migrate, restart}
    NoOp = NoOp
    Null = Null
    RetryCap = 2
    Interval = 2
    EpisodeTicks = 3
INVARIANTS
    RejectedNeverExecutes
    MarkedIffExecuted
    RetriesBounded
    DecisionIsOwn
PROPERTIES
    EpisodeEnds
    ImplementsGatedDecision
