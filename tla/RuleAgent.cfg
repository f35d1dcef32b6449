SPECIFICATION Spec
CONSTANTS
    Services = 2
    Nodes = 2
    Link = {"l1", "l2"}
    Paths <- MCPaths
    Placements <- MCPlacements
    Telemetry <- MCTelemetry
    Refusals <- MCRefusals
    Leaky = {1}
    Threshold = 1
    Sustain = 2
    MemWindow = 3
    Configs <- MCConfigs
    Downtime = 2
    RetryCap = 2
    Interval = 2
    EpisodeTicks = 7
INVARIANTS
    ProposesWhatIsDue
    RetriesMoveOn
