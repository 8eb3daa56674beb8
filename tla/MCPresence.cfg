SPECIFICATION PFairSpec
CONSTANTS
    n1 = n1
    n2 = n2
    eu = eu
    Nodes = {n1, n2}
    AgentRegions <- MCAgentRegions
    NoRegion = NoRegion
    DefaultRegion = DefaultRegion
    CollectorRegion = NoRegion
    Regions = {NoRegion, eu}
    Timeout = 1
    EvictAfter = 1
    MaxTime = 4
INVARIANTS MarkedMeansSilent SteadyStreamVisible SteadyNodesCounted
PROPERTIES EvictionNeedsSilence SilentNodesLeave
