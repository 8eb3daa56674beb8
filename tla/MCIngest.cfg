SPECIFICATION FairSpec
CONSTANTS
    n1 = n1
    n2 = n2
    Streams = {s1, s2}
    Nodes = {n1, n2}
    Types = {exec}
    Identity <- MCIdentity
    NoIdentity = NoIdentity
    Sent <- MCSent
    MaxEvents = 2
    MaxTotal = 2
    MaxAlerts = 1
    MaxCrashes = 1
INVARIANTS AckedIsDurable RejectedLeavesNoTrace CountersWithinDrift OneAckPerEvent AlertsDispatched
PROPERTY EveryEventAnswered
CHECK_DEADLOCK FALSE
