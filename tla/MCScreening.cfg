SPECIFICATION SFairSpec
CONSTANTS
    Rate = 2
    Burst = 4
    Unit = 3
    MaxClock = 4
    Files <- MCFiles
    Events <- MCEvents
    ExpFrom = 1000000
    HasText <- MCHasText
    Compiles <- MCCompiles
    Matches <- MCMatches
    Nodes = {n1, n2}
    Types = {"exec"}
    Windows <- MCWindows
    MaxTime = 4
    MaxEvents = 3
INVARIANTS RateBound NeverThrottlesEarly FiresAsWritten
PROPERTIES RemembersEverything IdleKeysLeave
CHECK_DEADLOCK FALSE
