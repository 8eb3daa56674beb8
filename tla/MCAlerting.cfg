SPECIFICATION Spec
CONSTANTS
    Files <- MCShipped
    Events <- MCEvents
    ExpFrom = 1000000
    HasText <- MCHasText
    Compiles <- MCCompiles
    Matches <- MCMatches
INVARIANT HighPortAlerts
CHECK_DEADLOCK FALSE
