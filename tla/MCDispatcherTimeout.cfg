SPECIFICATION Spec
CONSTANTS
    Workers = {w1, w2}
    Keys = {k1, k2}
    Cooldowns = {0, 2}
    NotifierCount = 2
    Timeout = 2
    MaxConcurrent = 2
    MaxTime = 4
    MaxCalls = 2
PROPERTY PerNotifierTimeout
CHECK_DEADLOCK FALSE
