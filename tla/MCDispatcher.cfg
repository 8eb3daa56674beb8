SPECIFICATION Spec
CONSTANTS
    Workers = {w1, w2, w3}
    Keys = {k1, k2}
    Cooldowns = {0, 2}
    NotifierCount = 2
    Timeout = 2
    MaxConcurrent = 2
    MaxTime = 4
    MaxCalls = 4
SYMMETRY WorkerSymmetry
INVARIANTS EveryCallAccounted EveryChannelTried AdmissionsSpaced SuppressedHasCover
CHECK_DEADLOCK FALSE
