SPECIFICATION FairSpec
CONSTANTS
    RingCap = 1
    RxCap = 2
    BridgeCap = 1
    Window = 1
    AckWindow = 2
    Flight = 1
    Transports = {"lazy"}
    MaxEvents = 4
    MaxFailures = 0
    MaxBackoff = 3
PROPERTY QueuedEventsFlow
CHECK_DEADLOCK FALSE
