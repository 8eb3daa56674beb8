SPECIFICATION FairSpec
CONSTANTS
    RingCap = 1
    RxCap = 2
    BridgeCap = 1
    Window = 1
    AckWindow = 2
    Flight = 1
    Transports = {"eager"}
    MaxEvents = 4
    MaxFailures = 1
    MaxBackoff = 3
PROPERTY DroppedConnectionLosesNothing
CHECK_DEADLOCK FALSE
