SPECIFICATION FairSpec
CONSTANTS
    RingCap = 1
    RxCap = 2
    BridgeCap = 1
    Window = 1
    AckWindow = 2
    Flight = 1
    Transports = {"lazy", "eager"}
    MaxEvents = 6
    MaxFailures = 2
    MaxBackoff = 3
INVARIANT CleanExit
PROPERTIES ImplementsLossyStreams HandoffCompletes RingKeepsDraining
CHECK_DEADLOCK FALSE
