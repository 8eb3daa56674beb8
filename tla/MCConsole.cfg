SPECIFICATION CFairSpec
CONSTANTS
    Received <- MCReceived
    AnyNode = ""
    MaxScan = 2
    Views <- MCViews
    FirstView <- MCFirstView
    MaxMounts = 2
    MaxChanges = 1
    MaxFailures = 1
INVARIANTS TypeOK ShownIsNewest
PROPERTIES ViewNeverGoesBack PageCatchesUp
CHECK_DEADLOCK FALSE
