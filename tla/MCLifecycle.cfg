SPECIFICATION LFairSpec
CONSTANTS
    Nodes = {n1, n2}
    Procs = {p1, p2}
    Streams = {s1}
    MaxTokens = 3
INVARIANTS LIInv StreamTokenActive RevokedStaysDead NoGcOnClosedStore
PROPERTIES OnlyRevokedReplaced StoredUnderActiveToken ShutdownEnds
