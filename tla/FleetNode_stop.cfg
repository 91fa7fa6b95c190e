SPECIFICATION FairSpec
CONSTANTS
    g1 = g1
    Grounds <- Ground
    Commands <- StartAndStop
    MaxSession = 1
    MaxSeq = 3
    MaxWire = 1
    InboxSize = 1
    QueueSize = 2
    CacheSize = 1
INVARIANTS
    StopTakesEffect
    InTurn
PROPERTIES
    StopIsHeard
CHECK_DEADLOCK FALSE
