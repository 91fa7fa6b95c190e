SPECIFICATION Spec
CONSTANTS
    g1 = g1
    Grounds <- Ground
    Commands <- GotoOnly
    MaxSession = 2
    MaxSeq = 2
    MaxWire = 1
    InboxSize = 1
    QueueSize = 1
    CacheSize = 1
INVARIANTS
    TypeOK
PROPERTIES
    ImplementsLedger
CHECK_DEADLOCK FALSE
